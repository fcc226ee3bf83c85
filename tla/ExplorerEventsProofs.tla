------------------------ MODULE ExplorerEventsProofs ------------------------
(***************************************************************************)
(* Proofs about ExplorerEvents, for every capacity, every resize and every *)
(* length of the ledger: what can be read, and that the healed ring        *)
(* implements EventLedger and announces what it evicts.                    *)
(***************************************************************************)
EXTENDS ExplorerEvents, ExplorerInstanceProofs, FiniteSetTheorems,
        SequenceTheorems

(***************************************************************************)
(* Slot arithmetic.                                                        *)
(***************************************************************************)

\* A sequence number is its lap around the ring and its slot.
LEMMA SlotAndLap ==
  ASSUME NEW a \in Nat, NEW m \in Nat \ {0}
  PROVE  /\ a % m \in 0 .. (m - 1)
         /\ a \div m \in Nat
         /\ a = m * (a \div m) + (a % m)
OBVIOUS

LEMMA SlotOfLap ==
  ASSUME NEW m \in Nat \ {0}, NEW lap \in Int, NEW r \in 0 .. (m - 1)
  PROVE  (m * lap + r) % m = r
OBVIOUS

\* The sequence number submit_event evicts lives in the slot it writes.
LEMMA EvictedSharesSlot ==
  ASSUME NEW a \in Nat, NEW m \in Nat \ {0}, a >= m
  PROVE  (a - m) % m = a % m
<1> DEFINE lap == a \div m
           r   == a % m
<1>1. a - m = m * (lap - 1) + r
  BY SlotAndLap
<1>2. r \in 0 .. (m - 1) /\ lap - 1 \in Int
  BY SlotAndLap
<1> HIDE DEF lap, r
<1>3. (m * (lap - 1) + r) % m = r
  BY <1>2, SlotOfLap
<1> QED
  BY <1>1, <1>3 DEF r

\* Sequence numbers less than a capacity apart never share a slot.
LEMMA NeighboursDiffer ==
  ASSUME NEW a \in Nat, NEW b \in Nat, NEW m \in Nat \ {0}, a < b, b - a < m
  PROVE  a % m # b % m
<1> SUFFICES ASSUME a % m = b % m PROVE FALSE
  OBVIOUS
<1> DEFINE laps == (b \div m) - (a \div m)
<1>1. laps \in Int /\ b - a = m * laps
  BY SlotAndLap
<1> HIDE DEF laps
<1>2. CASE laps >= 1
  <2>1. m * laps >= m
    BY <1>1, <1>2
  <2> QED
    BY <1>1, <2>1
<1>3. CASE laps <= 0
  <2>1. m * laps <= 0
    BY <1>1, <1>3
  <2> QED
    BY <1>1, <2>1
<1> QED
  BY <1>1, <1>2, <1>3

(***************************************************************************)
(* The inductive invariant.                                                *)
(***************************************************************************)

\* The inductive invariant of the ring: a contract nobody
\* initialised is empty, every stored event is the one submitted under its
\* number, and the window is exact since the last change of capacity.
RingInv ==
  /\ EventsTypeOK
  /\ admin = NoAddress => eventSeq = 0
  /\ \A slot \in DOMAIN eventLog :
        eventLog[slot].input = submitted[eventLog[slot].seq + 1]
  /\ WindowExactSinceLayout

\* The three parts of RingInv beside the types.
EmptyBeforeInit == admin = NoAddress => eventSeq = 0
EntriesFaithful ==
  \A slot \in DOMAIN eventLog :
    eventLog[slot].input = submitted[eventLog[slot].seq + 1]

LEMMA RingInvParts ==
  RingInv <=> /\ EventsTypeOK
              /\ EmptyBeforeInit
              /\ EntriesFaithful
              /\ WindowExactSinceLayout
BY DEF RingInv, EmptyBeforeInit, EntriesFaithful

\* A sequence number is in the window when it is among the last maxEvents.
LEMMA WindowOf ==
  ASSUME NEW e \in Nat, NEW m \in Nat \ {0}, NEW seq \in Nat
  PROVE  seq \in (IF e > m THEN e - m ELSE 0) .. (e - 1)
           <=> seq + m >= e /\ seq < e
OBVIOUS

LEMMA InWindow ==
  ASSUME eventSeq \in Nat, maxEvents \in Nat \ {0}, NEW seq \in Nat
  PROVE  seq \in Window <=> seq + maxEvents >= eventSeq /\ seq < eventSeq
BY WindowOf DEF Window, oldest

\* Every call but submit_event is one of the instance's and stores no event.
LEMMA OtherCalls ==
  ASSUME [EventsNext]_eventVars,
         ~ \E caller \in Signer, input \in Input : submit_event(caller, input)
  PROVE  /\ [InstanceNext]_instanceVars
         /\ UNCHANGED <<eventLog, submitted>>
         /\ \/ \E new_admin \in InitAdmin, max_events \in InitCapacity :
                    Open(new_admin, max_events)
            \/ \E caller \in Signer, new_max \in ResizeTo : Resize(caller, new_max)
            \/ UNCHANGED <<eventSeq, maxEvents, layoutSeq>>
<1>1. ASSUME NEW new_admin \in InitAdmin, NEW max_events \in InitCapacity,
             Open(new_admin, max_events)
      PROVE  InstanceNext /\ UNCHANGED <<eventLog, submitted>>
  BY <1>1 DEF Open, InstanceNext, ringVars
<1>2. ASSUME NEW caller \in Signer, NEW new_max \in ResizeTo,
             Resize(caller, new_max)
      PROVE  InstanceNext /\ UNCHANGED <<eventLog, submitted>>
  BY <1>2 DEF Resize, InstanceNext
<1>3. ASSUME GovernanceCall, UNCHANGED ringVars
      PROVE  /\ InstanceNext
             /\ UNCHANGED <<eventLog, submitted>>
             /\ UNCHANGED <<eventSeq, maxEvents, layoutSeq>>
  BY <1>3 DEF InstanceNext, GovernanceCall, ringVars, transfer_admin, accept_admin,
              cancel_admin_transfer, pause, unpause, upgrade
<1>4. ASSUME UNCHANGED eventVars
      PROVE  /\ UNCHANGED instanceVars
             /\ UNCHANGED <<eventLog, submitted>>
             /\ UNCHANGED <<eventSeq, maxEvents, layoutSeq>>
  BY <1>4 DEF eventVars, instanceVars, ringVars
<1> QED
  BY <1>1, <1>2, <1>3, <1>4 DEF EventsNext

LEMMA InitRingInv == EventsInit => RingInv
<1> SUFFICES ASSUME EventsInit PROVE RingInv
  OBVIOUS
<1> USE DEF EventsInit
<1>1. InstanceTypeOK
  BY InstanceInitHasType
<1>2. eventSeq = 0 /\ DOMAIN eventLog = {} /\ submitted = << >> /\ layoutSeq = 0
  BY DEF InstanceInit
<1>3. EventsTypeOK
  BY <1>1, <1>2, EventAssumption DEF EventsTypeOK
<1>4. WindowExactSinceLayout
  <2> SUFFICES ASSUME NEW seq \in layoutSeq .. SeqMax
               PROVE  ~Found(seq) /\ seq \notin Window
    BY DEF WindowExactSinceLayout
  <2>1. ~Found(seq)
    BY <1>2 DEF Found
  <2>2. seq \in Nat /\ maxEvents \in Nat \ {0} /\ eventSeq \in Nat
    BY <1>1, <1>2, EventAssumption DEF InstanceTypeOK
  <2>3. seq \notin Window
    BY <1>2, <2>2, InWindow
  <2> QED
    BY <2>1, <2>3
<1> QED
  BY <1>2, <1>3, <1>4 DEF RingInv

(***************************************************************************)
(* The calls that store no event.                                          *)
(***************************************************************************)

LEMMA OtherCallKeepsRingInv ==
  ASSUME RingInv, [EventsNext]_eventVars,
         ~ \E caller \in Signer, input \in Input : submit_event(caller, input)
  PROVE  RingInv'
<1>1. EventsTypeOK /\ EmptyBeforeInit /\ EntriesFaithful /\ WindowExactSinceLayout
  BY RingInvParts
<1>2. InstanceTypeOK'
  BY <1>1, OtherCalls, InstanceStepKeepsType DEF EventsTypeOK
<1>3. UNCHANGED <<eventLog, submitted>>
  BY OtherCalls
<1>4. eventSeq' = eventSeq
  <2>1. ASSUME NEW new_admin \in InitAdmin, NEW max_events \in InitCapacity,
               Open(new_admin, max_events)
        PROVE  eventSeq' = eventSeq
    BY <1>1, <2>1 DEF Open, init, Uninitialised, EmptyBeforeInit
  <2>2. ASSUME NEW caller \in Signer, NEW new_max \in ResizeTo,
               Resize(caller, new_max)
        PROVE  eventSeq' = eventSeq
    BY <2>2 DEF Resize, set_max_events
  <2> QED
    BY <2>1, <2>2, OtherCalls
<1>5. \/ UNCHANGED <<maxEvents, layoutSeq>>
      \/ layoutSeq' = eventSeq
  <2>1. ASSUME NEW new_admin \in InitAdmin, NEW max_events \in InitCapacity,
               Open(new_admin, max_events)
        PROVE  layoutSeq' = eventSeq
    <3>1. eventSeq = 0 /\ layoutSeq' = layoutSeq
      BY <1>1, <2>1 DEF Open, init, Uninitialised, EmptyBeforeInit, ringVars
    <3>2. layoutSeq \in 0 .. eventSeq
      BY <1>1 DEF EventsTypeOK
    <3> QED
      BY <3>1, <3>2
  <2>2. ASSUME NEW caller \in Signer, NEW new_max \in ResizeTo,
               Resize(caller, new_max)
        PROVE  layoutSeq' = eventSeq
    BY <2>2 DEF Resize
  <2> QED
    BY <2>1, <2>2, OtherCalls
<1>6. EventsTypeOK'
  BY <1>1, <1>2, <1>3, <1>4, <1>5 DEF EventsTypeOK, InstanceTypeOK
<1>7. EmptyBeforeInit'
  <2>1. CASE admin = NoAddress
    BY <1>1, <1>4, <2>1 DEF EmptyBeforeInit
  <2>2. CASE admin # NoAddress
    <3>1. admin' # NoAddress
      BY <2>2, OtherCalls, AddressAssumption
         DEF InstanceNext, GovernanceCall, instanceVars, init, Uninitialised,
             transfer_admin, Nominate, accept_admin, Promote,
             cancel_admin_transfer, set_max_events, pause, unpause, upgrade
    <3> QED
      BY <3>1 DEF EmptyBeforeInit
  <2> QED
    BY <2>1, <2>2
<1>8. EntriesFaithful'
  BY <1>1, <1>3 DEF EntriesFaithful
<1>9. WindowExactSinceLayout'
  <2>1. CASE UNCHANGED <<maxEvents, layoutSeq>>
    BY <1>1, <1>3, <1>4, <2>1
       DEF WindowExactSinceLayout, Found, Slot, Window, oldest
  <2>2. CASE layoutSeq' = eventSeq
    <3> SUFFICES ASSUME NEW seq \in layoutSeq' .. SeqMax
                 PROVE  ~Found(seq)' /\ seq \notin Window'
      BY DEF WindowExactSinceLayout
    <3>1. /\ eventSeq \in Nat /\ seq \in Nat /\ seq >= eventSeq
          /\ eventSeq' \in Nat /\ maxEvents' \in Nat \ {0}
      BY <1>1, <1>4, <1>6, <2>2, EventAssumption DEF EventsTypeOK, InstanceTypeOK
    <3>2. \A slot \in DOMAIN eventLog : eventLog[slot].seq # seq
      BY <1>1, <3>1 DEF EventsTypeOK, DecodedEvent
    <3>3. ~Found(seq)'
      BY <1>3, <3>2 DEF Found
    <3>4. seq \notin Window'
      <4>1. seq \in Window' => seq < eventSeq'
        BY <3>1, WindowOf DEF Window, oldest
      <4> QED
        BY <1>4, <3>1, <4>1
    <3> QED
      BY <3>3, <3>4
  <2> QED
    BY <1>5, <2>1, <2>2
<1> QED
  BY <1>6, <1>7, <1>8, <1>9 DEF RingInv, EmptyBeforeInit, EntriesFaithful

(***************************************************************************)
(* submit_event.                                                           *)
(***************************************************************************)

\* The entry under the written slot is the new event, the others are untouched.
LEMMA SubmittedEntry ==
  ASSUME EventsTypeOK, NEW caller \in Signer, NEW input \in Input,
         submit_event(caller, input)
  PROVE  /\ DOMAIN eventLog' = DOMAIN eventLog \cup {Slot(eventSeq)}
         /\ eventLog'[Slot(eventSeq)] \in DecodedEvent
         /\ eventLog'[Slot(eventSeq)].seq = eventSeq
         /\ eventLog'[Slot(eventSeq)].input = input
         /\ \A slot \in DOMAIN eventLog :
               slot # Slot(eventSeq) => eventLog'[slot] = eventLog[slot]
<1>1. eventSeq \in Nat
  BY DEF EventsTypeOK, InstanceTypeOK
<1>2. eventLog' = Stored(eventLog, Slot(eventSeq),
                         [seq |-> eventSeq, input |-> input])
  BY DEF submit_event
<1>3. DOMAIN eventLog' = DOMAIN eventLog \cup {Slot(eventSeq)}
  BY <1>2 DEF Stored
<1>4. eventLog'[Slot(eventSeq)] = [seq |-> eventSeq, input |-> input]
  BY <1>2 DEF Stored
<1>5. \A slot \in DOMAIN eventLog :
        slot # Slot(eventSeq) => eventLog'[slot] = eventLog[slot]
  BY <1>2 DEF Stored
<1> QED
  BY <1>1, <1>3, <1>4, <1>5 DEF DecodedEvent

LEMMA SubmitKeepsTypes ==
  ASSUME EventsTypeOK, NEW caller \in Signer, NEW input \in Input,
         submit_event(caller, input)
  PROVE  EventsTypeOK'
<1> USE DEF EventsTypeOK
<1>1. InstanceTypeOK'
  BY DEF submit_event, InstanceTypeOK
<1>2. eventSeq \in Nat /\ eventSeq' = eventSeq + 1 /\ eventSeq' <= SeqMax
  BY EventAssumption DEF submit_event, InstanceTypeOK
<1>3. Slot(eventSeq) \in Nat
  BY SlotAndLap DEF Slot, InstanceTypeOK
<1>4. DOMAIN eventLog' \subseteq Nat
  BY <1>3, SubmittedEntry
<1>5. \A slot \in DOMAIN eventLog' :
        eventLog'[slot] \in DecodedEvent /\ eventLog'[slot].seq < eventSeq'
  <2> SUFFICES ASSUME NEW slot \in DOMAIN eventLog'
               PROVE  /\ eventLog'[slot] \in DecodedEvent
                      /\ eventLog'[slot].seq < eventSeq'
    OBVIOUS
  <2>1. CASE slot = Slot(eventSeq)
    BY <1>2, <2>1, SubmittedEntry DEF DecodedEvent
  <2>2. CASE slot # Slot(eventSeq)
    <3>1. slot \in DOMAIN eventLog /\ eventLog'[slot] = eventLog[slot]
      BY <2>2, SubmittedEntry
    <3>2. eventLog[slot].seq \in Nat
      BY <3>1 DEF DecodedEvent
    <3> QED
      BY <1>2, <3>1, <3>2
  <2> QED
    BY <2>1, <2>2
<1>6. submitted' \in Seq(Input) /\ Len(submitted') = eventSeq'
  BY <1>2 DEF submit_event
<1>7. layoutSeq' \in 0 .. eventSeq'
  BY <1>2 DEF submit_event
<1> QED
  BY <1>1, <1>2, <1>4, <1>5, <1>6, <1>7

\* What can be found after a submission: the new event, and whatever could be
\* found before in another slot.
LEMMA FoundAfterSubmit ==
  ASSUME EventsTypeOK, NEW caller \in Signer, NEW input \in Input,
         submit_event(caller, input), NEW n \in Nat
  PROVE  Found(n)' <=> \/ n = eventSeq
                       \/ Slot(n) # Slot(eventSeq) /\ Found(n)
<1>1. maxEvents' = maxEvents
  BY DEF submit_event
<1>2. Found(n)' <=> Slot(n) \in DOMAIN eventLog' /\ eventLog'[Slot(n)].seq = n
  BY <1>1 DEF Found, Slot
<1>3. CASE Slot(n) = Slot(eventSeq)
  <2>1. /\ Slot(eventSeq) \in DOMAIN eventLog'
        /\ eventLog'[Slot(eventSeq)].seq = eventSeq
    BY SubmittedEntry
  <2>2. /\ Slot(n) \in DOMAIN eventLog'
        /\ eventLog'[Slot(n)].seq = eventSeq
    BY ONLY <1>3, <2>1
  <2> QED
    BY <1>2, <1>3, <2>2
<1>4. CASE Slot(n) # Slot(eventSeq)
  <2>1. Slot(n) \in DOMAIN eventLog' <=> Slot(n) \in DOMAIN eventLog
    BY <1>4, SubmittedEntry
  <2>2. Slot(n) \in DOMAIN eventLog
          => eventLog'[Slot(n)] = eventLog[Slot(n)]
    BY <1>4, SubmittedEntry
  <2>3. n # eventSeq
    BY <1>4
  <2> QED
    BY <1>2, <1>4, <2>1, <2>2, <2>3 DEF Found
<1> QED
  BY <1>3, <1>4

LEMMA SubmitKeepsFaith ==
  ASSUME EventsTypeOK, EntriesFaithful, NEW caller \in Signer, NEW input \in Input,
         submit_event(caller, input)
  PROVE  EntriesFaithful'
<1>1. submitted' = Append(submitted, input)
  BY DEF submit_event
<1>2. submitted \in Seq(Input) /\ Len(submitted) = eventSeq /\ eventSeq \in Nat
  BY DEF EventsTypeOK, InstanceTypeOK
<1> SUFFICES ASSUME NEW slot \in DOMAIN eventLog'
             PROVE  eventLog'[slot].input = submitted'[eventLog'[slot].seq + 1]
  BY DEF EntriesFaithful
<1>3. CASE slot = Slot(eventSeq)
  <2>1. submitted'[eventSeq + 1] = input
    BY <1>1, <1>2
  <2> QED
    BY <1>3, <2>1, SubmittedEntry
<1>4. CASE slot # Slot(eventSeq)
  <2>1. slot \in DOMAIN eventLog /\ eventLog'[slot] = eventLog[slot]
    BY <1>4, SubmittedEntry
  <2>2. eventLog[slot].seq \in Nat /\ eventLog[slot].seq < eventSeq
    BY <2>1 DEF EventsTypeOK, DecodedEvent
  <2>3. eventLog[slot].input = submitted[eventLog[slot].seq + 1]
    BY <2>1 DEF EntriesFaithful
  <2>4. submitted'[eventLog[slot].seq + 1] = submitted[eventLog[slot].seq + 1]
    BY <1>1, <1>2, <2>2
  <2> QED
    BY <2>1, <2>3, <2>4
<1> QED
  BY <1>3, <1>4

\* The window moves by one: the new event enters, the event that shared its
\* slot, if it was still in the window, leaves.
LEMMA SubmitKeepsWindow ==
  ASSUME EventsTypeOK, WindowExactSinceLayout,
         NEW caller \in Signer, NEW input \in Input, submit_event(caller, input)
  PROVE  WindowExactSinceLayout'
<1>1. /\ eventSeq' = eventSeq + 1 /\ maxEvents' = maxEvents
      /\ layoutSeq' = layoutSeq
      /\ eventSeq \in Nat /\ maxEvents \in Nat \ {0} /\ layoutSeq \in Nat
  BY DEF submit_event, EventsTypeOK, InstanceTypeOK
<1> SUFFICES ASSUME NEW seq \in layoutSeq .. SeqMax
             PROVE  Found(seq)' <=> seq \in Window'
  BY <1>1 DEF WindowExactSinceLayout
<1>2. seq \in Nat /\ (Found(seq) <=> seq \in Window)
  BY <1>1, EventAssumption DEF WindowExactSinceLayout
<1>3. seq \in Window <=> seq + maxEvents >= eventSeq /\ seq < eventSeq
  BY <1>1, <1>2, InWindow
<1>4. seq \in Window' <=> seq + maxEvents >= eventSeq + 1 /\ seq < eventSeq + 1
  BY <1>1, <1>2 DEF Window, oldest
<1>5. Found(seq)' <=> \/ seq = eventSeq
                      \/ Slot(seq) # Slot(eventSeq) /\ Found(seq)
  BY <1>2, FoundAfterSubmit
<1>6. CASE seq = eventSeq
  BY <1>1, <1>4, <1>5, <1>6
<1>7. CASE seq > eventSeq
  BY <1>1, <1>2, <1>3, <1>4, <1>5, <1>7
<1>8. CASE seq < eventSeq
  <2>1. CASE eventSeq - seq < maxEvents
    <3>1. Slot(seq) # Slot(eventSeq)
      BY <1>1, <1>2, <1>8, <2>1, NeighboursDiffer DEF Slot
    <3> QED
      BY <1>1, <1>2, <1>3, <1>4, <1>5, <1>8, <2>1, <3>1
  <2>2. CASE eventSeq - seq = maxEvents
    <3>1. Slot(seq) = Slot(eventSeq)
      <4>1. seq = eventSeq - maxEvents /\ eventSeq >= maxEvents
        BY <1>1, <1>2, <2>2
      <4> QED
        BY <1>1, <4>1, EvictedSharesSlot DEF Slot
    <3> QED
      BY <1>1, <1>2, <1>4, <1>5, <1>8, <2>2, <3>1
  <2>3. CASE eventSeq - seq > maxEvents
    BY <1>1, <1>2, <1>3, <1>4, <1>5, <1>8, <2>3
  <2> QED
    BY <1>1, <1>2, <2>1, <2>2, <2>3
<1> QED
  BY <1>1, <1>2, <1>6, <1>7, <1>8

LEMMA SubmitKeepsRingInv ==
  ASSUME RingInv, NEW caller \in Signer, NEW input \in Input,
         submit_event(caller, input)
  PROVE  RingInv'
<1>1. EventsTypeOK /\ EmptyBeforeInit /\ EntriesFaithful /\ WindowExactSinceLayout
  BY RingInvParts
<1>2. EventsTypeOK'
  BY <1>1, SubmitKeepsTypes
<1>3. EmptyBeforeInit'
  BY AddressAssumption DEF submit_event, IsAdmin, EmptyBeforeInit
<1>4. EntriesFaithful'
  BY <1>1, SubmitKeepsFaith
<1>5. WindowExactSinceLayout'
  BY <1>1, SubmitKeepsWindow
<1> QED
  BY <1>2, <1>3, <1>4, <1>5 DEF RingInv, EmptyBeforeInit, EntriesFaithful

(***************************************************************************)
(* The theorems.                                                           *)
(***************************************************************************)

\* No call, whatever the capacity was changed to and however often, breaks RingInv.
LEMMA RingInvStep == RingInv /\ [EventsNext]_eventVars => RingInv'
BY SubmitKeepsRingInv, OtherCallKeepsRingInv

\* RingInv is inductive: it holds in every reachable state.
THEOREM RingInvariant == EventsSpec => []RingInv
BY InitRingInv, RingInvStep, PTL DEF EventsSpec

\* In every reachable state the entries have their types and every stored event
\* carries a sequence number already handed out.
THEOREM EventsTypeCorrect == EventsSpec => []EventsTypeOK
<1>1. RingInv => EventsTypeOK
  BY DEF RingInv
<1> QED
  BY <1>1, RingInvariant, PTL

\* In a state of the invariant a read is faithful: an event found under seq carries
\* that number.
LEMMA InvReadsFaithful == RingInv => ReadsAreFaithful
<1> SUFFICES ASSUME RingInv, NEW seq \in 0 .. SeqMax, Found(seq)
             PROVE  /\ seq < eventSeq
                    /\ get_event(seq).input = submitted[seq + 1]
  BY DEF ReadsAreFaithful
<1>1. Slot(seq) \in DOMAIN eventLog /\ eventLog[Slot(seq)].seq = seq
  BY DEF Found
<1>2. eventLog[Slot(seq)].seq < eventSeq
  BY <1>1 DEF RingInv, EventsTypeOK
<1>3. eventLog[Slot(seq)].input = submitted[eventLog[Slot(seq)].seq + 1]
  BY <1>1 DEF RingInv
<1> QED
  BY <1>1, <1>2, <1>3 DEF get_event

\* Whatever resizes happened, get_event(seq) never returns another event than
\* the one submitted as seq.
THEOREM ReadsFaithful == EventsSpec => []ReadsAreFaithful
BY InvReadsFaithful, RingInvariant, PTL

\* Of the events submitted since the capacity last changed, exactly those inside
\* the live window can be read.
THEOREM WindowExact == EventsSpec => []WindowExactSinceLayout
<1>1. RingInv => WindowExactSinceLayout
  BY DEF RingInv
<1> QED
  BY <1>1, RingInvariant, PTL

\* Every slot belongs to one of the last m sequence numbers.
LEMMA WindowHitsEverySlot ==
  ASSUME NEW e \in Nat, NEW m \in Nat \ {0}, NEW s \in Nat, s < e
  PROVE  \E n \in Nat : n < e /\ n + m >= e /\ s <= n /\ n % m = s % m
<1> DEFINE gap  == (e - 1) - s
           lap  == gap \div m
           n    == s + m * lap
<1>1. gap \in Nat
  OBVIOUS
<1>2. gap % m \in 0 .. (m - 1) /\ lap \in Nat /\ gap = m * lap + (gap % m)
  BY <1>1, SlotAndLap
<1>3. m * lap \in Nat
  BY <1>2
<1>4. n \in Nat /\ n < e /\ n + m >= e /\ s <= n
  BY <1>2, <1>3
<1>5. n % m = s % m
  <2>1. s = m * (s \div m) + (s % m) /\ s \div m \in Nat /\ s % m \in 0 .. (m - 1)
    BY SlotAndLap
  <2>2. n = m * ((s \div m) + lap) + (s % m) /\ (s \div m) + lap \in Int
    BY <1>2, <2>1
  <2> QED
    BY <2>1, <2>2, SlotOfLap
<1> QED
  BY <1>4, <1>5

\* In a healed state of the invariant what can be read is the live window: the
\* last maxEvents numbers occupy every slot, so nothing older is left.
LEMMA InvHealedExact == RingInv => HealedRingExact
<1> SUFFICES ASSUME RingInv, Healed
             PROVE  Readable = Window /\ event_count = Cardinality(Readable)
  BY DEF HealedRingExact
<1>1. /\ eventSeq \in Nat /\ maxEvents \in Nat /\ maxEvents > 0
      /\ layoutSeq \in Nat /\ layoutSeq <= eventSeq
      /\ eventSeq <= SeqMax /\ SeqMax \in Nat
  BY EventAssumption DEF RingInv, EventsTypeOK, InstanceTypeOK
<1>2. \A seq \in layoutSeq .. SeqMax : Found(seq) <=> seq \in Window
  BY DEF RingInv, WindowExactSinceLayout
<1>3. \A seq \in Nat : seq \in Window <=> seq + maxEvents >= eventSeq /\ seq < eventSeq
  BY <1>1, InWindow
<1>4. ASSUME NEW seq \in Nat, seq < layoutSeq
      PROVE  ~Found(seq) /\ seq \notin Window
  <2>1. eventSeq - layoutSeq >= maxEvents
    BY <1>1, <1>4 DEF Healed
  <2>2. seq \notin Window
    BY <1>1, <1>3, <1>4, <2>1
  <2>3. PICK n \in Nat : n < eventSeq /\ n + maxEvents >= eventSeq
                         /\ n % maxEvents = seq % maxEvents
    <3>1. eventSeq \in Nat /\ maxEvents \in Nat \ {0} /\ seq < eventSeq
      BY <1>1, <1>4
    <3> QED
      BY ONLY <1>4, <3>1, WindowHitsEverySlot
  <2>4. n >= layoutSeq /\ n <= SeqMax
    BY <1>1, <2>1, <2>3
  <2>5. Found(n)
    BY <1>1, <1>2, <1>3, <2>3, <2>4
  <2>6. Slot(n) = Slot(seq) /\ n # seq
    BY <1>1, <1>4, <2>3, <2>4 DEF Slot
  <2>7. ~Found(seq)
    BY <2>5, <2>6 DEF Found
  <2> QED
    BY <2>2, <2>7
<1>5. Window \subseteq 0 .. SeqMax
  BY <1>1 DEF Window, oldest
<1>6. \A seq \in 0 .. SeqMax : Found(seq) <=> seq \in Window
  BY <1>1, <1>2, <1>4
<1>7. Readable = Window
  BY <1>5, <1>6 DEF Readable
<1>8. event_count = Cardinality(Window)
  <2>1. oldest \in Int /\ eventSeq - 1 \in Int
    BY <1>1 DEF oldest
  <2>2. Cardinality(Window) = IF oldest > eventSeq - 1 THEN 0
                              ELSE (eventSeq - 1) - oldest + 1
    BY <2>1, FS_Interval DEF Window
  <2> QED
    BY <1>1, <2>1, <2>2 DEF event_count, oldest
<1> QED
  BY <1>7, <1>8

\* Once every slot was rewritten under the present capacity, what can be read is
\* the live window, and event_count counts it: a resize does lasting damage to no
\* event submitted later.
THEOREM HealedRing == EventsSpec => []HealedRingExact
BY InvHealedExact, RingInvariant, PTL

-----------------------------------------------------------------------------
(***************************************************************************)
(* Evictions of a healed ring.                                             *)
(***************************************************************************)

\* What holds in a healed state of the invariant: the bounds of the counters, which
\* numbers can be read, and what a read returns.
HealedRead ==
  /\ eventSeq \in Nat /\ eventSeq <= SeqMax /\ SeqMax \in Nat
  /\ maxEvents \in Nat /\ maxEvents > 0
  /\ layoutSeq \in Nat /\ layoutSeq <= eventSeq
  /\ \A seq : seq \in Readable <=>
       seq \in Nat /\ seq + maxEvents >= eventSeq /\ seq < eventSeq
  /\ \A seq \in Readable : get_event(seq).input = submitted[seq + 1]

LEMMA HealedFacts == RingInv /\ Healed => HealedRead
<1> SUFFICES ASSUME RingInv, Healed PROVE HealedRead
  OBVIOUS
<1>1. /\ eventSeq \in Nat /\ eventSeq <= SeqMax /\ SeqMax \in Nat
      /\ maxEvents \in Nat /\ maxEvents > 0
      /\ layoutSeq \in Nat /\ layoutSeq <= eventSeq
  BY EventAssumption DEF RingInv, EventsTypeOK, InstanceTypeOK
<1>2. Readable = Window
  BY InvHealedExact DEF HealedRingExact
<1>3. \A seq \in Nat : seq \in Window <=> seq + maxEvents >= eventSeq /\ seq < eventSeq
  BY <1>1, InWindow
<1>4. Readable \subseteq Nat
  BY DEF Readable
<1>5. \A seq \in Readable : get_event(seq).input = submitted[seq + 1]
  BY InvReadsFaithful DEF ReadsAreFaithful, Readable
<1>6. \A seq : seq \in Readable <=>
              seq \in Nat /\ seq + maxEvents >= eventSeq /\ seq < eventSeq
  BY <1>2, <1>3, <1>4
<1> QED
  BY <1>1, <1>5, <1>6 DEF HealedRead

\* The same of the state after a step.
LEMMA HealedFactsAfter == RingInv' /\ Healed' => HealedRead'
BY HealedFacts, PTL

\* A submission to a healed ring leaves it healed, and the window moves by one.
LEMMA SubmitStaysHealed ==
  ASSUME RingInv, Healed, NEW caller \in Signer, NEW input \in Input,
         submit_event(caller, input)
  PROVE  /\ RingInv' /\ Healed'
         /\ eventSeq' = eventSeq + 1 /\ maxEvents' = maxEvents
         /\ submitted' = Append(submitted, input)
<1>1. /\ eventSeq' = eventSeq + 1 /\ maxEvents' = maxEvents
      /\ layoutSeq' = layoutSeq /\ submitted' = Append(submitted, input)
  BY DEF submit_event
<1>2. Healed'
  BY <1>1, HealedFacts DEF Healed, HealedRead
<1> QED
  BY <1>1, <1>2, SubmitKeepsRingInv

\* What a submission to a healed ring makes unreadable: the event max_events
\* before it, once there is one.
LEMMA SubmitEvicts ==
  ASSUME RingInv, Healed, NEW caller \in Signer, NEW input \in Input,
         submit_event(caller, input)
  PROVE  Readable \ Readable' = IF Evicting THEN {EvictedSeq} ELSE {}
<1>1. /\ RingInv' /\ Healed'
      /\ eventSeq' = eventSeq + 1 /\ maxEvents' = maxEvents
  BY SubmitStaysHealed
<1>2. /\ eventSeq \in Nat /\ maxEvents \in Nat /\ maxEvents > 0
      /\ \A seq : seq \in Readable <=>
           seq \in Nat /\ seq + maxEvents >= eventSeq /\ seq < eventSeq
  BY HealedFacts DEF HealedRead
<1>3. \A seq : seq \in Readable' <=>
        seq \in Nat /\ seq + maxEvents >= eventSeq + 1 /\ seq < eventSeq + 1
  <2>1. \A seq : seq \in Readable' <=>
          seq \in Nat /\ seq + maxEvents' >= eventSeq' /\ seq < eventSeq'
    BY <1>1, HealedFactsAfter DEF HealedRead
  <2> QED
    BY <1>1, <2>1
<1>4. \A seq : seq \in Readable \ Readable' <=>
        seq \in Nat /\ seq + maxEvents = eventSeq
  BY ONLY <1>2, <1>3
<1>5. CASE Evicting
  <2>1. eventSeq - maxEvents \in Nat
    BY <1>2, <1>5 DEF Evicting
  <2>2. \A seq : seq \in Readable \ Readable' <=> seq = eventSeq - maxEvents
    BY ONLY <1>2, <1>4, <2>1
  <2> QED
    BY <1>5, <2>2 DEF EvictedSeq
<1>6. CASE ~Evicting
  <2>1. \A seq \in Nat : seq + maxEvents # eventSeq
    BY <1>2, <1>6 DEF Evicting
  <2> QED
    BY <1>4, <1>6, <2>1
<1> QED
  BY <1>5, <1>6

\* Sequences of publications, as the code concatenates them.
LEMMA Publications ==
  ASSUME NEW a, NEW b, NEW c
  PROVE  /\ <<a>> \o << >> \o <<c>> = <<a, c>>
         /\ <<a>> \o <<b>> \o <<c>> = <<a, b, c>>
<1> DEFINE S == {a, b, c}
<1>1. /\ <<a>> \in Seq(S) /\ <<b>> \in Seq(S) /\ <<c>> \in Seq(S)
      /\ << >> \in Seq(S) /\ b \in S /\ c \in S
      /\ <<a, b>> \in Seq(S) /\ <<a, c>> \in Seq(S) /\ <<a, b, c>> \in Seq(S)
  OBVIOUS
<1> HIDE DEF S
<1>2. <<a>> \o << >> = <<a>>
  BY <1>1
<1>3. <<a>> \o <<c>> = <<a, c>>
  <2>1. <<a>> \o <<c>> = Append(<<a>>, c)
    BY <1>1, AppendIsConcat
  <2>2. Append(<<a>>, c) = <<a, c>>
    <3>1. Len(Append(<<a>>, c)) = Len(<<a, c>>)
      BY <1>1, AppendProperties
    <3>2. \A i \in 1 .. Len(<<a, c>>) : Append(<<a>>, c)[i] = <<a, c>>[i]
      BY <1>1, AppendProperties
    <3>3. Append(<<a>>, c) \in Seq(S)
      BY <1>1, AppendProperties
    <3> QED
      BY <1>1, <3>1, <3>2, <3>3, SeqEqual
  <2> QED
    BY <2>1, <2>2
<1>4. <<a>> \o <<b>> = <<a, b>>
  <2>1. <<a>> \o <<b>> = Append(<<a>>, b)
    BY <1>1, AppendIsConcat
  <2>2. Append(<<a>>, b) = <<a, b>>
    <3>1. Len(Append(<<a>>, b)) = Len(<<a, b>>)
      BY <1>1, AppendProperties
    <3>2. \A i \in 1 .. Len(<<a, b>>) : Append(<<a>>, b)[i] = <<a, b>>[i]
      BY <1>1, AppendProperties
    <3>3. Append(<<a>>, b) \in Seq(S)
      BY <1>1, AppendProperties
    <3> QED
      BY <1>1, <3>1, <3>2, <3>3, SeqEqual
  <2> QED
    BY <2>1, <2>2
<1>5. <<a, b>> \o <<c>> = <<a, b, c>>
  <2>1. <<a, b>> \o <<c>> = Append(<<a, b>>, c)
    BY <1>1, AppendIsConcat
  <2>2. Append(<<a, b>>, c) = <<a, b, c>>
    <3>1. Len(Append(<<a, b>>, c)) = Len(<<a, b, c>>)
      BY <1>1, AppendProperties
    <3>2. \A i \in 1 .. Len(<<a, b, c>>) : Append(<<a, b>>, c)[i] = <<a, b, c>>[i]
      BY <1>1, AppendProperties
    <3>3. Append(<<a, b>>, c) \in Seq(S)
      BY <1>1, AppendProperties
    <3> QED
      BY <1>1, <3>1, <3>2, <3>3, SeqEqual
  <2> QED
    BY <2>1, <2>2
<1> QED
  BY <1>2, <1>3, <1>4, <1>5

\* What the submission publishes of it.
LEMMA SubmitAnnounces ==
  ASSUME NEW caller \in Signer, NEW input \in Input, submit_event(caller, input)
  PROVE  CapHits' = IF Evicting THEN {EvictedSeq} ELSE {}
<1> DEFINE sub == Topic("ev_sub", <<input, eventSeq>>)
           hit == Topic("cap_hit", <<EvictedSeq, eventSeq>>)
           dec == Topic("decoded", <<input>>)
<1>1. emitted' = <<sub>> \o (IF Evicting THEN <<hit>> ELSE << >>) \o <<dec>>
  BY DEF submit_event
<1>2. /\ sub.topic = "ev_sub" /\ hit.topic = "cap_hit" /\ dec.topic = "decoded"
      /\ hit.data[1] = EvictedSeq
  BY DEF Topic
<1> HIDE DEF sub, hit, dec
<1>3. CASE Evicting
  <2>1. emitted' = <<sub, hit, dec>>
    BY <1>1, <1>3, Publications
  <2>2. {j \in DOMAIN emitted' : emitted'[j].topic = "cap_hit"} = {2}
    BY <1>2, <2>1
  <2> QED
    BY <1>2, <1>3, <2>1, <2>2 DEF CapHits
<1>4. CASE ~Evicting
  <2>1. emitted' = <<sub, dec>>
    BY <1>1, <1>4, Publications
  <2>2. {j \in DOMAIN emitted' : emitted'[j].topic = "cap_hit"} = {}
    BY <1>2, <2>1
  <2> QED
    BY <1>4, <2>2 DEF CapHits
<1> QED
  BY <1>3, <1>4

\* Only submit_event moves EventSeq: init finds it at 0.
LEMMA OtherCallKeepsSeq ==
  ASSUME RingInv, [EventsNext]_eventVars,
         ~ \E caller \in Signer, input \in Input : submit_event(caller, input)
  PROVE  eventSeq' = eventSeq
<1>1. ASSUME NEW new_admin \in InitAdmin, NEW max_events \in InitCapacity,
             Open(new_admin, max_events)
      PROVE  eventSeq' = eventSeq
  BY <1>1 DEF Open, init, Uninitialised, RingInv
<1>2. ASSUME NEW caller \in Signer, NEW new_max \in ResizeTo,
             Resize(caller, new_max)
      PROVE  eventSeq' = eventSeq
  BY <1>2 DEF Resize, set_max_events
<1> QED
  BY <1>1, <1>2, OtherCalls

\* An indexer can follow the evictions of a healed ring: cap_hit names exactly the
\* event a submission makes unreadable.
THEOREM EvictionsAnnounced == EventsSpec => HealedEvictionsAnnounced
<1>1. RingInv /\ [EventsNext]_eventVars
        => [Healed /\ eventSeq' # eventSeq
              => CapHits' = Readable \ Readable']_eventVars
  BY OtherCallKeepsSeq, SubmitEvicts, SubmitAnnounces
<1>2. EventsInit => RingInv
  BY InitRingInv
<1> QED
  BY <1>1, RingInvariant, PTL DEF EventsSpec, HealedEvictionsAnnounced

(***************************************************************************)
(* The promised ledger, read through get_event.                            *)
(***************************************************************************)

\* What get_event can return, by sequence number.
Retained == [seq \in Readable |-> get_event(seq).input]

\* An initialised ledger starts empty.
LEMMA LedgerStarts == EventsInit => Promised!LedgerInit
<1> SUFFICES ASSUME EventsInit PROVE Promised!LedgerInit
  OBVIOUS
<1>1. Readable = {}
  BY DEF EventsInit, Readable, Found
<1>2. Retained = [seq \in {} |-> Input \ Unnamed]
  BY <1>1 DEF Retained
<1> QED
  BY <1>2 DEF EventsInit, InstanceInit, Promised!LedgerInit, Retained

\* A submission records the event it decoded and lets the oldest one go.
LEMMA SubmitRecords ==
  ASSUME RingInv, Healed, NEW caller \in Signer, NEW input \in Input,
         submit_event(caller, input)
  PROVE  Promised!Record(input)
<1>1. /\ RingInv' /\ Healed'
      /\ eventSeq' = eventSeq + 1 /\ maxEvents' = maxEvents
      /\ submitted' = Append(submitted, input)
  BY SubmitStaysHealed
<1>2. /\ eventSeq \in Nat /\ maxEvents \in Nat /\ maxEvents > 0
      /\ \A seq : seq \in Readable <=>
           seq \in Nat /\ seq + maxEvents >= eventSeq /\ seq < eventSeq
      /\ \A seq \in Readable : get_event(seq).input = submitted[seq + 1]
  BY HealedFacts DEF HealedRead
<1>3. /\ \A seq : seq \in Readable' <=>
           seq \in Nat /\ seq + maxEvents >= eventSeq + 1 /\ seq < eventSeq + 1
      /\ \A seq \in Readable' : get_event(seq)'.input = submitted'[seq + 1]
  <2>1. /\ \A seq : seq \in Readable' <=>
             seq \in Nat /\ seq + maxEvents' >= eventSeq' /\ seq < eventSeq'
        /\ \A seq \in Readable' : get_event(seq)'.input = submitted'[seq + 1]
    BY <1>1, HealedFactsAfter DEF HealedRead
  <2> QED
    BY <1>1, <2>1
<1>4. submitted \in Seq(Input) /\ Len(submitted) = eventSeq
  BY DEF RingInv, EventsTypeOK
<1> DEFINE keep == {seq \in Readable \cup {eventSeq} :
                      seq + maxEvents >= eventSeq + 1}
<1>5. Readable' = keep
  <2> HIDE DEF keep
  <2>1. \A seq : seq \in keep <=>
          (seq \in Readable \/ seq = eventSeq) /\ seq + maxEvents >= eventSeq + 1
    BY DEF keep
  <2>2. \A seq : seq \in Readable' <=> seq \in keep
    BY ONLY <1>2, <1>3, <2>1
  <2> QED
    BY <2>2
<1>6. ASSUME NEW seq \in Readable'
      PROVE  Retained'[seq] = IF seq = eventSeq THEN input ELSE Retained[seq]
  <2>1. Retained'[seq] = submitted'[seq + 1]
    BY <1>3, <1>6 DEF Retained
  <2>2. seq \in Nat /\ seq < eventSeq + 1
    BY <1>3, <1>6
  <2>3. CASE seq = eventSeq
    BY <1>1, <1>2, <1>4, <2>1, <2>3, AppendProperties
  <2>4. CASE seq # eventSeq
    <3>1. seq \in Readable
      BY <1>2, <1>3, <1>6, <2>4
    <3>2. seq + 1 \in 1 .. Len(submitted)
      BY <1>2, <1>4, <2>2, <2>4
    <3>3. submitted'[seq + 1] = submitted[seq + 1]
      BY <1>1, <1>4, <3>2, AppendProperties
    <3>4. Retained[seq] = submitted[seq + 1]
      BY <1>2, <3>1 DEF Retained
    <3> QED
      BY <2>1, <2>4, <3>3, <3>4
  <2> QED
    BY <2>3, <2>4
<1>7. Retained' = [seq \in keep |-> IF seq = eventSeq THEN input ELSE Retained[seq]]
  <2>1. Retained' = [seq \in Readable' |-> Retained'[seq]]
    BY DEF Retained
  <2> HIDE DEF keep
  <2> QED
    BY <1>5, <1>6, <2>1
<1>8. keep = Promised!Kept(DOMAIN Retained \cup {eventSeq}, eventSeq + 1, maxEvents)
  BY DEF Promised!Kept, Retained
<1> HIDE DEF keep
<1>9. Retained' = [seq \in Promised!Kept(DOMAIN Retained \cup {eventSeq},
                                         eventSeq + 1, maxEvents)
                     |-> IF seq = eventSeq THEN input ELSE Retained[seq]]
  BY <1>7, <1>8
<1> QED
  BY <1>1, <1>9 DEF Promised!Record, Retained

\* A capacity set while nothing was ever submitted, by init or by a resize, is a
\* change of the ledger's capacity: there is nothing to keep.
LEMMA EmptyChangesCapacity ==
  ASSUME RingInv, RingInv', Healed, Healed', eventSeq = 0, eventSeq' = 0
  PROVE  Promised!ChangeCapacity(maxEvents')
<1>1. Readable = {}
  BY HealedFacts DEF HealedRead
<1>2. Readable' = {}
  <2>1. \A seq : seq \in Readable' => seq \in Nat /\ seq < eventSeq'
    BY HealedFactsAfter DEF HealedRead
  <2> QED
    BY <2>1
<1>3. Promised!Kept(DOMAIN Retained, eventSeq, maxEvents') = {}
  BY <1>1 DEF Promised!Kept, Retained
<1>4. Retained' = [seq \in Promised!Kept(DOMAIN Retained, eventSeq, maxEvents')
                     |-> Retained[seq]]
  BY <1>1, <1>2, <1>3 DEF Retained
<1> QED
  BY <1>4 DEF Promised!ChangeCapacity, Retained

\* A call that leaves the ring alone leaves the ledger alone.
LEMMA LedgerUnchanged ==
  ASSUME eventLog' = eventLog, eventSeq' = eventSeq, maxEvents' = maxEvents
  PROVE  UNCHANGED Promised!ledgerVars
<1>1. \A seq : Slot(seq)' = Slot(seq)
  BY DEF Slot
<1>2. /\ \A seq : Found(seq)' = Found(seq)
      /\ \A seq : get_event(seq)' = get_event(seq)
  BY <1>1 DEF Found, get_event
<1>3. Readable' = Readable
  BY <1>2 DEF Readable
<1>4. Retained' = Retained
  BY <1>2, <1>3 DEF Retained
<1> QED
  BY <1>4 DEF Promised!ledgerVars, Retained

\* Every step between two healed states is one of the ledger's or a stutter.
LEMMA LedgerStep ==
  ASSUME RingInv, [EventsNext]_eventVars, Healed, Healed'
  PROVE  [Promised!LedgerNext]_(Promised!ledgerVars)
<1>1. RingInv'
  BY SubmitKeepsRingInv, OtherCallKeepsRingInv
<1>2. ASSUME NEW caller \in Signer, NEW input \in Input,
             submit_event(caller, input)
      PROVE  Promised!LedgerNext
  <2>1. Promised!Record(input)
    BY <1>2, SubmitRecords
  <2>2. input \in Input \ Unnamed
    BY <1>2 DEF submit_event
  <2> QED
    BY <2>1, <2>2 DEF Promised!LedgerNext
<1>3. ASSUME eventSeq = 0, eventSeq' = 0, maxEvents' \in AllCapacities
      PROVE  Promised!LedgerNext
  BY <1>1, <1>3, EmptyChangesCapacity DEF Promised!LedgerNext
<1>4. ASSUME NEW new_admin \in InitAdmin, NEW max_events \in InitCapacity,
             Open(new_admin, max_events)
      PROVE  Promised!LedgerNext
  <2>1. eventSeq = 0 /\ eventSeq' = 0 /\ maxEvents' = Capacity(max_events)
    BY <1>4 DEF Open, init, Uninitialised, RingInv
  <2>2. maxEvents' \in AllCapacities
    BY <2>1 DEF AllCapacities
  <2> QED
    BY <1>3, <2>1, <2>2
<1>5. ASSUME NEW caller \in Signer, NEW new_max \in ResizeTo,
             Resize(caller, new_max)
      PROVE  Promised!LedgerNext
  <2>1. eventSeq' = eventSeq /\ layoutSeq' = eventSeq /\ maxEvents' = new_max
    BY <1>5 DEF Resize, set_max_events
  <2>2. maxEvents' \in AllCapacities
    BY <2>1 DEF AllCapacities
  <2>3. eventSeq \in Nat /\ maxEvents' \in Nat /\ maxEvents' > 0
    BY <1>1, HealedFacts, HealedFactsAfter DEF HealedRead
  <2>4. eventSeq = 0
    BY <2>1, <2>3 DEF Healed
  <2> QED
    BY <1>3, <2>1, <2>2, <2>4
<1>6. CASE \E caller \in Signer, input \in Input : submit_event(caller, input)
  BY <1>2, <1>6
<1>7. CASE ~ \E caller \in Signer, input \in Input : submit_event(caller, input)
  <2>1. UNCHANGED eventLog
    BY <1>7, OtherCalls
  <2>2. CASE UNCHANGED <<eventSeq, maxEvents, layoutSeq>>
    BY <2>1, <2>2, LedgerUnchanged
  <2> QED
    BY <1>4, <1>5, <1>7, <2>2, OtherCalls
<1> QED
  BY <1>6, <1>7

\* Between resizes the ring is the promised ledger: the newest max_events events,
\* each under the number it was submitted with.
THEOREM LedgerRefined == EventsSpec => ImplementsLedger
<1>1. RingInv /\ [EventsNext]_eventVars
        => [Healed /\ Healed' => [Promised!LedgerNext]_(Promised!ledgerVars)]_eventVars
  BY LedgerStep
<1>2. EventsInit => Promised!LedgerInit
  BY LedgerStarts
<1> QED
  BY <1>1, <1>2, RingInvariant, PTL DEF EventsSpec, ImplementsLedger
=============================================================================
