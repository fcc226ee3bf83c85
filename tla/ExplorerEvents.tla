--------------------------- MODULE ExplorerEvents ---------------------------
(***************************************************************************)
(* The event ledger of the explorer contract: decoded events kept in a     *)
(* ring of persistent entries, EventLog(seq % max_events), written by      *)
(* submit_event and read by get_event, get_events and event_count.         *)
(***************************************************************************)
EXTENDS ExplorerInstance, FiniteSets

CONSTANTS
  Input,      \* the EventInput values submitted
  Unnamed,    \* those whose function symbol is empty
  SeqMax      \* u64::MAX, the last value EventSeq can hold

ASSUME EventAssumption == Unnamed \subseteq Input /\ SeqMax \in Nat

VARIABLES
  eventLog,    \* the EventLog entries: slot -> DecodedEvent, where present
  submitted,   \* history: submitted[seq + 1] is the input accepted as seq
  layoutSeq    \* history: EventSeq when the capacity was last changed

ringVars  == <<eventLog, submitted, layoutSeq>>
eventVars == <<instanceVars, ringVars>>

DecodedEvent == [seq : Nat, input : Input]

EventsInit ==
  /\ InstanceInit
  /\ eventLog = [slot \in {} |-> NoAddress]
  /\ submitted = << >>
  /\ layoutSeq = 0

\* storage.set: the entry at key k becomes v, every other entry stays.
Stored(entries, k, v) ==
  [x \in DOMAIN entries \cup {k} |-> IF x = k THEN v ELSE entries[x]]

(***************************************************************************)
(* Reads.                                                                  *)
(***************************************************************************)

Slot_Clamped(seq) == IF seq < maxEvents THEN seq ELSE maxEvents - 1
Slot(seq) == seq % maxEvents

\* get_event returns an event exactly when Found(seq): the slot is occupied and
\* still holds that sequence number.  Otherwise it panics with NotFound.
Found_AnySeq(seq) == Slot(seq) \in DOMAIN eventLog
Found_InWindow(seq) ==
  /\ Slot(seq) \in DOMAIN eventLog
  /\ seq < eventSeq /\ seq + maxEvents >= eventSeq
Found(seq) ==
  /\ Slot(seq) \in DOMAIN eventLog
  /\ eventLog[Slot(seq)].seq = seq

get_event(seq) == eventLog[Slot(seq)]

oldest == IF eventSeq > maxEvents THEN eventSeq - maxEvents ELSE 0

event_count_Total == eventSeq
event_count == IF eventSeq < maxEvents THEN eventSeq ELSE maxEvents

\* The live ring window, and what get_event can return from it.
Window == oldest .. (eventSeq - 1)
Readable == {seq \in 0 .. SeqMax : Found(seq)}

(***************************************************************************)
(* submit_event.                                                           *)
(***************************************************************************)

Evicting_Late == eventSeq > maxEvents
Evicting == eventSeq >= maxEvents

EvictedSeq == eventSeq - maxEvents

submit_event(caller, input) ==
  /\ input \notin Unnamed
  /\ ~paused
  /\ IsAdmin(caller)
  /\ eventSeq < SeqMax          \* overflow-checks: seq + 1 aborts the call
  /\ eventLog' = Stored(eventLog, Slot(eventSeq),
                        [seq |-> eventSeq, input |-> input])
  /\ eventSeq' = eventSeq + 1
  /\ emitted' = <<Topic("ev_sub", <<input, eventSeq>>)>>
                \o (IF Evicting
                    THEN <<Topic("cap_hit", <<EvictedSeq, eventSeq>>)>>
                    ELSE << >>)
                \o <<Topic("decoded", <<input>>)>>
  /\ submitted' = Append(submitted, input)
  /\ UNCHANGED <<admin, pendingAdmin, paused, maxEvents, wasm, layoutSeq>>

\* set_max_events leaves the stored slots where they are.
Resize(caller, new_max) ==
  /\ set_max_events(caller, new_max)
  /\ layoutSeq' = eventSeq
  /\ UNCHANGED <<eventLog, submitted>>

Open(new_admin, max_events) ==
  /\ init(new_admin, max_events)
  /\ UNCHANGED ringVars

EventsNext ==
  \/ \E new_admin \in InitAdmin, max_events \in InitCapacity :
        Open(new_admin, max_events)
  \/ \E caller \in Signer, new_max \in ResizeTo : Resize(caller, new_max)
  \/ GovernanceCall /\ UNCHANGED ringVars
  \/ \E caller \in Signer, input \in Input : submit_event(caller, input)

EventsSpec == EventsInit /\ [][EventsNext]_eventVars

-----------------------------------------------------------------------------
(***************************************************************************)
(* Properties.                                                             *)
(***************************************************************************)

\* Every entry has its type; a stored event carries a sequence number already
\* handed out, and the histories agree with the counter.
EventsTypeOK ==
  /\ InstanceTypeOK
  /\ eventSeq <= SeqMax
  /\ DOMAIN eventLog \subseteq Nat
  /\ \A slot \in DOMAIN eventLog :
        eventLog[slot] \in DecodedEvent /\ eventLog[slot].seq < eventSeq
  /\ submitted \in Seq(Input)
  /\ Len(submitted) = eventSeq
  /\ layoutSeq \in 0 .. eventSeq

\* Whatever resizes happened, get_event(seq) either answers NotFound or returns
\* the event that was submitted as seq: never another event that shares, or
\* once shared, its slot.
ReadsAreFaithful ==
  \A seq \in 0 .. SeqMax :
    Found(seq) => seq < eventSeq /\ get_event(seq).input = submitted[seq + 1]

\* Among the events submitted since the capacity last changed, exactly those
\* inside the live ring window can be read: no recent event is lost and no
\* event submit_event evicted comes back.  With a capacity fixed by init this
\* is every event.
WindowExactSinceLayout ==
  \A seq \in layoutSeq .. SeqMax : Found(seq) <=> seq \in Window

\* The ring has been rewritten in full since the last change of capacity.
Healed == layoutSeq = 0 \/ eventSeq - layoutSeq >= maxEvents

\* After max_events submissions a resized ring has healed: what can be read is
\* the live window and nothing else, and event_count (like the first component
\* of storage_utilisation) is the number of events that can be read.
HealedRingExact ==
  Healed => Readable = Window /\ event_count = Cardinality(Readable)

\* The cap_hit events of the last call name sequence numbers evicted by it.
CapHits == {emitted[i].data[1] :
              i \in {j \in DOMAIN emitted : emitted[j].topic = "cap_hit"}}

\* In a healed ring a submission makes an event unreadable exactly when it
\* publishes cap_hit, and cap_hit names that event; the indexer can follow the
\* evictions from the published events alone.
HealedEvictionsAnnounced ==
  [][Healed /\ eventSeq' # eventSeq
       => CapHits' = Readable \ Readable']_eventVars

\* Every capacity a ring can have.
AllCapacities == {DefaultMaxEvents} \cup {Capacity(c) : c \in InitCapacity}
                   \cup ResizeTo

\* The ring, read through get_event, is the promised ledger.
Promised == INSTANCE EventLedger WITH
  Entry          <- Input \ Unnamed,
  Capacity0      <- DefaultMaxEvents,
  CapacityChoice <- AllCapacities,
  retained       <- [seq \in Readable |-> get_event(seq).input],
  total          <- eventSeq,
  capacity       <- maxEvents

\* The ring implements the promised ledger, but for resizes: it starts as that
\* ledger does, and every step between two healed states (one that is neither a
\* resize of a ring in use nor before the ring was rewritten after one) is a step
\* of the ledger or leaves it alone.
ImplementsLedger ==
  /\ Promised!LedgerInit
  /\ [][Healed /\ Healed' => [Promised!LedgerNext]_(Promised!ledgerVars)]_eventVars

(* What the documentation says of resizes, which set_max_events breaks. *)

\* A resize keeps every retained event that fits the new capacity: growing
\* "preserves all retained events", shrinking retains "the most recent new_max".
ResizeKeepsRetained ==
  [][layoutSeq' # layoutSeq =>
       \A seq \in Readable : seq + maxEvents' >= eventSeq => Found(seq)']_eventVars
=============================================================================
