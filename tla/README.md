# A TLA+ model of the Octraban contracts

Octraban keeps two Soroban smart contracts (Stellar, Rust): the **explorer**
contract (`explorer/src/lib.rs`) is a registry of contract ABIs plus a ledger of
decoded events, and the **ticket** contract (`ticket/src/lib.rs`) sells event
tickets with a resale ceiling. This directory models both in TLA+, checks the
models with TLC and proves the central invariants with TLAPS. Paths below are
relative to the repository.

## 1. Inventory

| Part | State it keeps | Operations | What is hard | What makes it correct | Here |
|---|---|---|---|---|---|
| explorer: instance storage and administration | `Admin`, `PendingAdmin`, `Paused`, `EventSeq`, `MaxEvents`, installed wasm | `init`, `transfer_admin`, `accept_admin`, `cancel_admin_transfer`, `set_max_events`, `pause`, `unpause`, `upgrade` | nominate, re-nominate, cancel, accept and a second `init` in any order; pause is checked entry point by entry point; a zero capacity would abort every slot computation | the admin can always sign; control passes once per nomination, to the nominee; the capacity is positive | `ExplorerInstance` |
| explorer: event ledger | persistent `EventLog(seq % max_events)` entries | `submit_event`, `set_max_events`; reads `get_event`, `event_count`, `storage_utilisation` | wrap-around; a capacity change leaves every stored event in its old slot; `event_count` and `cap_hit` are computed rather than observed | a read never returns another event; the window is exact; evictions are announced | `ExplorerEvents`, `EventLedger` |
| explorer: paginated reads and the polling client | the client's cursor and what it received | `get_events(cursor, limit)`, "next cursor = last seq + 1" | submissions, evictions and resizes between two pages | no event twice, out of order or altered; a short page means exhausted; every event that stays retained arrives | `EventPager` |
| explorer: versioned registry | `Contract(id)`, `ContractVersion(id, abi)` | `register_contract`, `update_contract`, `deregister_contract`, `get_contract`, `get_contract_version` | version entries outlive deregistration; re-registration restarts at 0; the caller supplies `registered_by` | the history of a registered contract is complete and unaltered; `min_ledger` orders it | `ExplorerRegistry`, `VersionCatalog` |
| explorer: concurrent registry clients | what a client read and has not written back | read, edit, `update_contract` with `abi_version + 1` | two transactions with anything in between | no lost update | `RegistryClients` |
| explorer: storage TTL and archival | live-until ledger of the instance, registry and event entries | `extend_ttl` in every call that touches an entry | three horizons (30, 90, 7 days), reads that extend one entry and not another | an entry in use stays live; an event waiting to be read does not outlive the instance it is found with | `ExplorerTtl` |
| explorer: the whole contract | all of the above over one instance storage | every call | a call of the registry must leave the ring's invariants standing, and the other way round | both hold together; what is published determines the state | `Explorer` |
| ticket: sales, resale, admission | `ADMIN`, `MAX_TIX`, `MAXRESALE`, `NEXT_ID`, ticket entries | `initialize`, `mint_ticket`, `transfer_ticket`, `verify_ticket`, `upgrade`; reads `get_ticket`, `tickets_sold` | transfer and verification in any order; the last ticket; prices at the ceiling and below zero; which refusals are typed errors and which panics | at most `max_tickets`; one resale, not above the ceiling; one admission, after which the ticket never moves | `Ticket`, `TicketPass` |
| indexer (another repository) | its mirror of the published events | folds published events, polls `get_events` | an unannounced or misannounced change leaves it wrong for ever | it knows the contract's state from what is published | the mirror of `Explorer`; the polling half is the client of `EventPager` |
| `build-and-deploy.sh` | none; it prints the deployed contract ids | build, deploy two contracts in turn | the second deployment fails after the first | | not modelled (section 7) |
| `scripts/verify-deployment.sh`, CI, benchmarks, tests, fuzz targets | none of their own | | | | reference only |

How they interact. The registry, the ring and the administration share the
instance storage of one contract (`Admin`, `Paused`, `EventSeq`, `MaxEvents`)
and nothing else; each call is one atomic transaction. Clients interact with the
contract only through calls and published events. Between calls the network closes
ledgers, and entries whose time to live lapses are archived until somebody restores
them. The two contracts never call each other. Hence concurrency is between *clients*: every interleaving of whole
calls, with reads that are stale by the time of the write.

## 2. Modules

    ExplorerInstance ── ExplorerEvents ── EventPager ── MCPager
          │   │              │   ├── MCEvents
          │   │              │   └──(INSTANCE)── EventLedger
          │   └── ExplorerRegistry ── RegistryClients ── MCClients
          │              ├── MCRegistry
          │              └──(INSTANCE)── VersionCatalog
          └── MCInstance
    Explorer (EXTENDS ExplorerRegistry, ExplorerEvents) ── MCExplorer
    ExplorerTtl ── MCTtl
    Ticket ──(INSTANCE)── TicketPass
      └── MCTicket

    ExplorerInstanceProofs (EXTENDS ExplorerInstance)
    ExplorerEventsProofs   (EXTENDS ExplorerEvents, ExplorerInstanceProofs)
    EventPagerProofs       (EXTENDS EventPager, ExplorerEventsProofs)
    ExplorerRegistryProofs (EXTENDS ExplorerRegistry, ExplorerInstanceProofs)
    RegistryClientsProofs  (EXTENDS RegistryClients, ExplorerRegistryProofs)
    ExplorerProofs         (EXTENDS Explorer and the proofs of its parts)
    ExplorerTtlProofs      (EXTENDS ExplorerTtl)
    TicketProofs           (EXTENDS Ticket)

`MCInstance`, `MCRegistry` and `MCEvents` are the smallest instances that show the
disagreements of section 4. What holds of the ring and its pages, with resizes, is
checked together in `MCPager`; what holds of the instance, the registry and the
ring's content together in `MCExplorer`; and that the admin is never lost in
`MCClients`, the one instance with an address nobody controls.

Conventions that hold in all of them:

* **A refused explorer call is not a step.** A Soroban transaction that panics
  rolls back every write, so the guards of an action are the code's checks and
  a failing call leaves no trace. Which error code is returned is not modelled for
  the explorer. In `Ticket`, where the documentation makes claims about typed errors and
  panics, each alternative of an action is one return of the function and
  `reply` records it.
* **`require_auth` is membership in `Signer`.** Any address in `Address` can be
  *named* (nominated, registered, sold to); only those in `Signer` can call.
* **Absent keys** read as the code's defaults: `Paused` false, `EventSeq` 0,
  `MaxEvents` `DEFAULT_MAX_EVENTS`. An absent address key is `NoAddress`; an
  absent persistent entry is outside the DOMAIN of the function that models them.
* **Payloads are abstract.** The topics, arguments and descriptions of a decoded
  event are one `Input` value, the caller-supplied part of a `ContractMeta` one
  `Body` value. The one check on an event's payload (an empty function symbol is
  refused) is membership in `Unnamed`.
* **Integers.** The release profile sets `overflow-checks = true`, so overflow
  aborts the call: `SeqMax` and `AbiMax` stand for `u64::MAX` and `u32::MAX` and
  appear as guards. `SeqMax`, `AbiMax`, `LedgerMax` and `RegisterMax` are the only
  bounds on behaviours; the last two are modelling bounds.
* **Published events** of a successful call are the sequence `emitted`, in the
  order of the `publish` calls. The indexer of `Explorer` is external: it knows
  only the topics and payloads docs/EVENTS.md lists, and sees every transaction once
  and in order.
* **Time to live.** `ExplorerTtl` leaves out what is stored and who may call (that
  is the business of the other modules: "a call is one the contract accepts") and
  keeps which entries a call needs, creates, removes and extends. `ttl` is the
  remaining life in ledgers, -1 when archived. What `extend_ttl`, archival and a
  restore do is the host's: external, modelled from the comment at lib.rs:63-86 and
  README.md:146-172. `Floor` is the network's minimal TTL of a new or restored entry,
  whatever it is. A change of capacity may move the next event to any slot.
* **Upgrade** records the installed hash; the new code is assumed to behave like
  this code.
* Definitions named `X_Something` next to a definition `X` are deliberate variants
  of it (a dropped guard, an off-by-one) used to confirm that a property can fail.

| Module | What a variable or action is in the code |
|---|---|
| `ExplorerInstance` | one variable per instance key, one action per entry point of the same name; `Capacity` is init's "0 means default" |
| `ExplorerEvents` | `eventLog` is the set of `EventLog` entries by slot, `Slot(seq)` is `seq % max_events`, `Found` the two conditions of `get_event`, `oldest`/`Window` the window of `get_events`, `Resize` is `set_max_events` with its (non-)effect on the ring. `submitted` and `layoutSeq` are history: what was accepted under each number, and where the counter stood when the capacity last changed |
| `EventLedger` | abstract: the newest `capacity` events by number, no slots |
| `EventPager` | `get_events` is its loop as a recursive function over the numbers it visits (`Taken` is one pass of the body); `get_events` panics on a limit of 0, so `Limit` is positive and that refusal, like every other, is no step; `Poll` is one iteration of the documented client loop; `steady` is history: what the client has not received and could have been served ever since |
| `ExplorerRegistry` | `contracts`/`versions` are the two kinds of persistent entries, `Write` the two `set` calls every write makes, `Stamped` the `ContractMeta` the code builds from the caller's; `ledger` is `env.ledger().sequence()`; `accepted` is history |
| `VersionCatalog` | abstract: of every registered id the sequence of metadata published for it, no entries |
| `RegistryClients` | `held[client]` is a client's copy of a `get_contract` result; `WriteBack` is `update_contract` with an edit of it |
| `Explorer` | `Transaction` is any call of either part, with the storage of the other untouched; `Follow` is the indexer reading what the call published; `mirror` is all it knows: versions, pause, nominee, admin, count and readable events |
| `ExplorerTtl` | `ttl` has a key per storage entry (`DataKey`, `VersionKey`); one action per entry point that touches an entry; `Extended` is `extend_ttl(threshold, bump)`; `CloseLedger` and `Restore` are the network; `idle` (ledgers since a call that is to keep the entry alive) and `unread` (slots written and not read or restored since) are history |
| `Ticket` | one variable per key, one action per entry point, one disjunct per return; `paid` and `verified` are history: the prices a ticket was resold at, and the `VERIFIED` events, one entry per `true` that `verify_ticket` answered |
| `TicketPass` | abstract: seats, holders, fresh passes, and the sequence of admissions, in which a pass may appear once |

## 3. Runs that pass

| Run | Question and properties | Bounds, and why they are enough |
|---|---|---|
| `pager` | What can be read, counted and announced after any submissions and resizes, and can a client that keeps polling miss, repeat or reorder events? `EventsTypeOK`, `ReadsAreFaithful`, `WindowExactSinceLayout`, `HealedRingExact`, `HealedEvictionsAnnounced`, the refinement `ImplementsLedger`, `PagesInOrder`, `ShortPageMeansExhausted`, `NextPollApproaches`, `EventuallyReceived` | five submissions into rings of 2, 1 and 3 slots: every ring wraps, can heal after a resize and be resized again; two inputs, so a read that answers with another event, as one of a slot laid out for the old capacity would, shows in its content as well as in its number; pages of 2 (a requested limit of 3, clamped), so the window overtakes the cursor and several pages are needed; one account, the admin, since nothing here depends on who submits |
| `explorer` | Do the parts leave each other standing, is the history right after any calls, and do the published events tell the indexer the state? `IndexerFollows`, `HistoryIsServed`, `MinLedgerOrdersVersions`, `WrittenVersionsStand`, `HandoverSpendsNomination`, `ReadsAreFaithful`, the refinement `ImplementsCatalog`, `RegistryTypeOK`, `InstanceTypeOK` | two accounts that can become admin, two contracts, versions 0 and 1, two ledgers: deregistration and re-registration among left-over version entries, updates in the same and in different ledgers; a ring of one slot and two inputs, so every submission after the first evicts; no resize (that is in `pager`). Contracts and inputs are symmetric, which is sound: the run has no liveness property |
| `clients` | Does the version check protect a read-modify-write, and can the contract end with an admin nobody can act for? `UpdatesBuildOnWhatWasRead`, and behind it `HeldIsHistory`; `AdminHoldsKey` | two clients, two edits, versions 0..2, two registrations; two accounts that can sign and a third address that nobody controls and that can be nominated. One ledger (`LedgerMax` 0): the version check does not read the ledger, and what does is checked in `explorer` |
| `ttl` | Does use keep an entry alive? `HorizonKept`, `EventsWithinInstance`, `TtlTypeOK` | one contract with two versions, two slots; a day is one ledger, the instance lives for 3, events and registry entries for 2, and a new entry for the ledger it was written in (`Floor` 0, the hardest case). The registry's horizon is the longest in the code and a short one here: no property compares it with another, and each entry passes every state between fresh and archived |
| `ticket` | Does the contract implement the pass, answering `true` at the entrance once per ticket? `ImplementsPass`, `SupplyAndResaleLimits`, `TicketInv`, `TicketTypeOK` | up to two tickets, prices -1..2, so below zero, at and above every ceiling; an id that was never minted |

Deadlock checking is on in every run. The contract never runs out of
callable entry points (pause, for instance, always succeeds for the admin), and TLC
confirms that the bounds do not stop it either.

Some readings worth having:

* A **resize is not a rebuild.** `WindowExactSinceLayout` is the strongest claim
  that survives `set_max_events` as it is written: events submitted *since the
  last change of capacity* are readable exactly when inside the live window. Older
  ones may or may not be found, but `ReadsAreFaithful` says a read never
  answers with the wrong event. `HealedRingExact` says the damage ends after
  `max_events` further submissions.
* `ImplementsLedger` says that every step between two healed states is a step of
  the ledger README.md describes. With a capacity that is never changed the
  ring is always healed, and the property is a full refinement.
* `ImplementsCatalog` maps the catalogue's history of an id to what `get_contract` and
  `get_contract_version` answer for it, not to the history variable `accepted`. So it
  says of every call what it does to the whole history as a reader sees it: append one
  version, start at version 0, or end it. Version entries left over from an earlier
  registration are not part of the mapping; that they can be read all the same is the
  disagreement `registry_phantom`.
* `NextPollApproaches` is what makes `EventuallyReceived` true, as a bound and without
  fairness: an event the client lacks and that stays retained is in its next page, or
  that page is full and brings the cursor at least a page length nearer. How many
  polls an event takes is thus bounded by its distance, whatever is submitted meanwhile.
* `IndexerFollows` claims the mirror's `admin` only once there was a handover and
  its `live` set only until the first resize of a ring in use: `init` and
  `set_max_events` publish nothing, so the indexer cannot know more. Who is
  recorded as registrant is not in the published events at all after an update.
* `HorizonKept` names, per kind of entry, the calls the TTL policy counts on. For
  the instance these are the state-changing calls, not the reads: a contract that
  is only read loses its instance after a month however busy it is.
* `EventsWithinInstance` holds because every call that writes a slot also extends
  the instance. It is restricted to events nobody read: `get_event` extends its slot
  alone, and can make it outlive the instance.
* `ImplementsPass` maps the abstract admissions to the history `verified`, not to the
  status of a ticket: a second `true` for a used ticket would be a second admission,
  which `TicketPass` does not allow, though it would change nothing in storage.
* `UpdatesBuildOnWhatWasRead` is restricted to reads and writes within one
  registration; without the restriction it is false (next section).

## 4. Runs that find a disagreement

Each of these checks one statement of the documentation; TLC finds a behaviour of the
code against it.

| Run | Statement | What happens |
|---|---|---|
| `events_keeps` | README.md:121-134: `set_max_events` "rebuilds the buffer into the new layout"; growing "preserves all retained events" | the code overwrites `MaxEvents` only (lib.rs:287): retained events that fit the new capacity become unreadable |
| `registry_phantom` | lib.rs:543: `get_contract_version` "returns `None` if that version does not exist" | register version 0, deregister: its version entry still answers for a contract that is gone. (Left-over entries of higher versions answer in the same way after the id is registered anew; the run stops at the shorter case) |
| `registry_registrant` | lib.rs:448: "Caller must be the admin or the original registrant" | an update stores the caller's `registered_by`; the account named there makes the next update |
| `clients_stale` | lib.rs:449 "optimistic concurrency guard", and `test_stale_write_rejected` | read version 0, deregister, register anew (again version 0), write back: accepted over metadata the writer never read |
| `instance_pause` | lib.rs:310: pause freezes "all state-mutating operations" | the admin handover and `set_max_events` do not read `Paused` |
| `ttl_wrap` | lib.rs:77-81: event slots "only need to survive long enough to be consumed" because "each slot is overwritten as soon as `seq` wraps back around to it"; README.md:158 concludes that the short horizon is "both sufficient and cheaper" | a slot whose event was not read for seven days is archived, and an archived entry cannot be written either (README.md:162): on wrapping around to it `submit_event` (lib.rs:658) fails until somebody restores it |
| `ticket_verify` | ticket/fuzz/README.md:32: `verify_ticket` "errors (never panics) on a nonexistent ticket id" | `.expect("ticket not found")` panics, while the typed `NotFound` exists and the other entry points return it |

Met while reading, without a run of their own:

* `set_max_events` publishes no resize event (README.md step 4 of resizing), and
  after a shrink `get_event` can answer for an event older than the window
  (lib.rs:695 says NotFound), `event_count` differs from the number of readable
  events (lib.rs:723 "currently retained"; README.md:108 even calls it the total
  submitted), and `cap_hit` can name an event that was already unreadable
  (docs/EVENTS.md:54-55).
* `init` enforces neither `MIN_MAX_EVENTS` (lib.rs:55) nor the signature of the
  admin it stores (docs/INTERFACE.md:127).
* The metadata bounds of docs/INTERFACE.md:69-73 are not checked anywhere.
* `abi_version` is called monotonic (lib.rs:119); re-registration resets it.
* lib.rs:525-526 says contracts under active query traffic "never lapse":
  `get_contract` extends the registry entry, not the instance it also needs.
* README.md:172 says the next admin-gated call re-extends a restored entry; which
  call does depends on the entry, and nothing but a read re-extends an old version.
* One lapsed slot in the window fails a whole page of `get_events`, which extends none
  of the slots it reads.
* `test_update_contract_by_owner` (lib.rs:1074) means to exercise the registrant path
  of `update_contract`, but calls `register_contract` with an owner who is not the
  admin, which lib.rs:401 refuses: the update is never reached.
* `mint_ticket` answers a sold-out event with an `assert!` (ticket/fuzz/README.md:30
  wants a typed error), and `transfer_ticket` refuses negative prices
  (ticket/fuzz/README.md:31 wants every price below the ceiling accepted).
* README.md:182 says a transfer records the sale price; it is only compared.
* `build-and-deploy.sh:94` asks for "at least 50 XLM" and tests for an empty or
  zero balance.

## 5. Fairness

Only `EventPager` has a liveness property and only one action is fair: weak
fairness on `Poll`. It is what the pagination contract assumes of a client (the
documented loop, as in `test_get_events_paging_returns_each_event_exactly_once`:
call again until a page comes back short) and nothing the contract does can disable
a poll. Nothing is assumed of submissions, resizes or the admin. No other part
promises progress: a contract moves when it is called.

## 6. What is proved

TLAPS checks the following for every value of the constants allowed by the named
assumptions; TLC checks the same formulas on the instances above, apart from the
strengthenings `RingInv` and `PagerInv`, which belong to the proofs.

| Theorem | Module | Says |
|---|---|---|
| `InstanceTypeCorrect` | `ExplorerInstanceProofs` | `InstanceTypeOK`, with a capacity that is never zero |
| `AdminNeverLost` | | `AdminHoldsKey`, provided the admin passed to `init` can sign (`InitAdmin \subseteq Signer`, a hypothesis of the theorem: `init` itself does not check it) |
| `HandoverIsNominated` | | `HandoverSpendsNomination` |
| `RingInvariant` | `ExplorerEventsProofs` | `RingInv`, the inductive invariant of the ring, stated in this module because it is there to be proved from |
| `EventsTypeCorrect`, `ReadsFaithful`, `WindowExact` | | the three invariants it contains or implies |
| `HealedRing` | | `HealedRingExact` |
| `EvictionsAnnounced` | | `HealedEvictionsAnnounced`: `cap_hit` names what a submission evicts |
| `LedgerRefined` | | `ImplementsLedger`: between resizes the ring implements the abstract ledger |
| `PollingOnlyReads` | `EventPagerProofs` | a system with a polling client is one in which the ledger's own calls are made: what holds of `EventsSpec` holds of `PagerSpec` |
| `PagerInvariant`, `PagesAreInOrder` | | `PagerInv`, the inductive invariant of client and ring, and `PagesInOrder` in it |
| `ShortPagesEnd` | | `ShortPageMeansExhausted` |
| `EveryPollApproaches` | | `NextPollApproaches` |
| `RegistryTypeCorrect`, `HistoryServed`, `MinLedgerOrdered` | `ExplorerRegistryProofs` | the three invariants of the registry in the `explorer` run, which are inductive together (`RegistryInv`) |
| `WrittenVersionsNeverChange` | | `WrittenVersionsStand` |
| `CatalogRefined` | | `ImplementsCatalog`: what readers are served is the abstract catalogue |
| `HeldStaysHistory`, `NoLostUpdate` | `RegistryClientsProofs` | `HeldIsHistory` and `UpdatesBuildOnWhatWasRead`, for any number of clients |
| `ClientsOnlyCall` | | the clients do nothing but call: what holds of `RegistrySpec` holds of `ClientsSpec` |
| `WholeInvariant` | `ExplorerProofs` | `RegistryInv /\ RingInv`: the invariants of the parts hold of the contract that has both |
| `WholeContractServes`, `WholeVersionsStand`, `WholeHandoverIsNominated` | | what the parts promise of reads, versions and the handover holds in the whole |
| `WholeAdminNeverLost` | | `AdminHoldsKey` of the whole, under the same hypothesis as `AdminNeverLost` |
| `WholeRingServes`, `WholeEvictionsAnnounced` | | the window, the healed ring and the evictions, with registry calls between the submissions |
| `WholeLedgerRefined`, `WholeCatalogRefined` | | the whole contract implements the abstract ledger (between resizes) and the abstract catalogue |
| `IndexerAlwaysFollows` | | `IndexerFollows` |
| `TtlTypeCorrect`, `HorizonAlwaysKept` | `ExplorerTtlProofs` | `TtlTypeOK` and `HorizonKept`, for every horizon of at least a day and every floor |
| `UnreadWithinInstance` | | `EventsWithinInstance`, provided the event horizon and the floor are no longer than the instance's threshold (`EventsShorter`, a hypothesis; 7 days against 29 in the code) |
| `TicketInvariant`, `TicketTypeCorrect`, `LimitsHold` | `TicketProofs` | `TicketInv` and the two invariants in it |
| `TicketRefinesPass` | | `ImplementsPass`: the contract implements the abstract pass, with one `true` per ticket |

Assumptions: `AddressAssumption`, `CapacityAssumption`, `EventAssumption`
(`PagerAssumption`, `RegistryAssumption`, `ClientAssumption`, `TtlAssumption`,
`TicketAssumption` elsewhere), each stated next to its constants and no stronger than the types of
the code plus `DEFAULT_MAX_EVENTS >= MIN_MAX_EVENTS >= 1`.

The ring argument. `WindowExactSinceLayout` is not inductive alone. `RingInv` adds
that a stored event carries a number already handed out and the input submitted
under it (so an event found under `seq` is that event), and that an uninitialised
contract is empty (so `init`, which resets `EventSeq` to 0, resets nothing). A
submission overwrites slot `eventSeq % maxEvents`: by the slot lemmas no other
number inside the new window shares that slot, and the only number of the old window
that does is `eventSeq - maxEvents`, which leaves it. A resize empties the range
`layoutSeq ..`, so the claim becomes trivially true there and must be re-earned.
For `HealedRing`, the last `maxEvents` numbers hit every slot, so nothing
older than the layout is left; the readable set is then the interval `Window`, whose
cardinality is `event_count`. In a healed state the invariant thus fixes what can
be read and what a read returns (`HealedRead`); with it a submission maps to
`Record`, and a resize can only lie between two healed states while the ring is
empty, where it maps to `ChangeCapacity` with nothing to keep.

The pager argument. `get_events` is a loop over sequence numbers, and what it returns is
a claim about every length of it. `PageOK` is its loop invariant: the page holds events
found under their own numbers, in order, and *all* that can be found up to here unless
it is full. The library's induction rules take an operator as a parameter, which the
provers cannot instantiate; the proofs take the least number for which the claim
fails instead (`LeastNumber`, from the well-foundedness of `<` on the naturals), first to
show that the loop has a result (`LoopRuns`), then that every result satisfies `PageOK`
(`GetEventsPage`). `PagerInv` adds to `RingInv` that the cursor is past every event
received and not past the end of the ledger (so the next page cannot repeat one), that
what was received is what was submitted, and that everything in `steady` can still be
served at or after the cursor. A poll passes over no event in `steady` (`CursorAfter`,
`LackedAfterPoll`); a ledger step adds to `steady` the event submitted, which lies at or
after the cursor, and removes what is no longer served. A short page is complete, hence leaves `steady` empty, and a full one is
`Clamped` strictly increasing numbers, hence at least that much nearer.

The registry argument. A registration and an update write the same way: one
metadata record, under a version no entry *of this registration* uses yet. The lemmas
`WriteServesHistory` and `WriteKeepsOrder` say what such a write preserves if
the versions below it are the history; a registration has none below it, an update
has exactly those `HistoryIsServed` provides. Entries left over from an earlier
registration are overwritten before they are counted. For the clients, a history
only grows at its end until the contract is registered anew (`Grows`), so a copy
taken in this registration stays `accepted[v + 1]`; the version check then makes it
the last one, which is the stored metadata. For the catalogue, `RegistryInv` says that
what is served for a registered contract is `accepted` for it (`ServedIsAccepted`); a
registration then maps to `Publish`, an update to `Revise` (its version is the length
of the history, its ledger not before the newest one's) and a deregistration to
`Withdraw`; every other call is a stutter.

The composition. A registry call leaves every variable `RingInv` speaks of alone
(`RingUntouched`), a ring call the registry's entries, and the instance is changed by
the same actions in both parts; so the two invariants are preserved together.
A step of the whole is then a step of one part that leaves the variables of the
other's mapping alone (`StepOfOnePart`), which carries every action property and both
refinements of the parts over to the whole.
`IndexerFollows` is inductive relative to them, one component of the mirror at a time:
a call either publishes nothing under that component's topics and leaves the state
the component copies alone (the `...Quiet` lemmas) or is one of the few calls that
change it, whose published payload is what it stored (`...Mirrored`). For the
readable events this needs the ring's invariant: what a submission publishes as
`cap_hit` is what it made unreadable, which is true while the ring is healed.

The TTL argument. `HorizonKept` is inductive once every entry has a sane `ttl` and
`idle` (`EntriesOK`) and the entries are the right ones (`FootprintOK`): a call sets
`idle` to 0 exactly for entries it extends, and an extension leaves at least the
threshold, since an entry is left alone only if it has that much; closing a ledger
takes one from the one side and adds one to the other. For `EventsWithinInstance` a
slot's life is bounded by the event horizon (`SlotsBounded`), and a write of a slot
extends the instance to at least its threshold, which is longer; afterwards both age
alike, and nothing extends the slot without reading it.

The ticket argument. `TicketInv` adds to the limits that nothing was sold before
`initialize`, that every ticket carries the event's ceiling, and that the tickets with
status `Used` are exactly those `verify_ticket` answered `true` for (`verified`). The
last part is what makes the refinement go through: the abstract `Admit` requires a pass
that was never admitted, the code looks at the status only, and `true` is answered for
a status other than `Used`. With it each successful return is one step of `TicketPass`
(`InitializeMaps`, `MintMaps`, `TransferMaps`, `VerifyMaps`) and every refusal,
a `false` included, is a stutter.

## 7. What is only model-checked, and what is not modelled

Model-checked only: `EventuallyReceived`, since liveness under fairness is out of the
prover's reach; its safety core, `NextPollApproaches`, is proved. Every other property
of a passing run is stated by a theorem.

Not modelled: the error codes of refused explorer
calls, and that of `get_events` for a limit of 0; the getters `is_paused` (returns one
variable), `get_latest_contract` (`get_contract` under another name, without the typed
error), `get_ticket` and `tickets_sold`; the second component of `storage_utilisation`
(`MaxEvents`);
`event_name` and `original_price` of a ticket, which are stored and never decide
anything; the `EVENT_VERSION` field of published events; the behaviour of an upgraded
wasm; TTL of the ticket contract, which extends nothing, so that only the network's
defaults decide; the indexer's own storage, retries and treatment of reorganisations,
which are in another repository; the scripts (straight lines of guards around
external tools, without state of their own between runs), the tests, the fuzz targets
and CI.

Abstracted apart: content and lifetimes. `ExplorerEvents` reads entries as if they
were always live, `ExplorerTtl` knows no content; their product, a page of
`get_events` over a ring with lapsed slots, is too large for a run.

## 8. What could be added

1. `get_events` over a ring with lapsed slots: a reduced product of `EventPager` and
   `ExplorerTtl`, to say which client schedule keeps every page readable.
2. A resize in the composition: the weaker mirror an indexer could keep if
   `set_max_events` published its change.
3. `build-and-deploy.sh`, with a deployment that fails between the two contracts.
