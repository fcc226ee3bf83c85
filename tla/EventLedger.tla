----------------------------- MODULE EventLedger -----------------------------
(***************************************************************************)
(* What the event ledger promises (README, "Event ledger" and "Resizing    *)
(* the event ring buffer"), with no ring, slots or modulus: the newest     *)
(* `capacity' events, each under the number it was submitted with.         *)
(***************************************************************************)
EXTENDS Integers

CONSTANTS Entry, Capacity0, CapacityChoice

VARIABLES
  retained,   \* the events that can be read, by sequence number
  total,      \* how many were ever submitted
  capacity

ledgerVars == <<retained, total, capacity>>

LedgerInit ==
  /\ retained = [seq \in {} |-> Entry]
  /\ total = 0
  /\ capacity = Capacity0

Kept(seqs, count, room) == {seq \in seqs : seq + room >= count}

\* The new event is kept, and the oldest one goes when there is no room.
Record(entry) ==
  /\ total' = total + 1
  /\ retained' = [seq \in Kept(DOMAIN retained \cup {total}, total + 1, capacity)
                    |-> IF seq = total THEN entry ELSE retained[seq]]
  /\ UNCHANGED capacity

\* Growing loses nothing; shrinking keeps the most recent events.
ChangeCapacity(room) ==
  /\ capacity' = room
  /\ retained' = [seq \in Kept(DOMAIN retained, total, room) |-> retained[seq]]
  /\ UNCHANGED total

LedgerNext ==
  \/ \E entry \in Entry : Record(entry)
  \/ \E room \in CapacityChoice : ChangeCapacity(room)

LedgerSpec == LedgerInit /\ [][LedgerNext]_ledgerVars
=============================================================================
