----------------------------- MODULE TicketPass -----------------------------
(***************************************************************************)
(* What the ticket contract promises about the passes it sells, with no    *)
(* storage, organizer, prices or replies: at most `seats' passes, numbered *)
(* in the order they are sold, each resold at most once and each admitting *)
(* its holder at most once, after which it never changes hands.            *)
(***************************************************************************)
EXTENDS Naturals, Sequences

CONSTANTS Person, SeatChoice

VARIABLES
  seats,      \* how many passes may be sold
  holder,     \* of every pass sold
  fresh,      \* the passes neither resold nor used
  admissions  \* the passes that opened the entrance, one entry each time

passVars == <<seats, holder, fresh, admissions>>

PassInit ==
  /\ seats = 0
  /\ holder = [pass \in {} |-> 0]
  /\ fresh = {}
  /\ admissions = << >>

Sold == DOMAIN holder

Open(n) ==
  /\ Sold = {}
  /\ seats' = n
  /\ UNCHANGED <<holder, fresh, admissions>>

Sell(person) ==
  \E pass \in 0 .. (seats - 1) :
    /\ Sold = 0 .. (pass - 1)
    /\ holder' = [p \in 0 .. pass |-> IF p = pass THEN person ELSE holder[p]]
    /\ fresh' = fresh \cup {pass}
    /\ UNCHANGED <<seats, admissions>>

Resell(pass, person) ==
  /\ pass \in fresh
  /\ holder' = [holder EXCEPT ![pass] = person]
  /\ fresh' = fresh \ {pass}
  /\ UNCHANGED <<seats, admissions>>

Admit(pass) ==
  /\ pass \in Sold
  /\ \A i \in DOMAIN admissions : admissions[i] # pass
  /\ admissions' = Append(admissions, pass)
  /\ fresh' = fresh \ {pass}
  /\ UNCHANGED <<seats, holder>>

PassNext ==
  \/ \E n \in SeatChoice : Open(n)
  \/ \E person \in Person : Sell(person)
  \/ \E pass \in Sold : Admit(pass) \/ \E person \in Person : Resell(pass, person)

PassSpec == PassInit /\ [][PassNext]_passVars
=============================================================================
