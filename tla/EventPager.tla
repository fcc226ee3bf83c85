----------------------------- MODULE EventPager -----------------------------
(***************************************************************************)
(* get_events, and a client that follows its pagination contract while     *)
(* events are submitted and the ring is resized between its calls: poll    *)
(* with the cursor, then continue from the last returned seq plus one.     *)
(***************************************************************************)
EXTENDS ExplorerEvents, SequencesExt

CONSTANTS
  Limit,         \* the limit the client passes; get_events refuses 0
  MaxPageSize    \* MAX_PAGE_SIZE

ASSUME PagerAssumption == Limit \in Nat \ {0} /\ MaxPageSize \in Nat \ {0}

VARIABLES
  cursor,        \* the client's next cursor
  collected,     \* the events it received, in order
  shortPage,     \* whether the last page was shorter than the (clamped) limit
  steady         \* history: the sequence numbers below eventSeq that the client
                 \* did not have yet and that stayed retained ever since it
                 \* started or, for later events, since they were submitted

pagerVars  == <<cursor, collected, shortPage, steady>>
pagerState == <<eventVars, pagerVars>>

PagerInit ==
  /\ EventsInit
  /\ cursor = 0
  /\ collected = << >>
  /\ shortPage = FALSE
  /\ steady = {}

(***************************************************************************)
(* get_events.                                                             *)
(***************************************************************************)

Clamped == IF Limit < MaxPageSize THEN Limit ELSE MaxPageSize

\* An event is taken into the page when its slot still holds it and there is
\* room.
Taken(page, seq) ==
  IF Len(page) < Clamped /\ Found(seq) THEN Append(page, get_event(seq)) ELSE page

\* The loop visits start, start + 1, ... below eventSeq: out[seq] is what it has
\* when it comes to seq.
get_events(from) ==
  LET start == IF from > oldest THEN from ELSE oldest
      out[seq \in start .. eventSeq] ==
        IF seq = start THEN << >> ELSE Taken(out[seq - 1], seq - 1)
  IN IF start < eventSeq THEN out[eventSeq] ELSE << >>

(***************************************************************************)
(* The client.                                                             *)
(***************************************************************************)

NextCursor_LastSeen(page) ==
  IF page = << >> THEN cursor ELSE Last(page).seq
NextCursor_FullPage(page) ==
  IF page = << >> THEN cursor ELSE cursor + Clamped
NextCursor(page) == IF page = << >> THEN cursor ELSE Last(page).seq + 1

\* The end of the ledger is a page shorter than the limit, as clamped.
ShortPage_AsRequested(page) == Len(page) < Limit
ShortPage(page) == Len(page) < Clamped

\* What get_events can still serve: retained, inside the window.
Served == Readable \cap Window

Poll ==
  LET page == get_events(cursor) IN
  /\ collected' = collected \o page
  /\ cursor' = NextCursor(page)
  /\ shortPage' = ShortPage(page)
  /\ steady' = steady \ {page[i].seq : i \in DOMAIN page}
  /\ UNCHANGED eventVars

\* The rest of the system moves on; what it drops is not steady any more.
Ledger ==
  /\ EventsNext
  /\ steady' = (steady \cup (eventSeq .. (eventSeq' - 1))) \cap Served'
  /\ UNCHANGED <<cursor, collected, shortPage>>

PagerNext == Poll \/ Ledger

PagerSpec ==
  PagerInit /\ [][PagerNext]_pagerState /\ WF_pagerState(Poll)

-----------------------------------------------------------------------------
(***************************************************************************)
(* Properties.                                                             *)
(***************************************************************************)

\* Across all pages, with submissions, evictions and resizes in between, the
\* client receives every event at most once, in the order of submission, and as
\* it was submitted.
PagesInOrder ==
  /\ \A i, j \in DOMAIN collected : i < j => collected[i].seq < collected[j].seq
  /\ \A i \in DOMAIN collected :
        collected[i].input = submitted[collected[i].seq + 1]

\* A page shorter than the limit tells the client that it holds every event that
\* can be served: none that stayed retained is missing, before or after the
\* cursor.
ShortPageMeansExhausted ==
  [][pagerVars' # pagerVars /\ eventVars' = eventVars /\ shortPage'
       => steady' = {}]_pagerState

\* The next poll, whenever it comes, does not pass over an event the client still
\* lacks: it returns it, or a full page of earlier ones that brings the cursor at
\* least as many numbers nearer to it.  (EventuallyReceived, as a bound.)
NextPollApproaches ==
  LET page == get_events(cursor) IN
  \A seq \in steady :
    \/ \E i \in DOMAIN page : page[i].seq = seq
    \/ Len(page) = Clamped /\ NextCursor(page) \in (cursor + Clamped) .. seq

\* An event that stays retained is received in the end: submissions, evictions
\* and resizes cannot make a client that keeps polling pass over it.  (No event
\* stays among those it still lacks for ever.)
EventuallyReceived ==
  \A seq \in 0 .. (SeqMax - 1) : []<>(seq \notin steady)
=============================================================================
