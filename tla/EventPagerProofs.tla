-------------------------- MODULE EventPagerProofs --------------------------
(***************************************************************************)
(* Proofs about EventPager: what a page of get_events holds, for every     *)
(* length of the ledger and every page size, and from it that a client     *)
(* which polls by the pagination contract misses, repeats and reorders     *)
(* nothing.                                                                *)
(***************************************************************************)
EXTENDS EventPager, ExplorerEventsProofs

(***************************************************************************)
(* The loop.  Induction is by the least number for which a claim fails.    *)
(***************************************************************************)

LEMMA LeastNumber ==
  ASSUME NEW T, T \subseteq Nat, T # {}
  PROVE  \E x \in T : \A y \in T : x <= y
<1>1. IsWellFoundedOn(OpToRel(<, Nat), Nat)
  BY NatLessThanWellFounded
<1>2. \E x \in T : \A y \in T : <<y, x>> \notin OpToRel(<, Nat)
  BY <1>1, WFMin, Zenon
<1>3. PICK x \in T : \A y \in T : ~(y < x)
  BY <1>2 DEF OpToRel
<1> QED
  BY ONLY <1>3, T \subseteq Nat

\* out is a run of the loop of get_events from start to stop.
LoopRun(out, start, stop) ==
  out = [seq \in start .. stop |->
           IF seq = start THEN << >> ELSE Taken(out[seq - 1], seq - 1)]

\* The loop can be run any number of times: a longer run extends a shorter one.
LEMMA LoopExtends ==
  ASSUME NEW start \in Nat, NEW stop \in Nat, start <= stop,
         NEW out, LoopRun(out, start, stop)
  PROVE  \E longer : LoopRun(longer, start, stop + 1)
<1> DEFINE longer == [seq \in start .. (stop + 1) |->
                        IF seq = stop + 1 THEN Taken(out[stop], stop) ELSE out[seq]]
<1>1. ASSUME NEW seq \in start .. (stop + 1)
      PROVE  longer[seq] = IF seq = start THEN << >>
                           ELSE Taken(longer[seq - 1], seq - 1)
  <2>1. CASE seq = stop + 1
    <3>1. longer[seq - 1] = out[stop] /\ seq # start
      BY <2>1
    <3> QED
      BY <2>1, <3>1
  <2>2. CASE seq # stop + 1
    <3>1. seq \in start .. stop /\ longer[seq] = out[seq]
      BY <2>2
    <3>2. out[seq] = IF seq = start THEN << >> ELSE Taken(out[seq - 1], seq - 1)
      BY <3>1 DEF LoopRun
    <3>3. seq # start => longer[seq - 1] = out[seq - 1]
      BY <3>1
    <3> QED
      BY <3>1, <3>2, <3>3
  <2> QED
    BY <2>1, <2>2
<1>2. LoopRun(longer, start, stop + 1)
  <2> DEFINE next(seq) == IF seq = start THEN << >>
                          ELSE Taken(longer[seq - 1], seq - 1)
  <2>1. longer = [seq \in start .. (stop + 1) |-> longer[seq]]
    OBVIOUS
  <2>2. \A seq \in start .. (stop + 1) : longer[seq] = next(seq)
    BY <1>1
  <2> HIDE DEF longer
  <2>3. longer = [seq \in start .. (stop + 1) |-> next(seq)]
    BY <2>1, <2>2
  <2> QED
    BY <2>3 DEF LoopRun
<1> QED
  BY <1>2

LEMMA LoopRuns ==
  ASSUME NEW start \in Nat, NEW stop \in Nat, start <= stop
  PROVE  \E out : LoopRun(out, start, stop)
<1> DEFINE Bad == {n \in Nat : n >= start /\ ~ \E out : LoopRun(out, start, n)}
<1> SUFFICES Bad = {}
  OBVIOUS
<1> SUFFICES ASSUME Bad # {} PROVE FALSE
  OBVIOUS
<1>1. PICK n \in Bad : \A m \in Bad : n <= m
  BY LeastNumber
<1>2. n # start
  <2>1. LoopRun([seq \in start .. start |-> << >>], start, start)
    BY DEF LoopRun
  <2> QED
    BY <1>1, <2>1
<1>3. n - 1 \in Nat /\ n - 1 >= start /\ n - 1 \notin Bad
  BY <1>1, <1>2
<1>4. \E out : LoopRun(out, start, n - 1)
  BY <1>3
<1>5. \E out : LoopRun(out, start, (n - 1) + 1)
  BY <1>3, <1>4, LoopExtends
<1> QED
  BY <1>1, <1>5

(***************************************************************************)
(* A page.                                                                 *)
(***************************************************************************)

\* What the loop has after visiting start .. (stop - 1): events found there, each
\* read under its own number, in order and without gaps at the front, and all that
\* can be found there unless the page filled up before.
PageEvents(page, start, stop) ==
  \A i \in 1 .. Len(page) :
    /\ page[i] = get_event(page[i].seq)
    /\ Found(page[i].seq)
    /\ page[i].seq \in (start + i - 1) .. (stop - 1)
PageSorted(page) ==
  \A i, j \in 1 .. Len(page) : i < j => page[i].seq < page[j].seq
PageComplete(page, start, stop) ==
  \A seq \in start .. (stop - 1) :
    Found(seq) => \/ \E i \in 1 .. Len(page) : page[i].seq = seq
                  \/ /\ Len(page) = Clamped
                     /\ \A i \in 1 .. Len(page) : page[i].seq < seq

PageOK(page, start, stop) ==
  /\ page \in Seq(DecodedEvent) /\ Len(page) <= Clamped
  /\ PageEvents(page, start, stop)
  /\ PageSorted(page)
  /\ PageComplete(page, start, stop)

LEMMA ClampedPositive == Clamped \in Nat /\ Clamped > 0
BY PagerAssumption DEF Clamped

\* Reading an event of the ring.
LEMMA ReadEvent ==
  ASSUME EventsTypeOK, NEW seq \in Nat, Found(seq)
  PROVE  get_event(seq) \in DecodedEvent /\ get_event(seq).seq = seq
BY DEF Found, get_event, EventsTypeOK

\* A visit that takes the event.
LEMMA TakenKeepsPage ==
  ASSUME EventsTypeOK, NEW start \in Nat, NEW stop \in Nat, start <= stop,
         NEW page, PageOK(page, start, stop),
         Len(page) < Clamped, Found(stop)
  PROVE  PageOK(Append(page, get_event(stop)), start, stop + 1)
<1> DEFINE n == Len(page)
           more == Append(page, get_event(stop))
<1>1. page \in Seq(DecodedEvent) /\ n \in Nat /\ n < Clamped
  BY DEF PageOK
<1>2. get_event(stop) \in DecodedEvent /\ get_event(stop).seq = stop
  BY ReadEvent
<1>3. /\ more \in Seq(DecodedEvent) /\ Len(more) = n + 1
      /\ \A i \in 1 .. n : more[i] = page[i]
      /\ more[n + 1] = get_event(stop)
  BY <1>1, <1>2, AppendProperties
<1>4. \A i \in 1 .. n : /\ page[i] \in DecodedEvent
                        /\ page[i] = get_event(page[i].seq)
                        /\ Found(page[i].seq)
                        /\ page[i].seq \in (start + i - 1) .. (stop - 1)
  BY <1>1, ElementOfSeq DEF PageOK, PageEvents
<1>5. start + n <= stop
  <2>1. CASE n = 0
    BY <2>1
  <2>2. CASE n > 0
    <3>1. n \in 1 .. n
      BY <1>1, <2>2
    <3>2. page[n].seq \in (start + n - 1) .. (stop - 1)
      BY <1>4, <3>1
    <3> QED
      BY <1>1, <3>2
  <2> QED
    BY <1>1, <2>1, <2>2
<1> HIDE DEF more
<1>6. Len(more) <= Clamped
  BY <1>1, <1>3, ClampedPositive
<1>7. PageEvents(more, start, stop + 1)
  <2> SUFFICES ASSUME NEW i \in 1 .. (n + 1)
               PROVE  /\ more[i] = get_event(more[i].seq)
                      /\ Found(more[i].seq)
                      /\ more[i].seq \in (start + i - 1) .. stop
    BY <1>3 DEF PageEvents
  <2>1. CASE i \in 1 .. n
    BY <1>1, <1>3, <1>4, <2>1
  <2>2. CASE i = n + 1
    <3>1. more[i].seq = stop
      BY <1>2, <1>3, <2>2
    <3> QED
      BY <1>1, <1>2, <1>3, <1>5, <2>2, <3>1
  <2> QED
    BY <1>1, <2>1, <2>2
<1>8. PageSorted(more)
  <2> SUFFICES ASSUME NEW i \in 1 .. (n + 1), NEW j \in 1 .. (n + 1), i < j
               PROVE  more[i].seq < more[j].seq
    BY <1>3 DEF PageSorted
  <2>1. i \in 1 .. n /\ more[i] = page[i]
    BY <1>1, <1>3
  <2>2. CASE j \in 1 .. n
    BY <1>3, <2>1, <2>2 DEF PageOK, PageSorted
  <2>3. CASE j = n + 1
    <3>1. page[i].seq \in (start + i - 1) .. (stop - 1)
      BY <1>4, <2>1
    <3> QED
      BY <1>1, <1>2, <1>3, <2>1, <2>3, <3>1
  <2> QED
    BY <1>1, <2>2, <2>3
<1>9. PageComplete(more, start, stop + 1)
  <2>0. (stop + 1) - 1 = stop
    OBVIOUS
  <2> SUFFICES ASSUME NEW seq \in start .. stop, Found(seq)
               PROVE  \E i \in 1 .. (n + 1) : more[i].seq = seq
    BY <1>3, <2>0, Zenon DEF PageComplete
  <2>1. CASE seq = stop
    <3>1. n + 1 \in 1 .. (n + 1)
      BY <1>1
    <3> QED
      BY <1>2, <1>3, <2>1, <3>1
  <2>2. CASE seq # stop
    <3>1. seq \in start .. (stop - 1)
      BY <2>2
    <3>2. PICK i \in 1 .. n : page[i].seq = seq
      BY <1>1, <3>1 DEF PageOK, PageComplete
    <3>3. i \in 1 .. (n + 1) /\ more[i] = page[i]
      BY <1>1, <1>3
    <3> QED
      BY <3>2, <3>3
  <2> QED
    BY <2>1, <2>2
<1> QED
  BY <1>3, <1>6, <1>7, <1>8, <1>9 DEF PageOK, more

\* A visit that leaves the page as it is: the slot holds another event, or the
\* page is full.
LEMMA LeftKeepsPage ==
  ASSUME EventsTypeOK, NEW start \in Nat, NEW stop \in Nat, start <= stop,
         NEW page, PageOK(page, start, stop),
         ~(Len(page) < Clamped /\ Found(stop))
  PROVE  PageOK(page, start, stop + 1)
<1>1. page \in Seq(DecodedEvent) /\ Len(page) \in Nat /\ Len(page) <= Clamped
  BY DEF PageOK
<1>2. \A i \in 1 .. Len(page) : page[i].seq \in (start + i - 1) .. (stop - 1)
  BY DEF PageOK, PageEvents
<1>3. PageEvents(page, start, stop + 1)
  <2>1. \A i \in 1 .. Len(page) : page[i].seq \in (start + i - 1) .. stop
    BY <1>1, <1>2
  <2> QED
    BY <2>1 DEF PageOK, PageEvents
<1>4. PageComplete(page, start, stop + 1)
  <2> SUFFICES ASSUME NEW seq \in start .. stop, Found(seq)
               PROVE  \/ \E i \in 1 .. Len(page) : page[i].seq = seq
                      \/ /\ Len(page) = Clamped
                         /\ \A i \in 1 .. Len(page) : page[i].seq < seq
    BY DEF PageComplete
  <2>1. CASE seq = stop
    <3>1. Len(page) = Clamped
      BY <1>1, <2>1, ClampedPositive
    <3>2. \A i \in 1 .. Len(page) : page[i].seq < stop
      BY <1>1, <1>2
    <3> QED
      BY <2>1, <3>1, <3>2
  <2>2. CASE seq # stop
    <3>1. seq \in start .. (stop - 1)
      BY <2>2
    <3> QED
      BY <3>1 DEF PageOK, PageComplete
  <2> QED
    BY <2>1, <2>2
<1> QED
  BY <1>1, <1>3, <1>4 DEF PageOK

LEMMA VisitKeepsPage ==
  ASSUME EventsTypeOK, NEW start \in Nat, NEW stop \in Nat, start <= stop,
         NEW page, PageOK(page, start, stop)
  PROVE  PageOK(Taken(page, stop), start, stop + 1)
BY TakenKeepsPage, LeftKeepsPage DEF Taken

\* Wherever the loop is, its page is right.
LEMMA LoopPage ==
  ASSUME EventsTypeOK, NEW start \in Nat, NEW stop \in Nat,
         NEW out, LoopRun(out, start, stop)
  PROVE  \A seq \in start .. stop : PageOK(out[seq], start, seq)
<1> DEFINE Bad == {seq \in start .. stop : ~PageOK(out[seq], start, seq)}
<1> SUFFICES ASSUME Bad # {} PROVE FALSE
  OBVIOUS
<1>1. Bad \subseteq Nat
  OBVIOUS
<1>2. PICK seq \in Bad : \A m \in Bad : seq <= m
  BY <1>1, LeastNumber
<1>3. seq \in start .. stop /\ seq \in Nat
      /\ out[seq] = IF seq = start THEN << >> ELSE Taken(out[seq - 1], seq - 1)
  BY <1>2 DEF LoopRun
<1>4. CASE seq = start
  <2>1. PageOK(<< >>, start, start)
    BY ClampedPositive, EmptySeq
       DEF PageOK, PageEvents, PageSorted, PageComplete
  <2> QED
    BY <1>2, <1>3, <1>4, <2>1
<1>5. CASE seq # start
  <2>1. seq - 1 \in start .. stop /\ seq - 1 \in Nat /\ seq - 1 \notin Bad
    BY <1>2, <1>3, <1>5
  <2>2. PageOK(out[seq - 1], start, seq - 1)
    BY <2>1
  <2>3. PageOK(Taken(out[seq - 1], seq - 1), start, (seq - 1) + 1)
    BY <2>1, <2>2, VisitKeepsPage
  <2> QED
    BY <1>2, <1>3, <1>5, <2>3
<1> QED
  BY <1>4, <1>5

\* The first number get_events visits.
Start(from) == IF from > oldest THEN from ELSE oldest

\* A page of get_events is right for everything from its start to the end.
LEMMA GetEventsPage ==
  ASSUME EventsTypeOK, NEW from \in Nat
  PROVE  /\ Start(from) \in Nat
         /\ PageOK(get_events(from), Start(from), eventSeq)
<1>1. eventSeq \in Nat /\ maxEvents \in Nat \ {0} /\ oldest \in Nat
  BY DEF EventsTypeOK, InstanceTypeOK, oldest
<1>2. Start(from) \in Nat
  BY <1>1 DEF Start
<1>3. CASE Start(from) < eventSeq
  <2> DEFINE out == CHOOSE run : LoopRun(run, Start(from), eventSeq)
  <2>1. get_events(from) = out[eventSeq]
    BY <1>3 DEF get_events, Start, LoopRun
  <2>2. LoopRun(out, Start(from), eventSeq)
    <3>1. \E run : LoopRun(run, Start(from), eventSeq)
      BY <1>1, <1>2, <1>3, LoopRuns
    <3> QED
      BY <3>1
  <2> HIDE DEF out
  <2>3. PageOK(out[eventSeq], Start(from), eventSeq)
    <3>1. eventSeq \in Start(from) .. eventSeq
      BY <1>1, <1>2, <1>3
    <3> QED
      BY <1>1, <1>2, <2>2, <3>1, LoopPage
  <2> QED
    BY <1>2, <2>1, <2>3
<1>4. CASE ~(Start(from) < eventSeq)
  <2>1. get_events(from) = << >>
    BY <1>4 DEF get_events, Start
  <2>2. \A seq \in Nat : seq \notin Start(from) .. (eventSeq - 1)
    BY <1>1, <1>2, <1>4
  <2>3. PageOK(<< >>, Start(from), eventSeq)
    BY <1>1, <1>2, <1>4, ClampedPositive, EmptySeq
       DEF PageOK, PageEvents, PageSorted, PageComplete
  <2> QED
    BY <1>2, <2>1, <2>3
<1> QED
  BY <1>3, <1>4

\* What a client gets who polls from a cursor: entries it may read, numbered from
\* the cursor on in order; and a retained number at or past the cursor that is
\* missing from the page comes after a full one.
LEMMA PollPage ==
  ASSUME RingInv, NEW from \in Nat, NEW page, page = get_events(from)
  PROVE  /\ page \in Seq(DecodedEvent) /\ Len(page) <= Clamped
         /\ PageSorted(page)
         /\ \A i \in 1 .. Len(page) :
              /\ page[i].seq \in Nat
              /\ from + i - 1 <= page[i].seq /\ page[i].seq < eventSeq
              /\ page[i].input = submitted[page[i].seq + 1]
         /\ \A seq \in Served : seq >= from =>
              \/ \E i \in 1 .. Len(page) : page[i].seq = seq
              \/ /\ Len(page) = Clamped
                 /\ \A i \in 1 .. Len(page) : page[i].seq < seq
<1>1. EventsTypeOK /\ eventSeq \in Nat /\ maxEvents \in Nat \ {0} /\ oldest \in Nat
      /\ eventSeq <= SeqMax /\ SeqMax \in Nat
  BY EventAssumption DEF RingInv, EventsTypeOK, InstanceTypeOK, oldest
<1>2. Start(from) \in Nat /\ PageOK(page, Start(from), eventSeq)
      /\ from <= Start(from)
  BY <1>1, GetEventsPage DEF Start
<1>3. /\ page \in Seq(DecodedEvent) /\ Len(page) <= Clamped
      /\ PageSorted(page)
      /\ PageEvents(page, Start(from), eventSeq)
      /\ PageComplete(page, Start(from), eventSeq)
  BY <1>2 DEF PageOK
<1>4. ASSUME NEW i \in 1 .. Len(page)
      PROVE  /\ page[i].seq \in Nat
             /\ from + i - 1 <= page[i].seq /\ page[i].seq < eventSeq
             /\ page[i].input = submitted[page[i].seq + 1]
  <2>1. /\ page[i] = get_event(page[i].seq)
        /\ Found(page[i].seq)
        /\ page[i].seq \in (Start(from) + i - 1) .. (eventSeq - 1)
    BY <1>3 DEF PageEvents
  <2>2. page[i].seq \in Nat /\ from + i - 1 <= page[i].seq /\ page[i].seq < eventSeq
    BY <1>1, <1>2, <2>1
  <2>3. page[i].seq \in 0 .. SeqMax
    BY <1>1, <2>2
  <2>4. get_event(page[i].seq).input = submitted[page[i].seq + 1]
    BY <2>1, <2>3, InvReadsFaithful DEF ReadsAreFaithful
  <2> QED
    BY <2>1, <2>2, <2>4
<1>5. ASSUME NEW seq \in Served, seq >= from
      PROVE  \/ \E i \in 1 .. Len(page) : page[i].seq = seq
             \/ /\ Len(page) = Clamped
                /\ \A i \in 1 .. Len(page) : page[i].seq < seq
  <2>1. Found(seq) /\ seq \in oldest .. (eventSeq - 1)
    BY <1>5 DEF Served, Readable, Window
  <2>2. seq \in Start(from) .. (eventSeq - 1)
    BY <1>1, <1>5, <2>1 DEF Start
  <2> QED
    BY <1>3, <2>1, <2>2 DEF PageComplete
<1> QED
  BY <1>3, <1>4, <1>5

(***************************************************************************)
(* The client.                                                             *)
(***************************************************************************)

CursorOK == cursor \in Nat /\ cursor <= eventSeq

\* What the client has comes before its cursor, in order and as submitted.
CollectedOK ==
  /\ collected \in Seq(DecodedEvent)
  /\ \A i, j \in 1 .. Len(collected) : i < j => collected[i].seq < collected[j].seq
  /\ \A i \in 1 .. Len(collected) :
       /\ collected[i].seq < cursor
       /\ collected[i].input = submitted[collected[i].seq + 1]

\* What it lacks and has been there throughout can be read, at its cursor or after.
SteadyOK == steady \subseteq Served /\ \A seq \in steady : cursor <= seq

\* The inductive invariant: the ring's, and nothing the client still lacks behind the
\* cursor.
PagerInv == RingInv /\ CursorOK /\ CollectedOK /\ SteadyOK

LEMMA ServedNumbers == Served \subseteq Nat
BY DEF Served, Readable

LEMMA InitPagerInv == PagerInit => PagerInv
<1> SUFFICES ASSUME PagerInit PROVE PagerInv
  OBVIOUS
<1>1. RingInv /\ eventSeq = 0
  BY InitRingInv DEF PagerInit, EventsInit, InstanceInit
<1>2. CollectedOK
  BY EmptySeq DEF PagerInit, CollectedOK
<1> QED
  BY <1>1, <1>2 DEF PagerInit, PagerInv, CursorOK, SteadyOK

\* The cursor a page leaves behind: past every event of the page, not past the end
\* of the ledger, and before any event a full page had to leave out.
LEMMA CursorAfter ==
  ASSUME PagerInv, NEW page, page = get_events(cursor)
  PROVE  /\ NextCursor(page) \in Nat
         /\ cursor <= NextCursor(page) /\ NextCursor(page) <= eventSeq
         /\ \A i \in 1 .. Len(page) : page[i].seq < NextCursor(page)
         /\ Len(page) = Clamped => cursor + Clamped <= NextCursor(page)
         /\ \A seq \in Nat :
              Len(page) = Clamped /\ (\A i \in 1 .. Len(page) : page[i].seq < seq)
                => NextCursor(page) <= seq
<1>1. /\ page \in Seq(DecodedEvent)
      /\ PageSorted(page)
      /\ \A i \in 1 .. Len(page) :
              /\ page[i].seq \in Nat
              /\ cursor + i - 1 <= page[i].seq /\ page[i].seq < eventSeq
  BY PollPage DEF PagerInv, CursorOK
<1>2. cursor \in Nat /\ cursor <= eventSeq /\ eventSeq \in Nat
  BY DEF PagerInv, CursorOK, RingInv, EventsTypeOK, InstanceTypeOK
<1>3. CASE page = << >>
  <2>1. NextCursor(page) = cursor /\ Len(page) = 0
    BY <1>3 DEF NextCursor
  <2> QED
    BY <1>2, <2>1, ClampedPositive
<1>4. CASE page # << >>
  <2> DEFINE n == Len(page)
  <2>1. n \in Nat /\ n > 0 /\ n \in 1 .. n
    BY <1>1, <1>4, EmptySeq
  <2>2. NextCursor(page) = page[n].seq + 1
    BY <1>4 DEF NextCursor, Last
  <2>3. /\ page[n].seq \in Nat
        /\ cursor + n - 1 <= page[n].seq /\ page[n].seq < eventSeq
    BY <1>1, <2>1
  <2>4. \A i \in 1 .. n : page[i].seq <= page[n].seq
    <3> TAKE i \in 1 .. n
    <3>1. i < n => page[i].seq < page[n].seq
      BY <1>1, <2>1 DEF PageSorted
    <3>2. page[i].seq \in Nat
      BY <1>1
    <3> QED
      BY <2>1, <2>3, <3>1, <3>2
  <2>5. \A i \in 1 .. n : page[i].seq < NextCursor(page)
    BY <1>1, <2>2, <2>3, <2>4
  <2>6. ASSUME NEW seq \in Nat, \A i \in 1 .. n : page[i].seq < seq
        PROVE  NextCursor(page) <= seq
    <3>1. page[n].seq < seq
      BY <2>1, <2>6
    <3> QED
      BY <2>2, <2>3, <3>1
  <2>7. Len(page) = Clamped => cursor + Clamped <= NextCursor(page)
    BY <1>2, <2>1, <2>2, <2>3
  <2> QED
    BY <1>2, <2>1, <2>2, <2>3, <2>5, <2>6, <2>7
<1> QED
  BY <1>3, <1>4

\* What the client still lacks after a poll lies beyond a full page.
LEMMA LackedAfterPoll ==
  ASSUME PagerInv, NEW page, page = get_events(cursor), NEW seq \in steady,
         seq \notin {page[i].seq : i \in DOMAIN page}
  PROVE  Len(page) = Clamped /\ NextCursor(page) <= seq
<1>1. seq \in Served /\ cursor <= seq /\ seq \in Nat
  BY ServedNumbers DEF PagerInv, SteadyOK
<1>2. page \in Seq(DecodedEvent) /\ DOMAIN page = 1 .. Len(page)
  BY PollPage DEF PagerInv, CursorOK
<1>3. ~ \E i \in 1 .. Len(page) : page[i].seq = seq
  BY <1>2
<1>4. Len(page) = Clamped /\ \A i \in 1 .. Len(page) : page[i].seq < seq
  BY <1>1, <1>3, PollPage DEF PagerInv, CursorOK
<1> QED
  BY <1>1, <1>4, CursorAfter

LEMMA PollKeepsCollected ==
  ASSUME PagerInv, Poll
  PROVE  CollectedOK'
<1> DEFINE page == get_events(cursor)
           n == Len(collected)
<1>1. /\ collected' = collected \o page /\ cursor' = NextCursor(page)
      /\ submitted' = submitted
  BY DEF Poll, eventVars, ringVars
<1> HIDE DEF page
<1>2. /\ page \in Seq(DecodedEvent) /\ PageSorted(page)
      /\ \A i \in 1 .. Len(page) :
           /\ page[i].seq \in Nat
           /\ cursor + i - 1 <= page[i].seq
           /\ page[i].input = submitted[page[i].seq + 1]
  BY PollPage DEF PagerInv, CursorOK, page
<1>3. /\ cursor \in Nat /\ cursor' \in Nat /\ cursor <= cursor'
      /\ \A i \in 1 .. Len(page) : page[i].seq < cursor'
  BY <1>1, CursorAfter DEF PagerInv, CursorOK, page
<1>4. /\ collected \in Seq(DecodedEvent) /\ n \in Nat
      /\ \A i, j \in 1 .. n : i < j => collected[i].seq < collected[j].seq
      /\ \A i \in 1 .. n : /\ collected[i] \in DecodedEvent
                           /\ collected[i].seq < cursor
                           /\ collected[i].input = submitted[collected[i].seq + 1]
  BY ElementOfSeq DEF PagerInv, CollectedOK
<1>5. /\ collected' \in Seq(DecodedEvent) /\ Len(page) \in Nat
      /\ Len(collected') = n + Len(page)
      /\ \A i \in 1 .. (n + Len(page)) :
           collected'[i] = IF i <= n THEN collected[i] ELSE page[i - n]
  BY <1>1, <1>2, <1>4, ConcatProperties
<1>6. ASSUME NEW i \in 1 .. (n + Len(page))
      PROVE  \/ i \in 1 .. n /\ collected'[i] = collected[i]
             \/ i > n /\ i - n \in 1 .. Len(page) /\ collected'[i] = page[i - n]
  BY <1>4, <1>5
<1>7. ASSUME NEW i \in 1 .. (n + Len(page))
      PROVE  /\ collected'[i].seq < cursor'
             /\ collected'[i].input = submitted'[collected'[i].seq + 1]
  <2>1. CASE i \in 1 .. n /\ collected'[i] = collected[i]
    <3>1. collected[i].seq \in Nat /\ collected[i].seq < cursor
      BY <1>4, <2>1 DEF DecodedEvent
    <3> QED
      BY <1>1, <1>3, <1>4, <2>1, <3>1
  <2>2. CASE i - n \in 1 .. Len(page) /\ collected'[i] = page[i - n]
    BY <1>1, <1>2, <1>3, <2>2
  <2> QED
    BY <1>6, <2>1, <2>2
<1>8. ASSUME NEW i \in 1 .. (n + Len(page)), NEW j \in 1 .. (n + Len(page)), i < j
      PROVE  collected'[i].seq < collected'[j].seq
  <2>1. CASE j \in 1 .. n
    <3>1. i \in 1 .. n /\ collected'[i] = collected[i] /\ collected'[j] = collected[j]
      BY <1>4, <1>6, <1>8, <2>1
    <3> QED
      BY <1>4, <1>8, <2>1, <3>1
  <2>2. CASE i \in 1 .. n /\ j \notin 1 .. n
    <3>1. /\ collected'[i] = collected[i]
          /\ j - n \in 1 .. Len(page) /\ collected'[j] = page[j - n]
      BY <1>4, <1>6, <2>2
    <3>2. collected[i].seq \in Nat /\ collected[i].seq < cursor
      BY <1>4, <2>2 DEF DecodedEvent
    <3>3. page[j - n].seq \in Nat /\ cursor <= page[j - n].seq
      BY <1>2, <1>3, <1>4, <3>1
    <3> QED
      BY <1>3, <3>1, <3>2, <3>3
  <2>3. CASE i \notin 1 .. n
    <3>1. /\ i - n \in 1 .. Len(page) /\ collected'[i] = page[i - n]
          /\ j - n \in 1 .. Len(page) /\ collected'[j] = page[j - n]
          /\ i - n < j - n
      BY <1>4, <1>5, <1>6, <1>8, <2>3
    <3> QED
      BY <1>2, <3>1 DEF PageSorted
  <2> QED
    BY <2>1, <2>2, <2>3
<1> QED
  BY <1>5, <1>7, <1>8 DEF CollectedOK

LEMMA PollKeepsPagerInv ==
  ASSUME PagerInv, Poll
  PROVE  PagerInv'
<1> DEFINE page == get_events(cursor)
<1>1. /\ cursor' = NextCursor(page)
      /\ steady' = steady \ {page[i].seq : i \in DOMAIN page}
      /\ UNCHANGED eventVars
  BY DEF Poll
<1> HIDE DEF page
<1>2. /\ eventSeq' = eventSeq /\ maxEvents' = maxEvents /\ eventLog' = eventLog
  BY <1>1 DEF eventVars, instanceVars, ringVars
<1>3. RingInv'
  BY <1>1, RingInvStep DEF PagerInv
<1>4. CursorOK'
  BY <1>1, <1>2, CursorAfter DEF PagerInv, CursorOK, page
<1>5. SteadyOK'
  <2>1. Served' = Served
    BY <1>2 DEF Served, Readable, Window, oldest, Found, Slot
  <2>2. steady \subseteq Served
    BY DEF PagerInv, SteadyOK
  <2>3. ASSUME NEW seq \in steady' PROVE cursor' <= seq
    BY <1>1, <2>3, LackedAfterPoll DEF page
  <2> QED
    BY <1>1, <2>1, <2>2, <2>3 DEF SteadyOK
<1> QED
  BY <1>3, <1>4, <1>5, PollKeepsCollected DEF PagerInv

\* The ledger only grows at its end, and its submissions are never rewritten.
LEMMA LedgerGrows ==
  ASSUME RingInv, [EventsNext]_eventVars
  PROVE  /\ eventSeq \in Nat /\ eventSeq' \in Nat /\ eventSeq <= eventSeq'
         /\ \A n \in 1 .. eventSeq : submitted'[n] = submitted[n]
<1>1. /\ eventSeq \in Nat /\ submitted \in Seq(Input) /\ Len(submitted) = eventSeq
  BY DEF RingInv, EventsTypeOK, InstanceTypeOK
<1>2. CASE \E caller \in Signer, input \in Input : submit_event(caller, input)
  <2>1. PICK caller \in Signer, input \in Input : submit_event(caller, input)
    BY <1>2
  <2>2. eventSeq' = eventSeq + 1 /\ submitted' = Append(submitted, input)
    BY <2>1 DEF submit_event
  <2> QED
    BY <1>1, <2>2, AppendProperties
<1>3. CASE ~ \E caller \in Signer, input \in Input : submit_event(caller, input)
  BY <1>1, <1>3, OtherCalls, OtherCallKeepsSeq
<1> QED
  BY <1>2, <1>3

LEMMA LedgerKeepsPagerInv ==
  ASSUME PagerInv, Ledger
  PROVE  PagerInv'
<1>1. /\ cursor' = cursor /\ collected' = collected
      /\ steady' = (steady \cup (eventSeq .. (eventSeq' - 1))) \cap Served'
  BY DEF Ledger
<1>2. RingInv'
  BY RingInvStep DEF PagerInv, Ledger
<1>3. /\ eventSeq \in Nat /\ eventSeq' \in Nat /\ eventSeq <= eventSeq'
      /\ \A n \in 1 .. eventSeq : submitted'[n] = submitted[n]
  BY LedgerGrows DEF PagerInv, Ledger
<1>4. cursor \in Nat /\ cursor <= eventSeq
  BY DEF PagerInv, CursorOK
<1>5. CursorOK'
  BY <1>1, <1>3, <1>4 DEF CursorOK
<1>6. CollectedOK'
  <2>1. ASSUME NEW i \in 1 .. Len(collected)
        PROVE  submitted'[collected[i].seq + 1] = submitted[collected[i].seq + 1]
    <3>0. collected[i] \in DecodedEvent
      BY <2>1, ElementOfSeq DEF PagerInv, CollectedOK
    <3>1. collected[i].seq \in Nat /\ collected[i].seq < cursor
      BY <2>1, <3>0 DEF PagerInv, CollectedOK, DecodedEvent
    <3>2. collected[i].seq + 1 \in 1 .. eventSeq
      BY <1>3, <1>4, <3>1
    <3> QED
      BY <1>3, <3>2
  <2> QED
    BY <1>1, <2>1 DEF PagerInv, CollectedOK
<1>7. SteadyOK'
  <2>1. ASSUME NEW seq \in steady' PROVE cursor <= seq
    <3>1. CASE seq \in steady
      BY <3>1 DEF PagerInv, SteadyOK
    <3>2. CASE seq \in eventSeq .. (eventSeq' - 1)
      BY <1>3, <1>4, <3>2
    <3> QED
      BY <1>1, <3>1, <3>2
  <2> QED
    BY <1>1, <2>1 DEF SteadyOK
<1> QED
  BY <1>2, <1>5, <1>6, <1>7 DEF PagerInv

LEMMA PagerInvStep == PagerInv /\ [PagerNext]_pagerState => PagerInv'
<1> SUFFICES ASSUME PagerInv, [PagerNext]_pagerState PROVE PagerInv'
  OBVIOUS
<1>1. CASE UNCHANGED pagerState
  <2>1. UNCHANGED eventVars
        /\ cursor' = cursor /\ collected' = collected /\ steady' = steady
    BY <1>1 DEF pagerState, pagerVars
  <2>2. /\ eventSeq' = eventSeq /\ maxEvents' = maxEvents /\ eventLog' = eventLog
        /\ submitted' = submitted
    BY <2>1 DEF eventVars, instanceVars, ringVars
  <2>3. RingInv'
    BY <2>1, RingInvStep DEF PagerInv
  <2>4. Served' = Served
    BY <2>2 DEF Served, Readable, Window, oldest, Found, Slot
  <2> QED
    BY <2>1, <2>2, <2>3, <2>4 DEF PagerInv, CursorOK, CollectedOK, SteadyOK
<1> QED
  BY <1>1, PollKeepsPagerInv, LedgerKeepsPagerInv DEF PagerNext

(***************************************************************************)
(* The theorems.                                                           *)
(***************************************************************************)

\* Polling leaves the contract's storage alone: a run with clients is a run of the
\* ledger, and what is proved of the ledger holds in it.
THEOREM PollingOnlyReads == PagerSpec => EventsSpec
<1>1. PagerInit => EventsInit
  BY DEF PagerInit
<1>2. [PagerNext]_pagerState => [EventsNext]_eventVars
  BY DEF PagerNext, Poll, Ledger, pagerState
<1> QED
  BY <1>1, <1>2, PTL DEF PagerSpec, EventsSpec

\* PagerInv is inductive, whatever is submitted, evicted and resized between two
\* polls.
THEOREM PagerInvariant == PagerSpec => []PagerInv
BY InitPagerInv, PagerInvStep, PTL DEF PagerSpec

\* Across all pages the client receives every event at most once, in the order of
\* submission and as it was submitted.
THEOREM PagesAreInOrder == PagerSpec => []PagesInOrder
<1>1. PagerInv => PagesInOrder
  <2> SUFFICES ASSUME PagerInv PROVE PagesInOrder
    OBVIOUS
  <2>1. DOMAIN collected = 1 .. Len(collected)
    BY DEF PagerInv, CollectedOK
  <2> QED
    BY <2>1 DEF PagerInv, CollectedOK, PagesInOrder
<1> QED
  BY <1>1, PagerInvariant, PTL

\* A short page tells the client the truth: nothing it lacks stayed retained.
THEOREM ShortPagesEnd == PagerSpec => ShortPageMeansExhausted
<1>1. ASSUME PagerInv, Poll, shortPage' PROVE steady' = {}
  <2> DEFINE page == get_events(cursor)
  <2>1. /\ Len(page) < Clamped
        /\ steady' = steady \ {page[i].seq : i \in DOMAIN page}
    BY <1>1 DEF Poll, ShortPage
  <2> HIDE DEF page
  <2>2. ASSUME NEW seq \in steady' PROVE Len(page) = Clamped
    BY <1>1, <2>1, <2>2, LackedAfterPoll DEF page
  <2>3. Len(page) # Clamped
    BY <2>1, ClampedPositive
  <2> QED
    BY <2>2, <2>3
<1>2. ASSUME PagerInv, Ledger, eventVars' = eventVars PROVE pagerVars' = pagerVars
  <2>1. /\ cursor' = cursor /\ collected' = collected /\ shortPage' = shortPage
        /\ steady' = (steady \cup (eventSeq .. (eventSeq' - 1))) \cap Served'
    BY <1>2 DEF Ledger
  <2>2. /\ eventSeq' = eventSeq /\ maxEvents' = maxEvents /\ eventLog' = eventLog
    BY <1>2 DEF eventVars, instanceVars, ringVars
  <2>3. Served' = Served
    BY <2>2 DEF Served, Readable, Window, oldest, Found, Slot
  <2>4. eventSeq .. (eventSeq' - 1) = {}
    BY <1>2, <2>2, LedgerGrows DEF PagerInv, Ledger
  <2>5. steady' = steady
    BY <1>2, <2>1, <2>3, <2>4 DEF PagerInv, SteadyOK
  <2> QED
    BY <2>1, <2>5 DEF pagerVars
<1>3. PagerInv /\ [PagerNext]_pagerState
        => [pagerVars' # pagerVars /\ eventVars' = eventVars /\ shortPage'
              => steady' = {}]_pagerState
  BY <1>1, <1>2 DEF PagerNext
<1> QED
  BY <1>3, PagerInvariant, PTL DEF PagerSpec, ShortPageMeansExhausted

\* However far behind it is, the client's next poll returns a lacked event or brings
\* the cursor a whole page nearer: an event that stays retained is received after
\* at most as many polls as there are pages before it.
THEOREM EveryPollApproaches == PagerSpec => []NextPollApproaches
<1>1. PagerInv => NextPollApproaches
  <2> SUFFICES ASSUME PagerInv PROVE NextPollApproaches
    OBVIOUS
  <2> DEFINE page == get_events(cursor)
  <2> SUFFICES ASSUME NEW seq \in steady,
                      ~ \E i \in DOMAIN page : page[i].seq = seq
               PROVE  /\ Len(page) = Clamped
                      /\ NextCursor(page) \in (cursor + Clamped) .. seq
    BY DEF NextPollApproaches
  <2> HIDE DEF page
  <2>1. Len(page) = Clamped /\ NextCursor(page) <= seq
    BY LackedAfterPoll DEF page
  <2>2. NextCursor(page) \in Nat /\ cursor + Clamped <= NextCursor(page)
    BY <2>1, CursorAfter DEF page
  <2>3. cursor \in Nat /\ seq \in Nat
    BY ServedNumbers DEF PagerInv, CursorOK, SteadyOK
  <2> QED
    BY <2>1, <2>2, <2>3, ClampedPositive
<1> QED
  BY <1>1, PagerInvariant, PTL
=============================================================================
