----------------------------- MODULE FeedProofs -----------------------------
(***************************************************************************)
(* The k-way merge delivers in order: EventFeed implements                 *)
(* OrderedDelivery, for any streams, and what it has delivered is sorted.  *)
(* A session's schedule, sealed through it, is whole, and what is placed   *)
(* while it runs is stamped ahead of what its instrument is still to see.  *)
(*                                                                         *)
(* The heap holds one event of each stream, so that its least is the least *)
(* of all: an unread event of a stream comes after the event of the same   *)
(* stream in the heap, because the stream is sorted.                       *)
(***************************************************************************)
EXTENDS Schedule, FiniteSetTheorems, TLAPS

Ids == DOMAIN streams
Len0(s) == Len(streams[s].times)

\* The events that no cursor of `at` has reached.
Rest(at) == UNION {{EventAt(s, n) : n \in at[s]..(Len0(s) - 1)} : s \in Ids}

CursorsFit(at) == at \in [Ids -> Nat] /\ \A s \in Ids : at[s] <= Len0(s)

\* What the heap holds was pulled from the streams, and every stream with
\* something left to read is in it.
HeapFits(H, at) ==
  /\ \A e \in H : e.stream \in Ids /\ e.seq \in Nat /\ e.seq < at[e.stream]
                    /\ e = EventAt(e.stream, e.seq)
  /\ \A s \in Ids : at[s] < Len0(s) => \E e \in H : e.stream = s

\* The streams of a feed: those of its caller, or those a schedule is sealed with.
AnyStream == Streams \cup [instrument : Instruments, phase : Trade..Bar, times : Seq(Nat)]

WellStreamed ==
  /\ streams \in Seq(AnyStream)
  /\ \A s \in Ids : /\ s \in Nat
                    /\ streams[s].instrument \in Instruments
                    /\ streams[s].phase \in Trade..Bar
                    /\ streams[s].times \in Seq(Nat)
                    /\ SortedTimes(streams[s].times)

FeedInv ==
  /\ WellStreamed
  /\ primed \in BOOLEAN
  /\ CursorsFit(cursors)
  /\ primed => HeapFits(heap, cursors)
  /\ ~primed => heap = {} /\ out = <<>> /\ \A s \in Ids : cursors[s] = 0

LEMMA IsASeq ==
  ASSUME NEW n \in Nat, NEW f \in [1..n -> Nat]
  PROVE  f \in Seq(Nat) /\ Len(f) = n
OBVIOUS

LEMMA RestMember ==
  ASSUME NEW at, NEW e
  PROVE  e \in Rest(at) <=> \E s \in Ids : \E n \in at[s]..(Len0(s) - 1) : e = EventAt(s, n)
BY DEF Rest

LEMMA EventFields ==
  ASSUME NEW s, NEW n
  PROVE  /\ EventAt(s, n).stream = s /\ EventAt(s, n).seq = n
         /\ EventAt(s, n).phase = streams[s].phase
         /\ EventAt(s, n).ts = streams[s].times[n + 1]
BY DEF EventAt

\* Advancing the streams S takes from the rest exactly what it pulls.
LEMMA Advance ==
  ASSUME WellStreamed, NEW at, CursorsFit(at), NEW S, S \subseteq Ids
  PROVE  /\ CursorsFit(Moved(S, at))
         /\ Rest(at) = Pulled(S, at) \cup Rest(Moved(S, at))
         /\ \A s \in Ids : at[s] <= Moved(S, at)[s]
<1>1. CursorsFit(Moved(S, at)) /\ \A s \in Ids : at[s] <= Moved(S, at)[s]
  <2>1. \A s \in Ids : Len0(s) \in Nat
    BY DEF WellStreamed, Len0
  <2> QED BY <2>1 DEF CursorsFit, Moved, Unread, Len0
<1>2. ASSUME NEW e, e \in Rest(at)  PROVE e \in Pulled(S, at) \cup Rest(Moved(S, at))
  <2>1. PICK s \in Ids : \E n \in at[s]..(Len0(s) - 1) : e = EventAt(s, n)
    BY <1>2, RestMember
  <2>p. PICK n \in at[s]..(Len0(s) - 1) : e = EventAt(s, n)
    BY <2>1
  <2>2. at[s] \in Nat /\ Len0(s) \in Nat
    BY DEF CursorsFit, WellStreamed, Len0
  <2>3. CASE s \in S /\ n = at[s]
    BY <2>p, <2>2, <2>3 DEF Pulled, Unread, Len0
  <2>4. CASE ~(s \in S /\ n = at[s])
    <3>1. n \in Moved(S, at)[s]..(Len0(s) - 1)
      BY <2>p, <2>2, <2>4 DEF Moved, Unread, Len0, CursorsFit
    <3> QED BY <3>1, <2>p, RestMember
  <2> QED BY <2>3, <2>4
<1>3. ASSUME NEW e, e \in Pulled(S, at)  PROVE e \in Rest(at)
  <2>1. PICK s \in S : at[s] < Len0(s) /\ e = EventAt(s, at[s])
    BY <1>3 DEF Pulled, Unread, Len0
  <2>2. s \in Ids /\ at[s] \in Nat /\ Len0(s) \in Nat
    BY DEF CursorsFit, WellStreamed, Len0
  <2>3. at[s] \in at[s]..(Len0(s) - 1)
    BY <2>1, <2>2
  <2> QED BY <2>1, <2>2, <2>3, RestMember
<1>4. ASSUME NEW e, e \in Rest(Moved(S, at))  PROVE e \in Rest(at)
  <2>1. PICK s \in Ids : \E n \in Moved(S, at)[s]..(Len0(s) - 1) : e = EventAt(s, n)
    BY <1>4, RestMember
  <2>p. PICK n \in Moved(S, at)[s]..(Len0(s) - 1) : e = EventAt(s, n)
    BY <2>1
  <2>2. at[s] \in Nat /\ Len0(s) \in Nat /\ Moved(S, at)[s] \in Nat
    BY <1>1 DEF CursorsFit, WellStreamed, Len0
  <2>3. n \in at[s]..(Len0(s) - 1)
    BY <1>1, <2>p, <2>2
  <2> QED BY <2>p, <2>3, RestMember
<1> QED BY <1>1, <1>2, <1>3, <1>4

\* Filling the heap of streams nobody has read.
LEMMA Primes ==
  ASSUME FeedInv
  PROVE  /\ CursorsFit(At) /\ HeapFits(Ready, At)
         /\ Left = Ready \cup Rest(At)
<1>1. Left = heap \cup Rest(cursors)
  BY DEF Left, Rest, Len0, Ids
<1>2. CASE primed
  BY <1>1, <1>2 DEF FeedInv, Ready, At
<1>3. CASE ~primed
  <2>1. CursorsFit(At) /\ Rest(cursors) = Ready \cup Rest(At)
    BY <1>3, Advance DEF FeedInv, Ready, At, Ids
  <2>2. heap = {} /\ \A s \in Ids : cursors[s] = 0
    BY <1>3 DEF FeedInv
  <2>3. \A s \in Ids : Len0(s) \in Nat
    BY DEF FeedInv, WellStreamed, Len0
  <2>4. \A s \in Ids : Len0(s) > 0 => EventAt(s, 0) \in Ready /\ At[s] = 1
    BY <1>3, <2>2, <2>3 DEF Ready, At, Pulled, Moved, Unread, Len0, Ids, FeedInv, CursorsFit
  <2>5. \A e \in Ready : \E s \in Ids : Len0(s) > 0 /\ e = EventAt(s, 0)
    BY <1>3, <2>2 DEF Ready, Pulled, Unread, Len0, Ids
  <2>6. HeapFits(Ready, At)
    <3>1. ASSUME NEW e \in Ready
          PROVE  e.stream \in Ids /\ e.seq \in Nat /\ e.seq < At[e.stream]
                   /\ e = EventAt(e.stream, e.seq)
      BY <2>4, <2>5, EventFields
    <3>2. ASSUME NEW s \in Ids, At[s] < Len0(s)  PROVE \E e \in Ready : e.stream = s
      <4>1. At[s] \in Nat
        BY <2>1 DEF CursorsFit
      <4>2. Len0(s) > 0
        BY <3>2, <4>1, <2>3
      <4> QED BY <4>2, <2>4, EventFields
    <3> QED BY <3>1, <3>2 DEF HeapFits
  <2> QED BY <1>1, <2>1, <2>2, <2>6
<1> QED BY <1>2, <1>3 DEF FeedInv

\* The heap's order is the documented one.
LEMMA SameOrder ==
  ASSUME NEW d, NEW e
  PROVE  Before(d, e) <=> Merge!Precedes(d, e)
BY DEF Before, Merge!Precedes

\* Of a sorted stream, an earlier event precedes a later one.
LEMMA StreamInOrder ==
  ASSUME WellStreamed, NEW s \in Ids, NEW m \in Nat, NEW n \in Nat, m < n, n < Len0(s)
  PROVE  Merge!Precedes(EventAt(s, m), EventAt(s, n))
<1>1. m + 1 \in DOMAIN streams[s].times /\ n + 1 \in DOMAIN streams[s].times
  BY DEF WellStreamed, Len0
<1>2. streams[s].times[m + 1] <= streams[s].times[n + 1]
  BY <1>1 DEF WellStreamed, SortedTimes
<1>3. streams[s].times[m + 1] \in Nat /\ streams[s].times[n + 1] \in Nat
  <2> DEFINE T == streams[s].times
  <2>1. T \in Seq(Nat)
    BY DEF WellStreamed
  <2> HIDE DEF T
  <2>2. \A k \in DOMAIN T : T[k] \in Nat
    BY <2>1
  <2> QED BY <1>1, <2>2 DEF T
<1> QED BY <1>2, <1>3 DEF EventAt, Merge!Precedes

\* What is left are events of the streams.
LEMMA LeftIsRegistered ==
  ASSUME FeedInv, NEW e \in Left
  PROVE  /\ e.stream \in Ids /\ e.seq \in Nat /\ e.seq < Len0(e.stream)
         /\ e = EventAt(e.stream, e.seq)
<1>1. Left = heap \cup Rest(cursors) /\ CursorsFit(cursors)
  BY DEF Left, Rest, Len0, Ids, FeedInv
<1>2. \A s \in Ids : cursors[s] \in Nat /\ Len0(s) \in Nat /\ cursors[s] <= Len0(s)
  BY <1>1 DEF CursorsFit, FeedInv, WellStreamed, Len0
<1>3. CASE e \in heap
  <2>1. e.stream \in Ids /\ e.seq \in Nat /\ e.seq < cursors[e.stream] /\ e = EventAt(e.stream, e.seq)
    BY <1>3 DEF FeedInv, HeapFits
  <2> QED BY <2>1, <1>2
<1>4. CASE e \in Rest(cursors)
  <2>1. PICK s \in Ids : \E n \in cursors[s]..(Len0(s) - 1) : e = EventAt(s, n)
    BY <1>4, RestMember
  <2>2. PICK n \in cursors[s]..(Len0(s) - 1) : e = EventAt(s, n)
    BY <2>1
  <2>3. n \in Nat /\ n < Len0(s)
    BY <1>2, <2>2
  <2> QED BY <2>2, <2>3, EventFields
<1> QED BY <1>1, <1>3, <1>4

\* What is left is made of events.
LEMMA LeftTyped == FeedInv => Left \subseteq Merge!Event
<1> SUFFICES ASSUME FeedInv, NEW e \in Left PROVE e \in Merge!Event
  OBVIOUS
<1> DEFINE s == e.stream
           T == streams[s].times
<1>1. s \in Ids /\ e.seq \in Nat /\ e.seq < Len(T) /\ e = EventAt(s, e.seq)
  BY LeftIsRegistered DEF Len0
<1>2. T \in Seq(Nat) /\ s \in Nat /\ streams[s].phase \in 0..3
  BY <1>1 DEF FeedInv, WellStreamed, Trade, Bar
<1> HIDE DEF T
<1>3. T[e.seq + 1] \in Nat
  BY <1>1, <1>2
<1> QED BY <1>1, <1>2, <1>3 DEF EventAt, Merge!Event, T

Popped(e) ==
  /\ e \in Ready /\ \A d \in Ready \ {e} : Before(e, d)
  /\ heap' = (Ready \ {e}) \cup Pulled({e.stream}, At)
  /\ cursors' = Moved({e.stream}, At)
  /\ out' = Append(out, e)
  /\ primed' = TRUE
  /\ UNCHANGED streams

\* The event that next() returns is the least of all that are left.
LEMMA LeastOfAll ==
  ASSUME FeedInv, NEW e, Popped(e), NEW d \in Left, d # e
  PROVE  Merge!Precedes(e, d)
<1>1. CursorsFit(At) /\ HeapFits(Ready, At) /\ Left = Ready \cup Rest(At)
  BY Primes
<1>2. CASE d \in Ready
  BY <1>2, SameOrder DEF Popped
<1>3. CASE d \in Rest(At)
  <2>1. PICK s \in Ids : \E n \in At[s]..(Len0(s) - 1) : d = EventAt(s, n)
    BY <1>3, RestMember
  <2>2. PICK n \in At[s]..(Len0(s) - 1) : d = EventAt(s, n)
    BY <2>1
  <2>3. At[s] \in Nat /\ Len0(s) \in Nat /\ WellStreamed
    BY <1>1 DEF CursorsFit, FeedInv, WellStreamed, Len0
  <2>4. PICK h \in Ready : h.stream = s
    BY <1>1, <2>2, <2>3 DEF HeapFits
  <2>5. h.seq \in Nat /\ h.seq < At[s] /\ h = EventAt(s, h.seq)
    BY <1>1, <2>4 DEF HeapFits
  <2>6. n \in Nat /\ n < Len0(s) /\ h.seq < n
    BY <2>2, <2>3, <2>5
  <2>7. Merge!Precedes(h, d)
    BY <2>2, <2>3, <2>5, <2>6, StreamInOrder
  <2>8. e = h \/ Merge!Precedes(e, h)
    BY <2>4, SameOrder DEF Popped
  <2>9. e \in Merge!Event /\ h \in Merge!Event /\ d \in Merge!Event
    BY <1>1, <2>4, LeftTyped DEF Popped
  <2> QED BY <2>7, <2>8, <2>9 DEF Merge!Precedes, Merge!Event
<1> QED BY <1>1, <1>2, <1>3

LEMMA InitFeedInv == FeedInit => FeedInv /\ Left = {}
<1> SUFFICES ASSUME FeedInit PROVE FeedInv /\ Left = {}
  OBVIOUS
<1>1. streams = <<>> /\ cursors = <<>> /\ Ids = {}
  BY DEF FeedInit, Ids
<1>2. WellStreamed
  BY <1>1 DEF WellStreamed
<1>3. CursorsFit(cursors)
  BY <1>1 DEF CursorsFit
<1>4. FeedInv
  BY <1>1, <1>2, <1>3 DEF FeedInit, FeedInv
<1>5. Left = {}
  BY <1>1 DEF FeedInit, Left, Ids
<1> QED BY <1>4, <1>5

\* Registering a stream leaves the events of the others as they are.
LEMMA AddKeeps ==
  ASSUME FeedInv, NEW stream \in Streams, AddStream(stream)
  PROVE  FeedInv' /\ Merge!Register
<1> DEFINE new == Len(streams) + 1
<1>1. /\ streams' \in Seq(AnyStream) /\ Ids = 1..Len(streams) /\ Ids' = 1..new
      /\ Len(streams) \in Nat /\ streams'[new] = stream
      /\ \A s \in Ids : streams'[s] = streams[s]
  <2>1. stream \in AnyStream
    BY DEF AnyStream
  <2> QED BY <2>1 DEF FeedInv, WellStreamed, AddStream, Ids
<1>2. cursors' \in [Ids' -> Nat] /\ \A s \in Ids' : cursors'[s] = 0
  <2>1. cursors \in [1..Len(streams) -> Nat] /\ \A s \in Ids : cursors[s] = 0
    BY <1>1 DEF FeedInv, CursorsFit, AddStream
  <2>2. cursors \in Seq(Nat) /\ Len(cursors) = Len(streams)
    BY <1>1, <2>1, IsASeq
  <2>3. cursors' \in Seq(Nat) /\ Len(cursors') = new /\ cursors'[new] = 0
          /\ \A s \in 1..Len(cursors) : cursors'[s] = cursors[s]
    BY <1>1, <2>2 DEF AddStream
  <2>4. \A s \in 1..new : s = new \/ s \in 1..Len(streams)
    BY <1>1
  <2>5. \A s \in 1..new : cursors'[s] = 0
    BY <1>1, <2>1, <2>2, <2>3, <2>4
  <2>6. DOMAIN cursors' = 1..new
    BY <2>3
  <2>7. cursors' = [s \in 1..new |-> cursors'[s]]
    BY <2>3, <2>6
  <2> QED BY <1>1, <2>5, <2>7
<1>3. WellStreamed'
  <2>1. stream.instrument \in Instruments
          /\ stream.phase \in Trade..Bar /\ stream.times \in Seq(Nat) /\ SortedTimes(stream.times)
    BY StreamAssumption
  <2>2. ASSUME NEW s \in Ids'
        PROVE  /\ s \in Nat /\ streams'[s].instrument \in Instruments
               /\ streams'[s].phase \in Trade..Bar
               /\ streams'[s].times \in Seq(Nat) /\ SortedTimes(streams'[s].times)
    <3>1. CASE s = new
      BY <1>1, <2>1, <3>1
    <3>2. CASE s # new
      <4>1. s \in Ids
        BY <1>1, <3>2
      <4> QED BY <1>1, <4>1 DEF FeedInv, WellStreamed
    <3> QED BY <3>1, <3>2
  <2> QED BY <1>1, <2>2 DEF WellStreamed, Ids
<1>4. FeedInv'
  <2>1. CursorsFit(cursors)'
    BY <1>2, <1>3 DEF CursorsFit, WellStreamed, Len0, Ids
  <2> QED BY <1>2, <1>3, <2>1 DEF FeedInv, AddStream, Ids
<1>5. ASSUME NEW e \in Left  PROVE e \in Left'
  <2>1. heap = {} /\ heap' = {}
    BY DEF FeedInv, AddStream
  <2>2. PICK s \in Ids : \E n \in cursors[s]..(Len0(s) - 1) : e = EventAt(s, n)
    BY <2>1, <1>5 DEF Left, Ids, Len0
  <2>3. s \in Ids' /\ streams'[s] = streams[s] /\ cursors[s] = 0 /\ cursors'[s] = 0
    BY <1>1, <1>2 DEF FeedInv, AddStream
  <2>4. PICK n \in cursors[s]..(Len0(s) - 1) : e = EventAt(s, n)
    BY <2>2
  <2>5. n \in cursors'[s]..(Len(streams'[s].times) - 1) /\ e = EventAt(s, n)'
    BY <2>3, <2>4 DEF Len0, EventAt
  <2> QED BY <2>3, <2>5 DEF Left, Ids
<1>6. (Left \subseteq Merge!Event)'
  BY <1>4, LeftTyped, PTL
<1> QED BY <1>4, <1>5, <1>6 DEF Merge!Register, FeedInv, AddStream, Merge!Event

\* A call of next() keeps the invariant, and takes the least of what is left.
LEMMA PopKeeps ==
  ASSUME FeedInv, NEW e, Popped(e)
  PROVE  /\ FeedInv'
         /\ e \in Left /\ \A d \in Left \ {e} : Merge!Precedes(e, d)
         /\ Left' = Left \ {e}
<1> DEFINE at == Moved({e.stream}, At)
<1>1. CursorsFit(At) /\ HeapFits(Ready, At) /\ Left = Ready \cup Rest(At) /\ WellStreamed
  BY Primes DEF FeedInv
<1>2. e \in Ready /\ e.stream \in Ids /\ e.seq \in Nat /\ e.seq < At[e.stream]
  BY <1>1 DEF Popped, HeapFits
<1>3. /\ CursorsFit(at) /\ Rest(At) = Pulled({e.stream}, At) \cup Rest(at)
      /\ \A s \in Ids : At[s] <= at[s]
  BY <1>1, <1>2, Advance
<1>4. Left' = heap' \cup Rest(at)
  <2>1. streams' = streams /\ cursors' = at
    BY DEF Popped
  <2> QED BY <2>1 DEF Left, Rest, Ids, Len0, EventAt
<1>5. e \notin Rest(At)
  <2> SUFFICES ASSUME e \in Rest(At) PROVE FALSE
    OBVIOUS
  <2>1. PICK s \in Ids : \E n \in At[s]..(Len0(s) - 1) : e = EventAt(s, n)
    BY RestMember
  <2>2. PICK n \in At[s]..(Len0(s) - 1) : e = EventAt(s, n)
    BY <2>1
  <2>3. e.stream = s /\ e.seq = n
    BY <2>2, EventFields
  <2> QED BY <1>1, <1>2, <2>2, <2>3 DEF CursorsFit, WellStreamed, Len0
<1>6. Left' = Left \ {e}
  BY <1>1, <1>3, <1>4, <1>5 DEF Popped
<1>7. HeapFits(heap, cursors)'
  <2>0. \A s \in Ids : At[s] \in Nat /\ at[s] \in Nat /\ At[s] <= at[s] /\ Len0(s) \in Nat
    <3> HIDE DEF at
    <3> QED BY <1>1, <1>3 DEF CursorsFit, WellStreamed, Len0
  <2>1. \A d \in Ready : d.stream \in Ids /\ d.seq \in Nat /\ d.seq < at[d.stream]
                           /\ d = EventAt(d.stream, d.seq)
    <3> HIDE DEF at
    <3> QED BY <1>1, <2>0 DEF HeapFits
  <2>2. \A d \in Pulled({e.stream}, At) :
          d.stream \in Ids /\ d.seq \in Nat /\ d.seq < at[d.stream] /\ d = EventAt(d.stream, d.seq)
    BY <1>1, <1>2, EventFields DEF Pulled, Moved, Unread, CursorsFit
  <2>3. ASSUME NEW s \in Ids, at[s] < Len0(s)  PROVE \E d \in heap' : d.stream = s
    <3>1. At[s] < Len0(s)
      <4> HIDE DEF at
      <4> QED BY <2>0, <2>3
    <3>2. CASE s = e.stream
      <4>1. EventAt(s, At[s]) \in Pulled({e.stream}, At)
        BY <3>1, <3>2 DEF Pulled, Unread, Len0
      <4> QED BY <4>1, EventFields DEF Popped
    <3>3. CASE s # e.stream
      BY <1>1, <3>1, <3>3 DEF HeapFits, Popped
    <3> QED BY <3>2, <3>3
  <2>4. streams' = streams /\ cursors' = at /\ heap' = (Ready \ {e}) \cup Pulled({e.stream}, At)
    BY DEF Popped
  <2> QED BY <2>1, <2>2, <2>3, <2>4 DEF HeapFits, Ids, Len0, EventAt
<1>8. FeedInv'
  BY <1>1, <1>3, <1>7 DEF FeedInv, Popped, WellStreamed, CursorsFit, Ids, Len0
<1> QED BY <1>1, <1>2, <1>6, <1>8, LeastOfAll

LEMMA NextKeeps == FeedInv /\ [FeedNext]_feedVars => FeedInv' /\ [Merge!Next]_<<Left, out>>
<1> SUFFICES ASSUME FeedInv, [FeedNext]_feedVars
             PROVE  FeedInv' /\ [Merge!Next]_<<Left, out>>
  OBVIOUS
<1>1. CASE \E s \in Streams : AddStream(s)
  BY <1>1, AddKeeps DEF Merge!Next
<1>2. CASE PopNext
  <2>1. PICK e : Popped(e)
    BY <1>2 DEF PopNext, Popped
  <2> QED BY <2>1, PopKeeps DEF Merge!Next, Merge!Deliver, Popped
<1>3. CASE UNCHANGED feedVars
  BY <1>3 DEF feedVars, FeedInv, WellStreamed, CursorsFit, HeapFits, Left, Ids, Len0, EventAt
<1> QED BY <1>1, <1>2, <1>3 DEF FeedNext

\* EventFeed delivers the events of its streams in the documented order, each
\* once, however many streams there are (EventFeed::next, data/feed.rs).
THEOREM FeedImplementsMerge == FeedSpec => DeliversInOrder
<1>1. FeedInit => Merge!Init
  BY InitFeedInv DEF FeedInit, Merge!Init
<1> QED BY <1>1, InitFeedInv, NextKeeps, PTL DEF FeedSpec, DeliversInOrder, Merge!Spec

\* What next() has returned is in order, and nothing left should have come before.
FeedInOrder == Merge!InOrder /\ out \in Seq(Merge!Event) /\ FeedInv

\* A delivery of the least event keeps what was delivered in order.
LEMMA OrderKept ==
  ASSUME FeedInOrder, FeedInv', [Merge!Next]_<<Left, out>>
  PROVE  FeedInOrder'
<1>1. Left \subseteq Merge!Event
  BY LeftTyped DEF FeedInOrder
<1>2. CASE Merge!Register
  BY <1>1, <1>2 DEF Merge!Register, FeedInOrder, Merge!InOrder
<1>3. CASE Merge!Deliver
  <2>1. PICK e \in Left : /\ \A d \in Left \ {e} : Merge!Precedes(e, d)
                          /\ Left' = Left \ {e} /\ out' = Append(out, e)
    BY <1>3 DEF Merge!Deliver
  <2>2. /\ out' \in Seq(Merge!Event) /\ Len(out') = Len(out) + 1 /\ out'[Len(out')] = e
        /\ Len(out) \in Nat /\ \A k \in 1..Len(out) : out'[k] = out[k]
        /\ DOMAIN out = 1..Len(out) /\ DOMAIN out' = 1..Len(out')
    BY <1>1, <2>1 DEF FeedInOrder
  <2>3. ASSUME NEW k \in DOMAIN out', NEW l \in DOMAIN out', k < l
        PROVE  Merge!Precedes(out'[k], out'[l])
    <3>1. k \in DOMAIN out /\ out'[k] = out[k]
      BY <2>2, <2>3
    <3>2. CASE l = Len(out')
      BY <2>2, <3>1, <3>2 DEF FeedInOrder, Merge!InOrder
    <3>3. CASE l # Len(out')
      <4>1. l \in DOMAIN out /\ out'[l] = out[l]
        BY <2>2, <3>3
      <4> QED BY <2>3, <3>1, <4>1 DEF FeedInOrder, Merge!InOrder
    <3> QED BY <3>2, <3>3
  <2>4. ASSUME NEW k \in DOMAIN out', NEW d \in Left'
        PROVE  Merge!Precedes(out'[k], d)
    <3>1. CASE k = Len(out')
      BY <2>1, <2>2, <3>1
    <3>2. CASE k # Len(out')
      <4>1. k \in DOMAIN out /\ out'[k] = out[k]
        BY <2>2, <3>2
      <4> QED BY <2>1, <4>1 DEF FeedInOrder, Merge!InOrder
    <3> QED BY <3>1, <3>2
  <2> QED BY <1>1, <2>2, <2>3, <2>4 DEF FeedInOrder, Merge!InOrder
<1>4. CASE UNCHANGED <<Left, out>>
  BY <1>1, <1>4 DEF FeedInOrder, Merge!InOrder
<1> QED BY <1>1, <1>2, <1>3, <1>4 DEF Merge!Next

\* The events next() has returned are strictly in the documented order, so none
\* is returned twice, and none still to come should have been earlier.
THEOREM FeedStaysInOrder == FeedSpec => []Merge!InOrder
<1>1. FeedInit => FeedInOrder
  BY InitFeedInv DEF FeedInOrder, FeedInit, Merge!InOrder
<1>2. FeedInOrder /\ [FeedNext]_feedVars => FeedInOrder'
  BY NextKeeps, OrderKept DEF FeedInOrder
<1>3. FeedInOrder => Merge!InOrder
  BY DEF FeedInOrder
<1> QED BY <1>1, <1>2, <1>3, PTL DEF FeedSpec

-----------------------------------------------------------------------------
(* The streams of a sealed schedule *)

N == Cardinality(Instruments)

\* Where seal() registers the array of an instrument's phase.
StreamId(i, p) ==
  IF p = Bar THEN i
  ELSE IF p = Trade THEN N + 2 * i - 1
  ELSE IF p = Quote THEN N + 2 * i
  ELSE 3 * N + i

LEMMA SizeIsNat == N \in Nat /\ Instruments = 1..N
BY ScheduleAssumption, FS_CardinalityType DEF N

\* Each array of the schedule is registered once.
LEMMA SealedOnce ==
  /\ SealedStreams \in Seq({StreamOf(i, p) : i \in Instruments, p \in Trade..Bar})
  /\ DOMAIN SealedStreams = 1..(4 * N)
  /\ \A i \in Instruments, p \in Trade..Bar :
       StreamId(i, p) \in 1..(4 * N) /\ SealedStreams[StreamId(i, p)] = StreamOf(i, p)
  /\ \A s \in 1..(4 * N) : \E i \in Instruments, p \in Trade..Bar : s = StreamId(i, p)
<1> DEFINE S == {StreamOf(i, p) : i \in Instruments, p \in Trade..Bar}
           a == [i \in 1..N |-> StreamOf(i, Bar)]
           b == [k \in 1..(2 * N) |-> StreamOf((k + 1) \div 2, IF k % 2 = 1 THEN Trade ELSE Quote)]
           c == [i \in 1..N |-> StreamOf(i, Depth)]
<1>1. N \in Nat /\ Instruments = 1..N
  BY SizeIsNat
<1>2. SealedStreams = (a \o b) \o c
  BY DEF SealedStreams, N
<1>3. a \in [1..N -> S] /\ b \in [1..(2 * N) -> S] /\ c \in [1..N -> S]
  <2>1. \A i \in 1..N, p \in Trade..Bar : StreamOf(i, p) \in S
    BY <1>1
  <2>2. \A k \in 1..(2 * N) : (k + 1) \div 2 \in 1..N
    BY <1>1
  <2> HIDE DEF S
  <2>3. Trade \in Trade..Bar /\ Quote \in Trade..Bar /\ Depth \in Trade..Bar /\ Bar \in Trade..Bar
    BY DEF Trade, Quote, Depth, Bar
  <2> QED BY <2>1, <2>2, <2>3
<1>4. \A k \in 1..N : a[k] = StreamOf(k, Bar) /\ c[k] = StreamOf(k, Depth)
  OBVIOUS
<1>5. \A i \in 1..N : b[2 * i - 1] = StreamOf(i, Trade) /\ b[2 * i] = StreamOf(i, Quote)
  <2> TAKE i \in 1..N
  <2>1. /\ 2 * i - 1 \in 1..(2 * N) /\ 2 * i \in 1..(2 * N)
        /\ (2 * i - 1 + 1) \div 2 = i /\ (2 * i + 1) \div 2 = i
        /\ (2 * i - 1) % 2 = 1 /\ (2 * i) % 2 = 0
    BY <1>1
  <2> QED BY <2>1
<1> HIDE DEF a, b, c, S
<1>6. /\ a \in Seq(S) /\ b \in Seq(S) /\ c \in Seq(S)
      /\ Len(a) = N /\ Len(b) = 2 * N /\ Len(c) = N
  BY <1>1, <1>3
<1>7. /\ a \o b \in Seq(S) /\ Len(a \o b) = 3 * N
      /\ \A k \in 1..N : (a \o b)[k] = a[k]
      /\ \A k \in 1..(2 * N) : (a \o b)[N + k] = b[k]
  <2>1. N + 2 * N = 3 * N
    BY <1>1
  <2>2. /\ a \o b \in Seq(S) /\ Len(a \o b) = Len(a) + Len(b)
        /\ \A k \in 1..Len(a) : (a \o b)[k] = a[k]
        /\ \A k \in 1..Len(b) : (a \o b)[Len(a) + k] = b[k]
    <3>1. a \in Seq(S) /\ b \in Seq(S)
      BY <1>6
    <3> QED BY ONLY <3>1
  <2> QED BY <1>6, <2>1, <2>2
<1> DEFINE d == a \o b
<1> HIDE DEF d
<1>8. /\ d \o c \in Seq(S) /\ Len(d \o c) = 4 * N
      /\ \A k \in 1..(3 * N) : (d \o c)[k] = d[k]
      /\ \A k \in 1..N : (d \o c)[3 * N + k] = c[k]
  <2>1. 3 * N + N = 4 * N
    BY <1>1
  <2>2. d \in Seq(S) /\ Len(d) = 3 * N
    BY <1>7 DEF d
  <2>3. /\ d \o c \in Seq(S) /\ Len(d \o c) = Len(d) + Len(c)
        /\ \A k \in 1..Len(d) : (d \o c)[k] = d[k]
        /\ \A k \in 1..Len(c) : (d \o c)[Len(d) + k] = c[k]
    <3>1. d \in Seq(S) /\ c \in Seq(S)
      BY <1>6, <2>2
    <3> QED BY ONLY <3>1
  <2> QED BY <1>6, <2>1, <2>2, <2>3
<1>9. /\ SealedStreams = d \o c
      /\ \A k \in 1..N : d[k] = a[k]
      /\ \A k \in 1..(2 * N) : d[N + k] = b[k]
  BY <1>2, <1>7 DEF d
<1>10. ASSUME NEW i \in Instruments, NEW p \in Trade..Bar
       PROVE  StreamId(i, p) \in 1..(4 * N) /\ SealedStreams[StreamId(i, p)] = StreamOf(i, p)
  <2>1. i \in 1..N
    BY <1>1
  <2>2. CASE p = Bar
    <3>1. StreamId(i, p) = i /\ i \in 1..(3 * N) /\ i \in 1..(4 * N)
      BY <1>1, <2>1, <2>2 DEF StreamId
    <3> QED BY <1>4, <1>8, <1>9, <2>1, <2>2, <3>1
  <2>3. CASE p = Trade
    <3>1. 2 * i - 1 \in 1..(2 * N) /\ N + (2 * i - 1) \in 1..(3 * N)
      BY <1>1, <2>1
    <3>2. StreamId(i, p) = N + (2 * i - 1)
      BY <1>1, <2>1, <2>3 DEF StreamId, Trade, Bar
    <3>3. d[N + (2 * i - 1)] = b[2 * i - 1] /\ N + (2 * i - 1) \in 1..(4 * N)
      BY <1>1, <1>9, <2>1, <3>1
    <3> QED BY <1>5, <1>8, <1>9, <2>1, <2>3, <3>1, <3>2, <3>3
  <2>4. CASE p = Quote
    <3>1. 2 * i \in 1..(2 * N) /\ N + 2 * i \in 1..(3 * N)
      BY <1>1, <2>1
    <3>2. StreamId(i, p) = N + 2 * i
      BY <2>4 DEF StreamId, Trade, Quote, Bar
    <3>3. d[N + 2 * i] = b[2 * i] /\ N + 2 * i \in 1..(4 * N)
      BY <1>1, <1>9, <2>1, <3>1
    <3> QED BY <1>5, <1>8, <1>9, <2>1, <2>4, <3>1, <3>2, <3>3
  <2>5. CASE p = Depth
    <3>1. StreamId(i, p) = 3 * N + i
      BY <2>5 DEF StreamId, Trade, Quote, Depth, Bar
    <3>2. SealedStreams[3 * N + i] = c[i] /\ 3 * N + i \in 1..(4 * N)
      BY <1>1, <1>8, <1>9, <2>1
    <3> QED BY <1>4, <2>1, <2>5, <3>1, <3>2
  <2> QED BY <2>2, <2>3, <2>4, <2>5 DEF Trade, Quote, Depth, Bar
<1>11. ASSUME NEW s \in 1..(4 * N)
       PROVE  \E i \in Instruments, p \in Trade..Bar : s = StreamId(i, p)
  <2>0. Trade \in Trade..Bar /\ Quote \in Trade..Bar /\ Depth \in Trade..Bar /\ Bar \in Trade..Bar
    BY DEF Trade, Quote, Depth, Bar
  <2>1. CASE s <= N
    <3>1. s \in Instruments /\ s = StreamId(s, Bar)
      BY <1>1, <2>1 DEF StreamId
    <3> QED BY <2>0, <3>1
  <2>2. CASE s > N /\ s <= 3 * N /\ (s - N) % 2 = 1
    <3> DEFINE i == (s - N + 1) \div 2
    <3>1. i \in Instruments /\ N + 2 * i - 1 = s
      BY <1>1, <2>2
    <3> HIDE DEF i
    <3>2. s = StreamId(i, Trade)
      BY <3>1 DEF StreamId, Trade, Bar
    <3> QED BY <2>0, <3>1, <3>2
  <2>3. CASE s > N /\ s <= 3 * N /\ (s - N) % 2 = 0
    <3> DEFINE i == (s - N) \div 2
    <3>1. i \in Instruments /\ N + 2 * i = s
      BY <1>1, <2>3
    <3> HIDE DEF i
    <3>2. s = StreamId(i, Quote)
      BY <3>1 DEF StreamId, Trade, Quote, Bar
    <3> QED BY <2>0, <3>1, <3>2
  <2>4. CASE s > 3 * N
    <3>1. s - 3 * N \in Instruments
      BY <1>1, <2>4
    <3>2. s = StreamId(s - 3 * N, Depth)
      BY <1>1 DEF StreamId, Trade, Quote, Depth, Bar
    <3> QED BY <2>0, <3>1, <3>2
  <2>5. (s - N) % 2 \in 0..1
    BY <1>1
  <2> QED BY <1>1, <2>1, <2>2, <2>3, <2>4, <2>5
<1>12. SealedStreams \in Seq(S) /\ DOMAIN SealedStreams = 1..(4 * N)
  BY <1>8, <1>9
<1> QED BY <1>10, <1>11, <1>12 DEF S

-----------------------------------------------------------------------------
(* The feed of a schedule *)

LEMMA AttachedSorted ==
  ASSUME TypeOK, NEW i \in Instruments, NEW p \in Trade..Bar
  PROVE  attached[i][p] \in Seq(Nat) /\ SortedTimes(attached[i][p])
<1>1. attached[i][p] \in {s.times : s \in Streams} \cup {<<>>}
  BY DEF TypeOK
<1>2. CASE attached[i][p] = <<>>
  BY <1>2 DEF SortedTimes
<1>3. CASE attached[i][p] \in {s.times : s \in Streams}
  BY <1>3, StreamAssumption
<1> QED BY <1>1, <1>2, <1>3

\* Nothing is lost: an event of a stream waits in the feed or was returned, and
\* what was returned is an event of a stream.
Conserved ==
  /\ \A s \in Ids, n \in Nat :
       n < Len0(s) => EventAt(s, n) \in Left \/ \E k \in DOMAIN out : out[k] = EventAt(s, n)
  /\ \A k \in DOMAIN out :
       /\ out[k].stream \in Ids /\ out[k].seq \in Nat /\ out[k].seq < Len0(out[k].stream)
       /\ out[k] = EventAt(out[k].stream, out[k].seq)

FeedWhole == FeedInOrder /\ Conserved

\* Registering the streams of a schedule in one go is as good as one by one.
LEMMA SealKeepsFeed ==
  ASSUME FeedWhole, TypeOK, ~primed, streams = <<>>, Seal
  PROVE  FeedWhole' /\ Merge!Register
<1>1. /\ streams' = SealedStreams /\ Ids' = 1..(4 * N) /\ N \in Nat
      /\ heap = {} /\ out = <<>> /\ heap' = {} /\ out' = <<>>
      /\ ~primed' /\ primed' \in BOOLEAN
      /\ cursors' = [s \in Ids' |-> 0]
  BY SealedOnce, SizeIsNat DEF Seal, Ids, FeedWhole, FeedInOrder, FeedInv
<1>2. ASSUME NEW s \in Ids'
      PROVE  /\ s \in Nat /\ streams'[s].instrument \in Instruments
             /\ streams'[s].phase \in Trade..Bar
             /\ streams'[s].times \in Seq(Nat) /\ SortedTimes(streams'[s].times)
  <2>1. PICK i \in Instruments, p \in Trade..Bar : s = StreamId(i, p)
    BY <1>1, SealedOnce
  <2>2. streams'[s] = StreamOf(i, p)
    BY <1>1, <2>1, SealedOnce
  <2> QED BY <1>1, <2>2, AttachedSorted DEF StreamOf
<1>3. streams' \in Seq(AnyStream)
  <2>1. \A i \in Instruments, p \in Trade..Bar : StreamOf(i, p) \in AnyStream
    BY AttachedSorted DEF StreamOf, AnyStream
  <2>2. {StreamOf(i, p) : i \in Instruments, p \in Trade..Bar} \subseteq AnyStream
    BY <2>1
  <2> QED BY <1>1, <2>2, SealedOnce
<1>4. WellStreamed'
  BY <1>2, <1>3 DEF WellStreamed
<1>5. CursorsFit(cursors)'
  <2>1. \A s \in Ids' : Len(streams'[s].times) \in Nat
    BY <1>2
  <2> QED BY <1>1, <2>1 DEF CursorsFit, Len0, Ids
<1>6. FeedInv'
  BY <1>1, <1>4, <1>5 DEF FeedInv
<1>7. (Left \subseteq Merge!Event)'
  BY <1>6, LeftTyped, PTL
<1>8. Left = {}
  BY <1>1 DEF Left
<1>9. Merge!Register
  BY <1>1, <1>7, <1>8 DEF Merge!Register, Merge!Event
<1>10. FeedInOrder'
  BY <1>6, <1>9, OrderKept DEF FeedWhole, Merge!Next
<1>11. Conserved'
  <2>1. ASSUME NEW s \in Ids', NEW n \in Nat, n < Len0(s)'
        PROVE  EventAt(s, n)' \in Left'
    <3>1. cursors'[s] = 0 /\ Len0(s)' \in Nat
      BY <1>1, <1>2 DEF Len0
    <3>2. n \in cursors'[s]..(Len(streams'[s].times) - 1)
      BY <2>1, <3>1 DEF Len0
    <3>3. s \in Ids'
      BY <2>1
    <3> QED BY <3>2, <3>3 DEF Left, Ids
  <2> QED BY <1>1, <2>1 DEF Conserved
<1> QED BY <1>9, <1>10, <1>11 DEF FeedWhole

LEMMA PopKeepsFeed ==
  ASSUME FeedWhole, NEW e, Popped(e)
  PROVE  FeedWhole' /\ Merge!Deliver /\ e \in Left
<1>1. /\ FeedInv' /\ e \in Left /\ \A d \in Left \ {e} : Merge!Precedes(e, d)
      /\ Left' = Left \ {e} /\ out' = Append(out, e) /\ streams' = streams
  BY PopKeeps DEF FeedWhole, FeedInOrder, Popped
<1>2. Merge!Deliver
  BY <1>1 DEF Merge!Deliver
<1>3. FeedInOrder'
  BY <1>1, <1>2, OrderKept DEF FeedWhole, Merge!Next
<1>4. /\ e.stream \in Ids /\ e.seq \in Nat /\ e.seq < Len0(e.stream)
      /\ e = EventAt(e.stream, e.seq)
  BY <1>1, LeftIsRegistered DEF FeedWhole, FeedInOrder
<1>5. /\ Len(out) \in Nat /\ DOMAIN out = 1..Len(out) /\ DOMAIN out' = 1..(Len(out) + 1)
      /\ out'[Len(out) + 1] = e /\ \A k \in DOMAIN out : out'[k] = out[k]
  BY <1>1 DEF FeedWhole, FeedInOrder
<1>6. /\ Ids' = Ids /\ \A s : Len0(s)' = Len0(s)
      /\ \A s, n : EventAt(s, n)' = EventAt(s, n)
  BY <1>1 DEF Ids, Len0, EventAt
<1>7. ASSUME NEW s \in Ids, NEW n \in Nat, n < Len0(s)
      PROVE  EventAt(s, n) \in Left' \/ \E k \in DOMAIN out' : out'[k] = EventAt(s, n)
  <2>1. CASE EventAt(s, n) = e
    BY <1>5, <2>1
  <2>2. CASE EventAt(s, n) # e
    BY <1>1, <1>5, <1>7, <2>2 DEF FeedWhole, Conserved
  <2> QED BY <2>1, <2>2
<1>8. ASSUME NEW k \in DOMAIN out'
      PROVE  /\ out'[k].stream \in Ids /\ out'[k].seq \in Nat
             /\ out'[k].seq < Len0(out'[k].stream)
             /\ out'[k] = EventAt(out'[k].stream, out'[k].seq)
  <2>1. CASE k = Len(out) + 1
    BY <1>4, <1>5, <2>1
  <2>2. CASE k # Len(out) + 1
    <3>1. k \in DOMAIN out
      BY <1>5, <2>2
    <3> QED BY <1>5, <3>1 DEF FeedWhole, Conserved
  <2> QED BY <2>1, <2>2
<1>9. Conserved'
  BY <1>6, <1>7, <1>8 DEF Conserved
<1> QED BY <1>1, <1>2, <1>3, <1>9 DEF FeedWhole

-----------------------------------------------------------------------------
(* Ordinals *)

ScheduleEntry ==
  [instrument : Instruments, idx : Nat, ts : Nat, phase : Trade..Bar, batch : BOOLEAN]

\* Where the first n entries are of instrument i.
Own(entries, i, n) == {l \in 1..n : entries[l].instrument = i}

\* Entries carry the ordinals of their instruments, and `next` counts them.
Numbered(entries, next) ==
  /\ entries \in Seq(ScheduleEntry)
  /\ next \in [Instruments -> Nat]
  /\ \A i \in Instruments : next[i] = Cardinality(Own(entries, i, Len(entries)))
  /\ \A k \in DOMAIN entries :
       entries[k].idx = Cardinality(Own(entries, entries[k].instrument, k - 1))

LEMMA OwnIsFinite ==
  ASSUME NEW entries, NEW i, NEW n \in Nat
  PROVE  IsFiniteSet(Own(entries, i, n)) /\ Cardinality(Own(entries, i, n)) \in Nat
<1>1. IsFiniteSet(1..n)
  BY FS_Interval
<1>2. Own(entries, i, n) \in SUBSET (1..n)
  BY DEF Own
<1> QED BY <1>1, <1>2, FS_Subset, FS_CardinalityType

LEMMA AppendNumbers ==
  ASSUME NEW entries, NEW next, Numbered(entries, next), NEW i \in Instruments,
         NEW ts \in Nat, NEW p \in Trade..Bar, NEW batch \in BOOLEAN
  PROVE  Numbered(Append(entries, Entry(i, next[i], ts, p, batch)),
                  [next EXCEPT ![i] = @ + 1])
<1> DEFINE n == Len(entries)
           e == Entry(i, next[i], ts, p, batch)
           more == Append(entries, e)
<1>1. e \in ScheduleEntry
  BY DEF Entry, ScheduleEntry, Numbered
<1>2. entries \in Seq(ScheduleEntry) /\ n \in Nat /\ DOMAIN entries = 1..n
  BY DEF Numbered
<1> HIDE DEF n
<1>3. /\ more \in Seq(ScheduleEntry) /\ Len(more) = n + 1 /\ DOMAIN more = 1..(n + 1)
      /\ more[n + 1] = e /\ \A k \in 1..n : more[k] = entries[k]
  BY <1>1, <1>2 DEF n
<1>4. e.instrument = i /\ e.idx = next[i]
  BY DEF Entry
<1> HIDE DEF e, more
<1>5. ASSUME NEW j, NEW k \in 0..n  PROVE Own(more, j, k) = Own(entries, j, k)
  BY <1>2, <1>3 DEF Own
<1>6. ASSUME NEW j \in Instruments
      PROVE  Own(more, j, n + 1) =
               IF j = i THEN Own(entries, j, n) \cup {n + 1} ELSE Own(entries, j, n)
  BY <1>2, <1>3, <1>4 DEF Own
<1>7. ASSUME NEW j \in Instruments
      PROVE  [next EXCEPT ![i] = @ + 1][j] = Cardinality(Own(more, j, n + 1))
  <2>1. next[j] = Cardinality(Own(entries, j, n)) /\ IsFiniteSet(Own(entries, j, n))
    BY <1>2, OwnIsFinite DEF Numbered, n
  <2>2. n + 1 \notin Own(entries, j, n)
    BY <1>2 DEF Own
  <2>3. Cardinality(Own(entries, j, n) \cup {n + 1}) = next[j] + 1
    BY <2>1, <2>2, FS_AddElement
  <2>4. next \in [Instruments -> Nat]
    BY DEF Numbered
  <2> QED BY <1>6, <2>1, <2>3, <2>4
<1>8. ASSUME NEW k \in DOMAIN more
      PROVE  more[k].idx = Cardinality(Own(more, more[k].instrument, k - 1))
  <2>1. CASE k = n + 1
    <3>1. k - 1 = n /\ n \in 0..n
      BY <1>2, <2>1
    <3>2. more[k].idx = next[i] /\ more[k].instrument = i
      BY <1>3, <1>4, <2>1
    <3> QED BY <1>2, <1>5, <3>1, <3>2 DEF Numbered, n
  <2>2. CASE k # n + 1
    <3>1. k \in 1..n /\ more[k] = entries[k] /\ k - 1 \in 0..n
      BY <1>2, <1>3, <2>2
    <3> QED BY <1>2, <1>5, <3>1 DEF Numbered
  <2> QED BY <2>1, <2>2
<1>9. [next EXCEPT ![i] = @ + 1] \in [Instruments -> Nat]
  BY DEF Numbered
<1> QED BY <1>3, <1>7, <1>8, <1>9 DEF Numbered, e, more

\* What the rows of a schedule carry.
Rows == Row \cup {<<p>> : p \in Trade..Bar}

\* A row goes behind the schedule and takes the next ordinals of its instrument.
LEMMA ExtendKeeps ==
  ASSUME Numbered(schedule, nextIdx), NEW i \in Instruments, NEW ts \in Nat,
         NEW phases \in Rows, NEW batch \in BOOLEAN, Extend(i, ts, phases, batch)
  PROVE  /\ Numbered(schedule', nextIdx')
         /\ Len(phases) \in 1..2 /\ Len(schedule) \in Nat
         /\ Len(schedule') = Len(schedule) + Len(phases)
         /\ \A k \in 1..Len(schedule) : schedule'[k] = schedule[k]
         /\ \A k \in (Len(schedule) + 1)..Len(schedule') : schedule'[k].batch = batch
         /\ schedule'[Len(schedule) + 1] = Entry(i, nextIdx[i], ts, phases[1], batch)
         /\ \A j \in Instruments : nextIdx'[j] >= nextIdx[j]
<1> DEFINE n == Len(schedule)
           row == [k \in DOMAIN phases |-> Entry(i, nextIdx[i] + k - 1, ts, phases[k], batch)]
           a == Entry(i, nextIdx[i], ts, phases[1], batch)
           b == Entry(i, nextIdx[i] + 1, ts, phases[2], batch)
           one == Append(schedule, a)
           mid == [nextIdx EXCEPT ![i] = @ + 1]
<1>1. /\ schedule \in Seq(ScheduleEntry) /\ n \in Nat /\ nextIdx \in [Instruments -> Nat]
  BY DEF Numbered
<1>2. schedule' = schedule \o row /\ nextIdx' = [nextIdx EXCEPT ![i] = @ + Len(phases)]
  BY DEF Extend
<1>3. /\ phases[1] \in Trade..Bar /\ DOMAIN phases = 1..Len(phases)
      /\ Len(phases) = 1 \/ (Len(phases) = 2 /\ phases[2] \in Trade..Bar)
  BY DEF Rows, Row, Trade, Quote, Depth, Bar
<1>4. Numbered(one, mid)
  BY <1>3, AppendNumbers
<1>5. a \in ScheduleEntry /\ a.batch = batch
  BY <1>1, <1>3 DEF Entry, ScheduleEntry
<1>6. mid \in [Instruments -> Nat] /\ \A j \in Instruments : mid[j] >= nextIdx[j]
  BY <1>1
<1>7. CASE Len(phases) = 1
  <2>1. row = <<a>>
    BY <1>1, <1>3, <1>7
  <2> HIDE DEF row, a
  <2>2. schedule' = one
    BY <1>1, <1>2, <1>5, <2>1
  <2>3. nextIdx' = mid
    BY <1>2, <1>7
  <2>4. /\ Len(one) = n + 1 /\ one[n + 1] = a /\ \A k \in 1..n : one[k] = schedule[k]
    BY <1>1, <1>5
  <2> QED BY <1>1, <1>4, <1>5, <1>6, <1>7, <2>2, <2>3, <2>4 DEF a
<1>8. CASE Len(phases) = 2
  <2> DEFINE two == Append(one, b)
  <2>1. row = <<a, b>>
    <3>1. nextIdx[i] + 1 - 1 = nextIdx[i] /\ nextIdx[i] + 2 - 1 = nextIdx[i] + 1
      BY <1>1
    <3> QED BY <1>3, <1>8, <3>1
  <2>2. b \in ScheduleEntry /\ b.batch = batch
    BY <1>1, <1>3, <1>8 DEF Entry, ScheduleEntry
  <2>3. mid[i] = nextIdx[i] + 1
    BY <1>1
  <2>4. Numbered(two, [mid EXCEPT ![i] = @ + 1])
    BY <1>3, <1>4, <1>8, <2>3, AppendNumbers
  <2> HIDE DEF row, a, b
  <2>5. schedule' = two
    BY <1>1, <1>2, <1>5, <2>1, <2>2
  <2>6. nextIdx' = [mid EXCEPT ![i] = @ + 1]
    BY <1>1, <1>2, <1>8
  <2>7. /\ Len(two) = n + 2 /\ two[n + 1] = a /\ two[n + 2] = b
        /\ \A k \in 1..n : two[k] = schedule[k]
    BY <1>1, <1>5, <2>2
  <2>8. \A j \in Instruments : [mid EXCEPT ![i] = @ + 1][j] >= nextIdx[j]
    BY <1>1
  <2>9. \A k \in (n + 1)..(n + 2) : two[k].batch = batch
    BY <1>1, <1>5, <2>2, <2>7
  <2> QED BY <1>1, <1>8, <2>4, <2>5, <2>6, <2>7, <2>8, <2>9 DEF a
<1> QED BY <1>3, <1>7, <1>8

\* An instrument's later entries have higher ordinals.
LEMMA OrdinalsRise ==
  ASSUME Numbered(schedule, nextIdx),
         NEW k \in DOMAIN schedule, NEW l \in DOMAIN schedule, k < l,
         schedule[k].instrument = schedule[l].instrument
  PROVE  schedule[k].idx < schedule[l].idx
<1> DEFINE i == schedule[k].instrument
           A == Own(schedule, i, k - 1)
           B == Own(schedule, i, l - 1)
<1>1. k \in Nat \ {0} /\ l \in Nat \ {0} /\ schedule[k].idx = Cardinality(A) /\ schedule[l].idx = Cardinality(B)
  BY DEF Numbered
<1>2. A \cup {k} \in SUBSET B /\ k \notin A
  BY <1>1 DEF Own
<1>3. IsFiniteSet(A) /\ IsFiniteSet(B) /\ Cardinality(A) \in Nat /\ Cardinality(B) \in Nat
  <2>1. k - 1 \in Nat /\ l - 1 \in Nat
    BY <1>1
  <2> QED BY <2>1, OwnIsFinite
<1> HIDE DEF A, B
<1>4. Cardinality(A \cup {k}) = Cardinality(A) + 1 /\ Cardinality(A \cup {k}) <= Cardinality(B)
  BY <1>2, <1>3, FS_AddElement, FS_Subset
<1> QED BY <1>1, <1>3, <1>4

\* No entry has reached its instrument's count.
LEMMA OrdinalsBelowNext ==
  ASSUME Numbered(schedule, nextIdx), NEW k \in DOMAIN schedule
  PROVE  schedule[k].idx < nextIdx[schedule[k].instrument]
<1> DEFINE i == schedule[k].instrument
           A == Own(schedule, i, k - 1)
           B == Own(schedule, i, Len(schedule))
<1>1. /\ k \in 1..Len(schedule) /\ Len(schedule) \in Nat /\ i \in Instruments
      /\ schedule[k].idx = Cardinality(A) /\ nextIdx[i] = Cardinality(B)
  <2>1. schedule \in Seq(ScheduleEntry)
    BY DEF Numbered
  <2>2. schedule[k] \in ScheduleEntry
    BY <2>1
  <2> QED BY <2>1, <2>2 DEF Numbered, ScheduleEntry
<1>2. A \cup {k} \in SUBSET B /\ k \notin A
  BY <1>1 DEF Own
<1>3. IsFiniteSet(A) /\ IsFiniteSet(B) /\ Cardinality(A) \in Nat /\ Cardinality(B) \in Nat
  <2>1. k - 1 \in Nat
    BY <1>1
  <2> QED BY <1>1, <2>1, OwnIsFinite
<1> HIDE DEF A, B
<1>4. Cardinality(A \cup {k}) = Cardinality(A) + 1 /\ Cardinality(A \cup {k}) <= Cardinality(B)
  BY <1>2, <1>3, FS_AddElement, FS_Subset
<1> QED BY <1>1, <1>3, <1>4

-----------------------------------------------------------------------------
(* The schedule's invariant *)

\* The attached part of the schedule is what the feed has returned.
Merged ==
  /\ Len(out) <= Len(schedule)
  /\ \A k \in DOMAIN schedule : schedule[k].batch <=> k <= Len(out)
  /\ \A k \in DOMAIN out :
       /\ schedule[k].instrument = streams[out[k].stream].instrument
       /\ schedule[k].phase = out[k].phase /\ schedule[k].ts = out[k].ts

\* Nothing is registered before the seal; nothing is pushed or applied before its
\* end; and then nothing is left in the feed.
Staged ==
  /\ stage = "attach" => ~primed /\ streams = <<>>
  /\ stage # "attach" => streams = SealedStreams
  /\ stage # "run" => Len(schedule) = Len(out) /\ cursor = 0
  /\ stage = "run" => Left = {}

\* What an instrument has last seen is one of its applied entries.
Seen ==
  /\ lastSeen \in [Instruments -> Int]
  /\ \A i \in Instruments :
       \/ lastSeen[i] = -1
       \/ \E k \in 1..cursor : schedule[k].instrument = i /\ schedule[k].idx = lastSeen[i]

ScheduleInv ==
  TypeOK /\ FeedWhole /\ Numbered(schedule, nextIdx) /\ Merged /\ Staged /\ Seen

\* The steps that leave feed and schedule alone.
LEMMA SameFeed ==
  ASSUME FeedWhole, UNCHANGED feedVars
  PROVE  FeedWhole' /\ Left' = Left
<1>1. FeedInOrder'
  BY NextKeeps, OrderKept DEF FeedWhole, FeedInOrder
<1>2. UNCHANGED <<streams, cursors, heap, primed, out>>
  BY DEF feedVars
<1>3. Left' = Left
  BY <1>2 DEF Left, EventAt
<1>4. Ids' = Ids /\ (\A s : Len0(s)' = Len0(s)) /\ \A s, n : EventAt(s, n)' = EventAt(s, n)
  BY <1>2 DEF Ids, Len0, EventAt
<1>5. Conserved'
  BY <1>2, <1>3, <1>4 DEF FeedWhole, Conserved
<1> QED BY <1>1, <1>3, <1>5 DEF FeedWhole

LEMMA InitScheduleInv == Init => ScheduleInv
<1> SUFFICES ASSUME Init PROVE ScheduleInv
  OBVIOUS
<1>1. FeedWhole /\ Left = {}
  <2>1. FeedInit
    BY DEF Init
  <2>2. FeedInv /\ Left = {}
    BY <2>1, InitFeedInv
  <2>3. out = <<>> /\ streams = <<>>
    BY <2>1 DEF FeedInit
  <2>4. FeedInOrder
    BY <2>2, <2>3 DEF FeedInOrder, Merge!InOrder
  <2>5. DOMAIN out = {} /\ Ids = {}
    BY <2>3 DEF Ids
  <2>6. Conserved
    BY <2>5 DEF Conserved
  <2> QED BY <2>2, <2>4, <2>6 DEF FeedWhole
<1>2. /\ schedule = <<>> /\ out = <<>> /\ streams = <<>> /\ ~primed /\ cursor = 0
      /\ stage = "attach" /\ Len(schedule) = 0 /\ DOMAIN schedule = {}
  BY DEF Init, FeedInit
<1>3. Numbered(schedule, nextIdx)
  <2>1. \A i \in Instruments : Own(schedule, i, 0) = {}
    BY DEF Own
  <2> QED BY <1>2, <2>1, FS_EmptySet DEF Numbered, Init
<1>4. TypeOK
  BY <1>2 DEF Init, TypeOK
<1>5. Seen
  BY DEF Init, Seen
<1> QED BY <1>1, <1>2, <1>3, <1>4, <1>5 DEF ScheduleInv, Merged, Staged

\* What the types say beyond the rest of the invariant.
LEMMA TypesFollow ==
  /\ Numbered(schedule, nextIdx) /\ Seen /\ stage \in {"attach", "seal", "run"}
  /\ cursor \in 0..Len(schedule)
  /\ attached \in [Instruments -> [Trade..Bar -> {s.times : s \in Streams} \cup {<<>>}]]
  => TypeOK
<1> SUFFICES
      ASSUME Numbered(schedule, nextIdx), Seen, stage \in {"attach", "seal", "run"},
             cursor \in 0..Len(schedule),
             attached \in [Instruments -> [Trade..Bar -> {s.times : s \in Streams} \cup {<<>>}]]
      PROVE  TypeOK
  OBVIOUS
<1>1. schedule \in Seq(ScheduleEntry) /\ nextIdx \in [Instruments -> Nat]
  BY DEF Numbered
<1>2. \A k \in DOMAIN schedule : schedule[k] \in ScheduleEntry
  BY <1>1
<1>3. ASSUME NEW i \in Instruments  PROVE lastSeen[i] < nextIdx[i]
  <2>1. CASE lastSeen[i] = -1
    BY <1>1, <2>1
  <2>2. CASE lastSeen[i] # -1
    <3>1. PICK k \in 1..cursor : schedule[k].instrument = i /\ schedule[k].idx = lastSeen[i]
      BY <2>2 DEF Seen
    <3>2. k \in DOMAIN schedule
      BY <1>1
    <3> QED BY <3>1, <3>2, OrdinalsBelowNext
  <2> QED BY <2>1, <2>2
<1> QED BY <1>2, <1>3 DEF TypeOK, ScheduleEntry

LEMMA AttachKeeps ==
  ASSUME ScheduleInv,
         (\E s \in Streams : SetOne(s)) \/ (\E t, q \in Streams : SetTicks(t, q))
  PROVE  ScheduleInv' /\ Left' = Left
<1>1. /\ UNCHANGED <<feedVars, stage, schedule, nextIdx, cursor, lastSeen>> /\ stage = "attach"
      /\ attached' \in [Instruments -> [Trade..Bar -> {s.times : s \in Streams} \cup {<<>>}]]
  <2> DEFINE T == {s.times : s \in Streams} \cup {<<>>}
  <2>1. attached \in [Instruments -> [Trade..Bar -> T]] /\ \A s \in Streams : s.times \in T
    BY DEF ScheduleInv, TypeOK
  <2> HIDE DEF T
  <2>2. CASE \E s \in Streams : SetOne(s)
    <3>1. PICK s \in Streams : SetOne(s)
      BY <2>2
    <3>2. s.instrument \in Instruments /\ s.phase \in Trade..Bar /\ s.times \in T
      BY <2>1, StreamAssumption
    <3>3. attached' = [attached EXCEPT ![s.instrument][s.phase] = s.times]
      BY <3>1 DEF SetOne
    <3>4. attached' \in [Instruments -> [Trade..Bar -> T]]
      BY <2>1, <3>2, <3>3
    <3> QED BY <3>1, <3>4 DEF SetOne, T
  <2>3. CASE \E t, q \in Streams : SetTicks(t, q)
    <3>1. PICK t \in Streams, q \in Streams : SetTicks(t, q)
      BY <2>3
    <3>2. t.instrument \in Instruments /\ t.times \in T /\ q.times \in T
      BY <2>1, StreamAssumption
    <3>3. Trade \in Trade..Bar /\ Quote \in Trade..Bar
      BY DEF Trade, Quote, Bar
    <3>4. attached' = [attached EXCEPT ![t.instrument][Trade] = t.times,
                                       ![t.instrument][Quote] = q.times]
      BY <3>1 DEF SetTicks
    <3>5. attached' \in [Instruments -> [Trade..Bar -> T]]
      BY <2>1, <3>2, <3>3, <3>4
    <3> QED BY <3>1, <3>5 DEF SetTicks, T
  <2> QED BY <2>2, <2>3
<1>2. FeedWhole' /\ Left' = Left /\ UNCHANGED feedVars
  BY <1>1, SameFeed DEF ScheduleInv
<1>3. Numbered(schedule, nextIdx)' /\ Merged' /\ Seen'
  <2>1. UNCHANGED <<streams, out, schedule, nextIdx, cursor, lastSeen>>
    BY <1>1 DEF feedVars
  <2>2. Numbered(schedule, nextIdx)'
    BY <2>1 DEF ScheduleInv
  <2> QED BY <2>1, <2>2 DEF ScheduleInv, Merged, Seen
<1>4. Staged'
  BY <1>1, <1>2 DEF ScheduleInv, Staged, feedVars
<1>5. TypeOK'
  BY <1>1 DEF ScheduleInv, TypeOK
<1> QED BY <1>2, <1>3, <1>4, <1>5 DEF ScheduleInv

LEMMA SealKeeps ==
  ASSUME ScheduleInv, Seal
  PROVE  ScheduleInv' /\ Merge!Register
<1>1. ~primed /\ streams = <<>> /\ Len(schedule) = Len(out) /\ cursor = 0
  BY DEF ScheduleInv, Staged, Seal
<1>2. FeedWhole' /\ Merge!Register
  BY <1>1, SealKeepsFeed DEF ScheduleInv
<1>3. UNCHANGED <<out, schedule, nextIdx, cursor, lastSeen, attached>> /\ out = <<>> /\ stage' = "seal"
  BY <1>1 DEF Seal, ScheduleInv, FeedWhole, FeedInOrder, FeedInv
<1>4. Numbered(schedule, nextIdx)' /\ Seen' /\ TypeOK'
  BY <1>3 DEF ScheduleInv, Numbered, Own, Seen, TypeOK
<1>5. Merged'
  BY <1>3 DEF ScheduleInv, Merged
<1>6. Staged'
  <2>1. SealedStreams' = SealedStreams
    BY <1>3 DEF SealedStreams, StreamOf
  <2> QED BY <1>1, <1>3, <2>1 DEF Staged, Seal
<1> QED BY <1>2, <1>4, <1>5, <1>6 DEF ScheduleInv

LEMMA SealNextKeeps ==
  ASSUME ScheduleInv, SealNext
  PROVE  ScheduleInv' /\ Merge!Deliver
<1>1. PICK e : Popped(e)
  BY DEF SealNext, PopNext, Popped
<1>2. FeedWhole' /\ Merge!Deliver /\ e \in Left
  BY <1>1, PopKeepsFeed DEF ScheduleInv
<1> DEFINE n == Len(out)
           i == streams[e.stream].instrument
<1>3. e \in Merge!Event /\ e.stream \in Ids /\ e = EventAt(e.stream, e.seq)
  BY <1>2, LeftTyped, LeftIsRegistered DEF ScheduleInv, FeedWhole, FeedInOrder
<1>4. i \in Instruments /\ e.ts \in Nat /\ e.phase \in Trade..Bar
  BY <1>3 DEF ScheduleInv, FeedWhole, FeedInOrder, FeedInv, WellStreamed, Merge!Event, Trade, Bar
<1>5. /\ out \in Seq(Merge!Event) /\ n \in Nat /\ DOMAIN out = 1..n
      /\ out' = Append(out, e) /\ Len(out') = n + 1 /\ DOMAIN out' = 1..(n + 1)
      /\ out'[n + 1] = e /\ \A k \in 1..n : out'[k] = out[k]
      /\ \A k \in 1..n : out[k].stream \in Ids
  BY <1>1, <1>3 DEF ScheduleInv, FeedWhole, FeedInOrder, Popped, Conserved
<1>6. /\ stage = "seal" /\ stage' = stage /\ UNCHANGED <<attached, cursor, lastSeen, streams>>
      /\ Extend(i, e.ts, <<e.phase>>, TRUE)
  BY <1>1, <1>5 DEF SealNext, Popped
<1>7. Len(schedule) = n /\ cursor = 0
  BY <1>6 DEF ScheduleInv, Staged
<1> HIDE DEF n, i
<1>8. <<e.phase>> \in Rows /\ Len(<<e.phase>>) = 1 /\ <<e.phase>>[1] = e.phase
  BY <1>4 DEF Rows
<1>9. /\ Numbered(schedule', nextIdx')
      /\ Len(schedule') = n + 1
      /\ \A k \in 1..n : schedule'[k] = schedule[k]
      /\ schedule'[n + 1] = Entry(i, nextIdx[i], e.ts, e.phase, TRUE)
  <2>1. Numbered(schedule, nextIdx)
    BY DEF ScheduleInv
  <2> QED BY <1>4, <1>6, <1>7, <1>8, <2>1, ExtendKeeps
<1>10. /\ schedule'[n + 1].batch /\ schedule'[n + 1].instrument = i
       /\ schedule'[n + 1].ts = e.ts /\ schedule'[n + 1].phase = e.phase
  BY <1>9 DEF Entry
<1>11. DOMAIN schedule' = 1..(n + 1) /\ DOMAIN schedule = 1..n
  BY <1>7, <1>9 DEF Numbered, ScheduleInv
<1>12. Merged'
  <2>1. ASSUME NEW k \in DOMAIN schedule'  PROVE schedule'[k].batch <=> k <= Len(out')
    <3>1. CASE k = n + 1
      BY <1>5, <1>10, <3>1
    <3>2. CASE k # n + 1
      BY <1>5, <1>7, <1>9, <1>11, <3>2 DEF ScheduleInv, Merged
    <3> QED BY <3>1, <3>2
  <2>2. ASSUME NEW k \in DOMAIN out'
        PROVE  /\ schedule'[k].instrument = streams'[out'[k].stream].instrument
               /\ schedule'[k].phase = out'[k].phase /\ schedule'[k].ts = out'[k].ts
    <3>1. CASE k = n + 1
      BY <1>5, <1>6, <1>10, <3>1 DEF i
    <3>2. CASE k # n + 1
      <4>1. k \in 1..n
        BY <1>5, <3>2
      <4> QED BY <1>5, <1>6, <1>9, <4>1 DEF ScheduleInv, Merged
    <3> QED BY <3>1, <3>2
  <2> QED BY <1>5, <1>9, <2>1, <2>2 DEF Merged
<1>13. Staged'
  <2>1. SealedStreams' = SealedStreams
    BY <1>6 DEF SealedStreams, StreamOf
  <2> QED BY <1>5, <1>6, <1>7, <1>9, <2>1 DEF Staged, ScheduleInv
<1>14. Seen'
  BY <1>6, <1>7 DEF Seen, ScheduleInv
<1>15. TypeOK'
  <2>1. (cursor \in 0..Len(schedule))'
    BY <1>5, <1>6, <1>7, <1>9
  <2>2. Numbered(schedule, nextIdx)'
    BY <1>9 DEF Numbered, Own
  <2>3. (stage \in {"attach", "seal", "run"})'
    BY <1>6
  <2>4. (attached \in [Instruments -> [Trade..Bar -> {s.times : s \in Streams} \cup {<<>>}]])'
    BY <1>6 DEF ScheduleInv, TypeOK
  <2> QED BY <1>14, <2>1, <2>2, <2>3, <2>4, TypesFollow, PTL
<1> QED BY <1>2, <1>9, <1>12, <1>13, <1>14, <1>15 DEF ScheduleInv

LEMMA SealedKeeps ==
  ASSUME ScheduleInv, Sealed
  PROVE  ScheduleInv' /\ Left' = Left
<1>1. /\ UNCHANGED <<feedVars, attached, schedule, nextIdx, cursor, lastSeen>>
      /\ stage = "seal" /\ stage' = "run" /\ Ready = {}
  BY DEF Sealed
<1>2. FeedWhole' /\ Left' = Left
  BY <1>1, SameFeed DEF ScheduleInv
<1>3. Left = {}
  <2>1. CursorsFit(At) /\ HeapFits(Ready, At) /\ Left = Ready \cup Rest(At) /\ WellStreamed
    BY Primes DEF ScheduleInv, FeedWhole, FeedInOrder, FeedInv
  <2>2. ASSUME NEW s \in Ids  PROVE At[s]..(Len0(s) - 1) = {}
    <3>1. At[s] \in Nat /\ Len0(s) \in Nat
      BY <2>1 DEF CursorsFit, WellStreamed, Len0
    <3>2. ~(At[s] < Len0(s))
      BY <1>1, <2>1 DEF HeapFits
    <3> QED BY <3>1, <3>2
  <2>3. \A e : e \notin Rest(At)
    BY <2>2, RestMember
  <2> QED BY <1>1, <2>1, <2>3
<1>4. UNCHANGED <<streams, out, schedule, nextIdx, cursor, lastSeen, primed, attached>>
  BY <1>1 DEF feedVars
<1>5. Numbered(schedule, nextIdx)' /\ Merged' /\ Seen'
  <2>1. Numbered(schedule, nextIdx)'
    BY <1>4 DEF ScheduleInv
  <2> QED BY <1>4, <2>1 DEF ScheduleInv, Merged, Seen
<1>6. Staged'
  <2>1. SealedStreams' = SealedStreams
    BY <1>4 DEF SealedStreams, StreamOf
  <2> QED BY <1>1, <1>2, <1>3, <1>4, <2>1 DEF ScheduleInv, Staged
<1>7. TypeOK'
  BY <1>1, <1>4 DEF ScheduleInv, TypeOK
<1> QED BY <1>2, <1>5, <1>6, <1>7 DEF ScheduleInv

LEMMA PushKeeps ==
  ASSUME ScheduleInv, NEW i \in Instruments, NEW phases \in Row, Push(i, phases)
  PROVE  ScheduleInv' /\ Left' = Left
<1>1. /\ UNCHANGED <<feedVars, attached, stage, cursor, lastSeen>> /\ stage = "run"
      /\ Extend(i, 0, phases, FALSE)
  BY DEF Push
<1>2. FeedWhole' /\ Left' = Left
  BY <1>1, SameFeed DEF ScheduleInv
<1> DEFINE n == Len(schedule)
<1>3. /\ Numbered(schedule', nextIdx') /\ Len(phases) \in 1..2 /\ n \in Nat
      /\ Len(schedule') = n + Len(phases)
      /\ \A k \in 1..n : schedule'[k] = schedule[k]
      /\ \A k \in (n + 1)..Len(schedule') : schedule'[k].batch = FALSE
  <2>1. phases \in Rows /\ Numbered(schedule, nextIdx)
    BY DEF Rows, ScheduleInv
  <2> QED BY <1>1, <2>1, ExtendKeeps
<1>4. DOMAIN schedule' = 1..Len(schedule') /\ DOMAIN schedule = 1..n
  BY <1>3 DEF Numbered, ScheduleInv
<1>5. UNCHANGED <<streams, out, primed, attached, cursor, lastSeen, stage>>
  BY <1>1 DEF feedVars
<1>6. Len(out) \in Nat /\ DOMAIN out = 1..Len(out) /\ Len(out) <= n /\ cursor \in 0..n
  BY <1>3 DEF ScheduleInv, FeedWhole, FeedInOrder, Merged, TypeOK
<1> HIDE DEF n
<1>7. Merged'
  <2>1. ASSUME NEW k \in DOMAIN schedule'  PROVE schedule'[k].batch <=> k <= Len(out')
    <3>1. CASE k \in 1..n
      BY <1>3, <1>4, <1>5, <3>1 DEF ScheduleInv, Merged
    <3>2. CASE k \notin 1..n
      <4>1. k \in (n + 1)..Len(schedule') /\ ~(k <= Len(out))
        BY <1>3, <1>4, <1>6, <3>2
      <4> QED BY <1>3, <1>5, <4>1
    <3> QED BY <3>1, <3>2
  <2>2. ASSUME NEW k \in DOMAIN out'
        PROVE  /\ schedule'[k].instrument = streams'[out'[k].stream].instrument
               /\ schedule'[k].phase = out'[k].phase /\ schedule'[k].ts = out'[k].ts
    <3>1. k \in 1..n /\ k \in DOMAIN out
      BY <1>3, <1>5, <1>6, <2>2
    <3> QED BY <1>3, <1>5, <3>1 DEF ScheduleInv, Merged
  <2> QED BY <1>3, <1>5, <1>6, <2>1, <2>2 DEF Merged
<1>8. Staged'
  <2>1. SealedStreams' = SealedStreams
    BY <1>5 DEF SealedStreams, StreamOf
  <2> QED BY <1>1, <1>2, <1>5, <2>1 DEF ScheduleInv, Staged
<1>9. Seen'
  <2>1. \A k \in 1..cursor : schedule'[k] = schedule[k]
    BY <1>3, <1>6
  <2> QED BY <1>5, <2>1 DEF ScheduleInv, Seen
<1>10. TypeOK'
  <2>1. (cursor \in 0..Len(schedule))'
    BY <1>3, <1>5, <1>6
  <2>2. Numbered(schedule, nextIdx)'
    BY <1>3
  <2>3. (stage \in {"attach", "seal", "run"})'
    BY <1>1
  <2>4. (attached \in [Instruments -> [Trade..Bar -> {s.times : s \in Streams} \cup {<<>>}]])'
    BY <1>5 DEF ScheduleInv, TypeOK
  <2> QED BY <1>9, <2>1, <2>2, <2>3, <2>4, TypesFollow, PTL
<1> QED BY <1>2, <1>3, <1>7, <1>8, <1>9, <1>10 DEF ScheduleInv

LEMMA ApplyKeeps ==
  ASSUME ScheduleInv, Apply
  PROVE  ScheduleInv' /\ Left' = Left
<1> DEFINE entry == schedule[cursor + 1]
<1>1. /\ UNCHANGED <<feedVars, attached, stage, schedule, nextIdx>>
      /\ cursor < Len(schedule) /\ cursor' = cursor + 1
      /\ lastSeen' = IF IsPrint(entry) THEN [lastSeen EXCEPT ![entry.instrument] = entry.idx]
                                       ELSE lastSeen
      /\ stage = "run"
  BY DEF Apply, CursorAfter
<1>2. FeedWhole' /\ Left' = Left
  BY <1>1, SameFeed DEF ScheduleInv
<1>3. UNCHANGED <<streams, out, schedule, nextIdx, primed, attached, stage>>
  BY <1>1 DEF feedVars
<1>4. /\ cursor \in Nat /\ Len(schedule) \in Nat /\ cursor + 1 \in 1..Len(schedule)
      /\ entry \in ScheduleEntry
  <2>1. schedule \in Seq(ScheduleEntry) /\ cursor \in 0..Len(schedule)
    BY DEF ScheduleInv, Numbered, TypeOK
  <2>2. cursor + 1 \in 1..Len(schedule)
    BY <1>1, <2>1
  <2> QED BY <2>1, <2>2
<1>5. entry.instrument \in Instruments /\ entry.idx \in Nat
  BY <1>4 DEF ScheduleEntry
<1> HIDE DEF entry
<1>6. Numbered(schedule, nextIdx)' /\ Merged'
  <2>1. Numbered(schedule, nextIdx)'
    BY <1>3 DEF ScheduleInv
  <2> QED BY <1>3, <2>1 DEF ScheduleInv, Merged
<1>7. Staged'
  <2>1. SealedStreams' = SealedStreams
    BY <1>3 DEF SealedStreams, StreamOf
  <2> QED BY <1>1, <1>2, <1>3, <2>1 DEF ScheduleInv, Staged
<1>8. Seen'
  <2>1. lastSeen \in [Instruments -> Int]
    BY DEF ScheduleInv, Seen
  <2>2. ASSUME NEW i \in Instruments
        PROVE  \/ lastSeen'[i] = -1
               \/ \E k \in 1..cursor' : schedule'[k].instrument = i /\ schedule'[k].idx = lastSeen'[i]
    <3>1. CASE IsPrint(entry) /\ entry.instrument = i
      <4>1. lastSeen'[i] = entry.idx /\ cursor + 1 \in 1..cursor'
        BY <1>1, <1>4, <1>5, <2>1, <3>1
      <4> QED BY <1>3, <3>1, <4>1 DEF entry
    <3>2. CASE ~(IsPrint(entry) /\ entry.instrument = i)
      <4>1. lastSeen'[i] = lastSeen[i]
        BY <1>1, <1>5, <2>1, <3>2
      <4>2. 1..cursor \subseteq 1..cursor'
        BY <1>1, <1>4
      <4> QED BY <1>3, <4>1, <4>2 DEF ScheduleInv, Seen
    <3> QED BY <3>1, <3>2
  <2>3. lastSeen' \in [Instruments -> Int]
    BY <1>1, <1>5, <2>1
  <2> QED BY <2>2, <2>3 DEF Seen
<1>9. TypeOK'
  <2>1. (cursor \in 0..Len(schedule))'
    BY <1>1, <1>3, <1>4
  <2>2. (stage \in {"attach", "seal", "run"})'
    BY <1>1
  <2>3. (attached \in [Instruments -> [Trade..Bar -> {s.times : s \in Streams} \cup {<<>>}]])'
    BY <1>3 DEF ScheduleInv, TypeOK
  <2> QED BY <1>6, <1>8, <2>1, <2>2, <2>3, TypesFollow, PTL
<1> QED BY <1>2, <1>6, <1>7, <1>8, <1>9 DEF ScheduleInv

LEMMA ScheduleStep ==
  ASSUME ScheduleInv, [Next]_vars
  PROVE  ScheduleInv' /\ [Merge!Next]_<<Left, out>>
<1>1. CASE (\E s \in Streams : SetOne(s)) \/ (\E t, q \in Streams : SetTicks(t, q))
  <2>1. ScheduleInv' /\ Left' = Left
    BY <1>1, AttachKeeps
  <2>2. out' = out
    BY <1>1 DEF SetOne, SetTicks, feedVars
  <2> QED BY <2>1, <2>2
<1>2. CASE \E i \in Instruments, phases \in Row : Push(i, phases)
  BY <1>2, PushKeeps DEF Push, feedVars
<1>3. CASE Seal
  BY <1>3, SealKeeps DEF Merge!Next
<1>4. CASE SealNext
  BY <1>4, SealNextKeeps DEF Merge!Next
<1>5. CASE Sealed
  BY <1>5, SealedKeeps DEF Sealed, feedVars
<1>6. CASE Apply
  BY <1>6, ApplyKeeps DEF Apply, feedVars
<1>7. CASE UNCHANGED vars
  <2>1. UNCHANGED <<attached, stage, schedule, nextIdx, cursor, lastSeen, streams, out, primed, feedVars>>
    BY <1>7 DEF vars, feedVars, scheduleVars
  <2>2. FeedWhole' /\ Left' = Left
    BY <2>1, SameFeed DEF ScheduleInv
  <2>3. Numbered(schedule, nextIdx)' /\ SealedStreams' = SealedStreams
    BY <2>1 DEF ScheduleInv, SealedStreams, StreamOf
  <2>4. Merged' /\ Seen' /\ Staged' /\ TypeOK'
    BY <2>1, <2>2, <2>3 DEF ScheduleInv, Merged, Seen, Staged, TypeOK
  <2> QED BY <2>1, <2>2, <2>3, <2>4 DEF ScheduleInv
<1> QED BY <1>1, <1>2, <1>3, <1>4, <1>5, <1>6, <1>7 DEF Next, Driver

\* The strengthened invariant of a schedule: what is attached and what the feed
\* returned agree, stage by stage, and every entry has its instrument's ordinal.
THEOREM ScheduleHolds == Spec => []ScheduleInv
<1>1. ScheduleInv /\ [Next]_vars => ScheduleInv'
  BY ScheduleStep
<1> QED BY <1>1, InitScheduleInv, PTL DEF Spec

\* A session that attaches, seals and pushes uses the feed as it must be used:
\* sealing implements the ordered delivery too (EventSession::seal).
THEOREM ScheduleImplementsMerge == Spec => DeliversInOrder
<1>1. Init => Merge!Init
  BY InitFeedInv DEF Init, FeedInit, Merge!Init
<1>2. ScheduleInv /\ [Next]_vars => [Merge!Next]_<<Left, out>>
  BY ScheduleStep
<1> QED BY <1>1, <1>2, ScheduleHolds, PTL DEF Spec, DeliversInOrder, Merge!Spec

\* An order routed to an instrument is stamped before everything that instrument is
\* still to see: ordinals rise, and what it last saw is an entry already applied.
THEOREM RoutedOrdersWork == Spec => []RoutedOrderMeetsNextPrint
<1>1. ScheduleInv => RoutedOrderMeetsNextPrint
  <2> SUFFICES ASSUME ScheduleInv, stage = "run", cursor < Len(schedule),
                      NEW i \in Instruments, NEW k \in (cursor + 2)..Len(schedule),
                      schedule[k].instrument = i
               PROVE  IF lastSeen[i] >= 0 \/ schedule[cursor + 1].instrument = i
                      THEN SubmissionIdx(i) < schedule[k].idx
                      ELSE SubmissionIdx(i) <= schedule[k].idx
    BY DEF RoutedOrderMeetsNextPrint
  <2>1. /\ schedule \in Seq(ScheduleEntry) /\ cursor \in 0..Len(schedule)
        /\ Numbered(schedule, nextIdx) /\ lastSeen \in [Instruments -> Int]
    BY DEF ScheduleInv, Numbered, TypeOK, Seen
  <2>2. /\ k \in DOMAIN schedule /\ cursor + 1 \in DOMAIN schedule /\ cursor + 1 < k
        /\ \A l \in 1..cursor : l \in DOMAIN schedule /\ l < k
    BY <2>1
  <2>3. schedule[k].idx \in Nat
    <3>1. schedule[k] \in ScheduleEntry
      BY <2>1, <2>2
    <3> QED BY <3>1 DEF ScheduleEntry
  <2>4. CASE schedule[cursor + 1].instrument = i
    BY <2>1, <2>2, <2>4, OrdinalsRise DEF SubmissionIdx
  <2>5. CASE schedule[cursor + 1].instrument # i /\ lastSeen[i] = -1
    BY <2>3, <2>5 DEF SubmissionIdx
  <2>6. CASE schedule[cursor + 1].instrument # i /\ lastSeen[i] # -1
    <3>1. PICK l \in 1..cursor : schedule[l].instrument = i /\ schedule[l].idx = lastSeen[i]
      BY <2>6 DEF ScheduleInv, Seen
    <3>2. schedule[l].idx < schedule[k].idx
      BY <2>1, <2>2, <3>1, OrdinalsRise
    <3> QED BY <2>1, <2>3, <2>6, <3>1, <3>2 DEF SubmissionIdx
  <2> QED BY <2>4, <2>5, <2>6
<1> QED BY <1>1, ScheduleHolds, PTL

\* Of two returned events the earlier precedes the later, and not the other way.
LEMMA ReturnedOnce ==
  ASSUME FeedInOrder, NEW k \in DOMAIN out, NEW l \in DOMAIN out,
         out[k] = out[l] \/ Merge!Precedes(out[k], out[l])
  PROVE  k <= l /\ (out[k] = out[l] => k = l)
<1>1. /\ out \in Seq(Merge!Event) /\ k \in Nat /\ l \in Nat
      /\ \A a, b \in DOMAIN out : a < b => Merge!Precedes(out[a], out[b])
  BY DEF FeedInOrder, Merge!InOrder
<1>2. out[k] \in Merge!Event /\ out[l] \in Merge!Event
  BY <1>1
<1>3. /\ ~(out[k] = out[l] /\ Merge!Precedes(out[k], out[l]))
      /\ ~(out[k] = out[l] /\ Merge!Precedes(out[l], out[k]))
      /\ ~(Merge!Precedes(out[k], out[l]) /\ Merge!Precedes(out[l], out[k]))
  BY <1>2 DEF Merge!Precedes, Merge!Event
<1>4. ~(l < k) /\ (out[k] = out[l] => ~(k < l))
  BY <1>1, <1>3
<1> QED BY <1>1, <1>4

LEMMA SealLosesNothing == ASSUME ScheduleInv PROVE NothingLost
<1> SUFFICES ASSUME stage = "run", NEW i \in Instruments, NEW p \in Trade..Bar
             PROVE  LET times == attached[i][p] IN
                    \E place \in [DOMAIN times -> BatchOf(i, p)] :
                      /\ \A m, n \in DOMAIN times : m < n => place[m] < place[n]
                      /\ \A m \in DOMAIN times : schedule[place[m]].ts = times[m]
                      /\ \A k \in BatchOf(i, p) : \E m \in DOMAIN times : place[m] = k
  BY DEF NothingLost
<1> DEFINE times == attached[i][p]
           s == StreamId(i, p)
           place == [m \in DOMAIN times |-> CHOOSE k \in DOMAIN out : out[k] = EventAt(s, m - 1)]
<1>1. /\ FeedInOrder /\ Conserved /\ Left = {} /\ streams = SealedStreams /\ WellStreamed
      /\ Ids = 1..(4 * N)
  BY SealedOnce DEF ScheduleInv, FeedWhole, FeedInOrder, FeedInv, Staged, Ids
<1>2. s \in Ids /\ streams[s] = StreamOf(i, p)
  BY <1>1, SealedOnce
<1>3. times = streams[s].times /\ times \in Seq(Nat)
  BY <1>1, <1>2 DEF StreamOf, WellStreamed
<1>4. Len(times) = Len0(s) /\ DOMAIN times = 1..Len(times) /\ Len(times) \in Nat
  BY <1>3 DEF Len0
<1> HIDE DEF s, times
<1>5. ASSUME NEW m \in DOMAIN times
      PROVE  /\ place[m] \in DOMAIN out /\ out[place[m]] = EventAt(s, m - 1)
             /\ m - 1 \in Nat /\ m - 1 < Len0(s)
  <2>1. m - 1 \in Nat /\ m - 1 < Len0(s)
    BY <1>4
  <2>2. \E k \in DOMAIN out : out[k] = EventAt(s, m - 1)
    BY <1>1, <1>2, <2>1 DEF Conserved
  <2> QED BY <2>1, <2>2
<1> HIDE DEF place
<1>6. \A k : k \in DOMAIN out => k \in DOMAIN schedule /\ schedule[k].batch
  <2>1. out \in Seq(Merge!Event) /\ schedule \in Seq(ScheduleEntry)
    BY <1>1 DEF FeedInOrder, ScheduleInv, Numbered
  <2>2. DOMAIN out = 1..Len(out) /\ DOMAIN schedule = 1..Len(schedule)
          /\ Len(out) \in Nat /\ Len(schedule) \in Nat
    BY <2>1
  <2> QED BY <2>2 DEF ScheduleInv, Merged
<1>7. ASSUME NEW m \in DOMAIN times
      PROVE  place[m] \in BatchOf(i, p) /\ schedule[place[m]].ts = times[m]
  <2> DEFINE k == place[m]
  <2>1. k \in DOMAIN out /\ out[k].stream = s /\ out[k].phase = streams[s].phase
          /\ out[k].ts = streams[s].times[m - 1 + 1]
    BY <1>5, EventFields
  <2>2. /\ schedule[k].instrument = streams[s].instrument /\ schedule[k].phase = streams[s].phase
        /\ schedule[k].ts = out[k].ts
    BY <2>1 DEF ScheduleInv, Merged
  <2>3. m - 1 + 1 = m
    BY <1>4
  <2>4. streams[s].instrument = i /\ streams[s].phase = p
    BY <1>2 DEF StreamOf
  <2> QED BY <1>3, <1>6, <2>1, <2>2, <2>3, <2>4 DEF BatchOf
<1>8. ASSUME NEW m \in DOMAIN times, NEW n \in DOMAIN times, m < n
      PROVE  place[m] < place[n]
  <2>1. m - 1 < n - 1
    BY <1>4, <1>8
  <2>2. Merge!Precedes(EventAt(s, m - 1), EventAt(s, n - 1))
    BY <1>1, <1>2, <1>5, <2>1, StreamInOrder
  <2>3. EventAt(s, m - 1) # EventAt(s, n - 1)
    <3>1. EventAt(s, m - 1).seq = m - 1 /\ EventAt(s, n - 1).seq = n - 1
      BY EventFields
    <3> QED BY <1>5, <2>1, <3>1
  <2>4. place[m] <= place[n]
    BY <1>1, <1>5, <2>2, ReturnedOnce
  <2>5. place[m] # place[n]
    BY <1>5, <2>3
  <2>6. place[m] \in Nat /\ place[n] \in Nat
    BY <1>1, <1>5 DEF FeedInOrder
  <2> QED BY <2>4, <2>5, <2>6
<1>9. ASSUME NEW k \in BatchOf(i, p)  PROVE \E m \in DOMAIN times : place[m] = k
  <2>1. k \in DOMAIN schedule /\ schedule[k].batch /\ schedule[k].instrument = i /\ schedule[k].phase = p
    BY DEF BatchOf
  <2>2. k \in DOMAIN out
    <3>1. out \in Seq(Merge!Event) /\ schedule \in Seq(ScheduleEntry)
      BY <1>1 DEF FeedInOrder, ScheduleInv, Numbered
    <3>2. k \in 1..Len(schedule) /\ k <= Len(out) /\ DOMAIN out = 1..Len(out) /\ Len(out) \in Nat
      BY <2>1, <3>1 DEF ScheduleInv, Merged
    <3> QED BY <3>2
  <2> DEFINE r == out[k].stream
             n == out[k].seq
  <2>3. /\ r \in Ids /\ n \in Nat /\ n < Len0(r) /\ out[k] = EventAt(r, n)
        /\ streams[r].instrument = i /\ out[k].phase = p
    BY <1>1, <2>1, <2>2 DEF Conserved, ScheduleInv, Merged
  <2> HIDE DEF r, n
  <2>4. streams[r].phase = p
    BY <2>3, EventFields
  <2>5. r = s
    <3>1. PICK j \in Instruments, q \in Trade..Bar : r = StreamId(j, q)
      BY <1>1, <2>3, SealedOnce
    <3>2. streams[r] = StreamOf(j, q)
      BY <1>1, <3>1, SealedOnce
    <3>3. j = i /\ q = p
      BY <2>3, <2>4, <3>2 DEF StreamOf
    <3> QED BY <3>1, <3>3 DEF s
  <2>6. n + 1 \in DOMAIN times /\ n + 1 - 1 = n
    BY <1>4, <2>3, <2>5
  <2>7. place[n + 1] \in DOMAIN out /\ out[place[n + 1]] = out[k]
    BY <1>5, <2>3, <2>5, <2>6
  <2>8. place[n + 1] = k
    BY <1>1, <2>2, <2>7, ReturnedOnce
  <2> QED BY <2>6, <2>8
<1>10. place \in [DOMAIN times -> BatchOf(i, p)]
  <2>1. place = [m \in DOMAIN times |-> place[m]]
    BY DEF place
  <2> QED BY <1>7, <2>1
<1> QED BY <1>7, <1>8, <1>9, <1>10 DEF times

LEMMA BarsComeLast == ASSUME ScheduleInv PROVE BarSeesItsTicks
<1> SUFFICES ASSUME NEW k \in DOMAIN schedule, NEW l \in DOMAIN schedule, k < l,
                    schedule[k].batch, schedule[l].batch,
                    schedule[k].phase = Bar, schedule[l].phase # Bar
             PROVE  schedule[k].ts < schedule[l].ts
  BY DEF BarSeesItsTicks
<1>1. out \in Seq(Merge!Event) /\ schedule \in Seq(ScheduleEntry) /\ Merge!InOrder
  BY DEF ScheduleInv, FeedWhole, FeedInOrder, Numbered
<1>2. k \in DOMAIN out /\ l \in DOMAIN out
  <2>1. k <= Len(out) /\ l <= Len(out) /\ k \in Nat \ {0} /\ l \in Nat \ {0}
    BY <1>1 DEF ScheduleInv, Merged
  <2> QED BY <1>1, <2>1
<1>3. Merge!Precedes(out[k], out[l]) /\ out[k] \in Merge!Event /\ out[l] \in Merge!Event
  BY <1>1, <1>2 DEF Merge!InOrder
<1>4. /\ schedule[k].ts = out[k].ts /\ schedule[l].ts = out[l].ts
      /\ out[k].phase = Bar /\ out[l].phase # Bar
  BY <1>2 DEF ScheduleInv, Merged
<1> QED BY <1>3, <1>4 DEF Merge!Precedes, Merge!Event, Bar

\* The schedule is everything attached and pushed: sealing loses, doubles and
\* reorders nothing, bars come behind what they summarize, and each instrument's
\* clock counts its own events.
THEOREM SchedulesAreWhole == Spec => []ScheduleIsWhole
<1>1. ScheduleInv => OrdinalsCountOwnEvents
  BY DEF ScheduleInv, Numbered, Own, OrdinalsCountOwnEvents
<1>2. ScheduleInv => ScheduleIsWhole
  BY <1>1, SealLosesNothing, BarsComeLast DEF ScheduleInv, ScheduleIsWhole
<1> QED BY <1>2, ScheduleHolds, PTL
=============================================================================
