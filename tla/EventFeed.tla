------------------------------ MODULE EventFeed ------------------------------
(***************************************************************************)
(* EventFeed: the k-way merge of data/feed.rs, with a cursor per stream    *)
(* and a heap that holds one event of each stream that has any left.       *)
(*                                                                         *)
(* A stream carries events of one kind of one instrument, as               *)
(* EventSession::seal registers them, and its id is its position: seal     *)
(* draws both from counters that advance together.                         *)
(***************************************************************************)
EXTENDS Integers, Sequences, FiniteSets

CONSTANTS
  Instruments,
  Streams,     \* the streams a caller may register
  MaxStreams   \* bound: streams registered

SortedTimes(times) == \A k, l \in DOMAIN times : k <= l => times[k] <= times[l]

\* phase() of a trade, a quote, a depth snapshot and a bar.
Trade == 0
Quote == 1
Depth == 2
Bar   == 3

\* The caller's arrays are sorted: add_stream asserts it in debug builds.
ASSUME StreamAssumption ==
  /\ \A s \in Streams : /\ s.instrument \in Instruments
                        /\ s.phase \in Trade..Bar
                        /\ s.times \in Seq(Nat)
                        /\ SortedTimes(s.times)
  /\ MaxStreams \in Nat

VARIABLES
  streams,     \* the registered streams
  cursors,     \* events pulled from each of them
  heap,        \* the events pulled and not delivered
  primed,      \* the heap has been filled
  out          \* what next() has returned so far

feedVars == <<streams, cursors, heap, primed, out>>

FeedInit ==
  /\ streams = <<>> /\ cursors = <<>>
  /\ heap = {} /\ primed = FALSE /\ out = <<>>

\* Event n of stream s, counted from zero.
EventAt(s, n) ==
  [ts |-> streams[s].times[n + 1], phase |-> streams[s].phase, stream |-> s, seq |-> n]

\* Mutant: the stream is compared before the phase.
MutBefore(d, e) ==
  \/ d.ts < e.ts
  \/ d.ts = e.ts /\ d.stream < e.stream
  \/ d.ts = e.ts /\ d.stream = e.stream /\ d.seq < e.seq

\* The heap's order: Entry::key.
Before(d, e) ==
  LET Less(a, b, rest) == a < b \/ (a = b /\ rest) IN
  Less(d.ts, e.ts, Less(d.phase, e.phase, Less(d.stream, e.stream, d.seq < e.seq)))

\* add_stream
AddStream(stream) ==
  /\ ~primed /\ Len(streams) < MaxStreams
  /\ streams' = Append(streams, stream)
  /\ cursors' = Append(cursors, 0)
  /\ UNCHANGED <<heap, primed, out>>

Unread(s, at) == at[s] < Len(streams[s].times)

\* Mutant: an equal timestamp behind the delivered event is taken for a duplicate.
MutPulled(S, at) ==
  {EventAt(s, at[s]) : s \in {r \in S : /\ Unread(r, at)
                                        /\ at[r] > 0 => EventAt(r, at[r]).ts > EventAt(r, at[r] - 1).ts}}

\* advance(slot), for each of the slots S of a feed whose cursors stand at `at`:
\* the events pushed on the heap, and where the cursors then stand.
Pulled(S, at) == {EventAt(s, at[s]) : s \in {r \in S : Unread(r, at)}}
Moved(S, at) ==
  [s \in DOMAIN at |-> IF s \in S /\ Unread(s, at) THEN at[s] + 1 ELSE at[s]]

\* The heap and the cursors a call of next() starts from: prime fills the heap.
Ready == IF primed THEN heap ELSE Pulled(DOMAIN streams, cursors)
At    == IF primed THEN cursors ELSE Moved(DOMAIN streams, cursors)

\* next(): the least event of the heap, whose stream is advanced.
PopNext ==
  /\ \E e \in Ready :
       /\ \A d \in Ready \ {e} : Before(e, d)
       /\ heap' = (Ready \ {e}) \cup Pulled({e.stream}, At)
       /\ cursors' = Moved({e.stream}, At)
       /\ out' = Append(out, e)
  /\ primed' = TRUE
  /\ UNCHANGED streams

FeedNext == (\E s \in Streams : AddStream(s)) \/ PopNext

FeedSpec == FeedInit /\ [][FeedNext]_feedVars

\* What is not delivered: the heap and the events no cursor has reached.
Left ==
  heap \cup UNION {{EventAt(s, n) : n \in cursors[s]..(Len(streams[s].times) - 1)} :
                     s \in DOMAIN streams}

Merge == INSTANCE OrderedDelivery WITH pending <- Left, delivered <- out

\* The merge is the abstract ordered delivery: each event that next() returns is
\* the least of all that are registered and not yet returned.
DeliversInOrder == Merge!Spec
=============================================================================
