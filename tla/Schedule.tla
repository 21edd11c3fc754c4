------------------------------ MODULE Schedule ------------------------------
(***************************************************************************)
(* The schedule of an EventSession: the arrays attached to its instruments *)
(* merged through an EventFeed by seal(), live events pushed behind them   *)
(* in arrival order, and the cursor that apply_current advances.  Each     *)
(* instrument has its own clock, the ordinal of its events, which orders   *)
(* are stamped with.                                                       *)
(*                                                                         *)
(* seal() is a loop over the feed; its turns are actions of their own      *)
(* (`stage` = "seal") and nothing comes between them.  A push before the   *)
(* seal is the seal and then the push.                                     *)
(***************************************************************************)
EXTENDS EventFeed

CONSTANTS
  MaxPushes    \* bound: live events pushed

\* Instruments are indices, in the order they were added.
ASSUME ScheduleAssumption ==
  /\ IsFiniteSet(Instruments) /\ Instruments = 1..Cardinality(Instruments)
  /\ MaxPushes \in Nat

VARIABLES
  attached,    \* the times of each instrument's events of each phase
  stage,       \* "attach", "seal", then "run"
  schedule,    \* the entries, in the order they will be applied
  nextIdx,     \* local_idx_next
  cursor,      \* entries applied
  lastSeen     \* ordinal of each instrument's last applied print, or -1

scheduleVars == <<attached, stage, schedule, nextIdx, cursor, lastSeen>>
vars == <<feedVars, scheduleVars>>

Init ==
  /\ FeedInit
  /\ attached = [i \in Instruments |-> [p \in Trade..Bar |-> <<>>]]
  /\ stage = "attach" /\ schedule = <<>>
  /\ nextIdx = [i \in Instruments |-> 0]
  /\ cursor = 0
  /\ lastSeen = [i \in Instruments |-> -1]

\* set_bars and set_depth; what they do after the seal is read by nobody.
SetOne(s) ==
  /\ stage = "attach" /\ s.phase \in {Bar, Depth}
  /\ attached' = [attached EXCEPT ![s.instrument][s.phase] = s.times]
  /\ UNCHANGED <<feedVars, stage, schedule, nextIdx, cursor, lastSeen>>

\* set_ticks: the rows with a print are trades, those with two sides are quotes.
SetTicks(t, q) ==
  /\ stage = "attach" /\ t.phase = Trade /\ q.phase = Quote
  /\ t.instrument = q.instrument
  /\ attached' = [attached EXCEPT ![t.instrument][Trade] = t.times,
                                  ![t.instrument][Quote] = q.times]
  /\ UNCHANGED <<feedVars, stage, schedule, nextIdx, cursor, lastSeen>>

StreamOf(i, p) == [instrument |-> i, phase |-> p, times |-> attached[i][p]]

\* The streams seal() registers: bars, then trades and quotes, then snapshots,
\* each by instrument.  It skips some that are empty, which orders nothing.
SealedStreams ==
  LET n == Cardinality(Instruments) IN
     [i \in 1..n |-> StreamOf(i, Bar)]
  \o [k \in 1..(2 * n) |-> StreamOf((k + 1) \div 2, IF k % 2 = 1 THEN Trade ELSE Quote)]
  \o [i \in 1..n |-> StreamOf(i, Depth)]

\* seal(), called by the driver or by the first push: the calls of add_stream.
Seal ==
  /\ stage = "attach"
  /\ stage' = "seal"
  /\ streams' = SealedStreams
  /\ cursors' = [s \in DOMAIN SealedStreams |-> 0]
  /\ UNCHANGED <<heap, primed, out, attached, schedule, nextIdx, cursor, lastSeen>>

Entry(i, idx, ts, phase, batch) ==
  [instrument |-> i, idx |-> idx, ts |-> ts, phase |-> phase, batch |-> batch]

\* Entries of one row take the next ordinals of their instrument.
Extend(i, ts, phases, batch) ==
  /\ schedule' = schedule \o
       [k \in DOMAIN phases |-> Entry(i, nextIdx[i] + k - 1, ts, phases[k], batch)]
  /\ nextIdx' = [nextIdx EXCEPT ![i] = @ + Len(phases)]

\* One turn of seal's loop.
SealNext ==
  /\ stage = "seal"
  /\ PopNext
  /\ LET e == out'[Len(out')] IN
     Extend(streams[e.stream].instrument, e.ts, <<e.phase>>, TRUE)
  /\ UNCHANGED <<attached, stage, cursor, lastSeen>>

Sealed ==
  /\ stage = "seal" /\ Ready = {}
  /\ stage' = "run"
  /\ UNCHANGED <<feedVars, attached, schedule, nextIdx, cursor, lastSeen>>

\* push_tick (a print, a quote or both), push_bar and push_depth: arrival order
\* is the schedule, whatever the timestamps.
Push(i, phases) ==
  /\ stage = "run" /\ Len(schedule) - Len(out) < MaxPushes
  /\ Extend(i, 0, phases, FALSE)
  /\ UNCHANGED <<feedVars, attached, stage, cursor, lastSeen>>

Row == {<<Trade>>, <<Quote>>, <<Trade, Quote>>, <<Bar>>, <<Depth>>}

IsPrint(entry) == entry.phase \in {Trade, Bar}

\* Mutant: the early return for quotes and snapshots forgets the cursor.
MutCursorAfter(entry) == IF IsPrint(entry) THEN cursor + 1 ELSE cursor

\* A quote or a snapshot returns early and still moves the cursor.
CursorAfter(entry) == cursor + 1

\* apply_current, as far as the schedule goes: only a print is remembered.
Apply ==
  /\ stage = "run" /\ cursor < Len(schedule)
  /\ LET entry == schedule[cursor + 1] IN
     /\ lastSeen' = IF IsPrint(entry)
                    THEN [lastSeen EXCEPT ![entry.instrument] = entry.idx]
                    ELSE lastSeen
     /\ cursor' = CursorAfter(entry)
  /\ UNCHANGED <<feedVars, attached, stage, schedule, nextIdx>>

\* Mutant: the ordinal of the event on which the order was placed, wherever it goes.
MutSubmissionIdx(i) == schedule[cursor + 1].idx

\* submission_idx of an order the strategy places on instrument i while it
\* observes the current entry.
SubmissionIdx(i) ==
  IF schedule[cursor + 1].instrument = i THEN schedule[cursor + 1].idx
  ELSE IF lastSeen[i] = -1 THEN 0 ELSE lastSeen[i]

Driver == Seal \/ SealNext \/ Sealed \/ Apply

Next ==
  \/ \E s \in Streams : SetOne(s)
  \/ \E t, q \in Streams : SetTicks(t, q)
  \/ \E i \in Instruments, phases \in Row : Push(i, phases)
  \/ Driver

\* The driver seals, and then applies entries while there are any.
Spec == Init /\ [][Next]_vars /\ WF_vars(Driver)

-----------------------------------------------------------------------------
\* Ordinals and the cursor stay within the schedule.
TypeOK ==
  /\ stage \in {"attach", "seal", "run"}
  /\ attached \in [Instruments -> [Trade..Bar -> {s.times : s \in Streams} \cup {<<>>}]]
  /\ \A k \in DOMAIN schedule : /\ schedule[k].instrument \in Instruments
                                /\ schedule[k].phase \in Trade..Bar
  /\ cursor \in 0..Len(schedule)
  /\ \A i \in Instruments : lastSeen[i] < nextIdx[i]

\* Where the attached events of an instrument's phase are in the schedule.
BatchOf(i, p) ==
  {k \in DOMAIN schedule : schedule[k].batch /\ schedule[k].instrument = i
                             /\ schedule[k].phase = p}

\* Sealing loses, doubles and reorders nothing: each attached array is in the
\* schedule once, in its own order (EventSession::seal).
NothingLost ==
  stage = "run" =>
    \A i \in Instruments, p \in Trade..Bar :
      LET times == attached[i][p] IN
      \E place \in [DOMAIN times -> BatchOf(i, p)] :
        /\ \A m, n \in DOMAIN times : m < n => place[m] < place[n]
        /\ \A m \in DOMAIN times : schedule[place[m]].ts = times[m]
        /\ \A k \in BatchOf(i, p) : \E m \in DOMAIN times : place[m] = k

\* A bar closing at t comes after every attached event of time t or before, of
\* every instrument (MarketEvent::phase).
BarSeesItsTicks ==
  \A k, l \in DOMAIN schedule :
    (k < l /\ schedule[k].batch /\ schedule[l].batch
       /\ schedule[k].phase = Bar /\ schedule[l].phase # Bar)
    => schedule[k].ts < schedule[l].ts

\* An instrument's ordinals count its own events, merged or pushed, and nothing
\* else: the kernel tells by them what an order has already seen.
OrdinalsCountOwnEvents ==
  \A k \in DOMAIN schedule :
    schedule[k].idx =
      Cardinality({l \in 1..(k - 1) : schedule[l].instrument = schedule[k].instrument})

\* The schedule is everything attached or pushed, in order, each event once and
\* numbered on its own instrument's clock.
ScheduleIsWhole == TypeOK /\ NothingLost /\ BarSeesItsTicks /\ OrdinalsCountOwnEvents

\* An order routed to an instrument is stamped before every event that instrument
\* is still to see: stamped from another clock it would match late, or never.
\* Only one that has not printed may meet its stamp, 0 (submission_idx).
RoutedOrderMeetsNextPrint ==
  (stage = "run" /\ cursor < Len(schedule)) =>
    \A i \in Instruments, k \in (cursor + 2)..Len(schedule) :
      schedule[k].instrument = i =>
        IF lastSeen[i] >= 0 \/ schedule[cursor + 1].instrument = i
        THEN SubmissionIdx(i) < schedule[k].idx
        ELSE SubmissionIdx(i) <= schedule[k].idx

\* Everything attached or pushed is applied in the end, quotes and snapshots
\* included (seal, push_entry, apply_current).
EverythingApplied == <>[](stage = "run" /\ cursor = Len(schedule))
=============================================================================
