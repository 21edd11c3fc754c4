----------------------------- MODULE TradingDay -----------------------------
(***************************************************************************)
(* The session tracker of intraday strategies (core/session.rs): bars in    *)
(* time order, each handled with its neighbours' timestamps.  Timestamps    *)
(* are minutes.                                                             *)
(***************************************************************************)
EXTENDS Integers, Sequences, FiniteSets, SequencesExt, FiniteSetsExt

CONSTANTS
  MarketOpen, MarketClose,   \* minutes of the local day
  SquareoffBefore,           \* squareoff_minutes_before_close
  Offset,                    \* timezone offset, in minutes
  DayMinutes,                \* minutes of a day
  Gaps,                      \* minutes from one bar to the next
  Ranges,                    \* [open, high, low] of a bar
  MaxBars

\* Local timestamps are not negative, bars go forward and open within their range.
ASSUME DayAssumption ==
  /\ MarketOpen \in Nat /\ MarketClose \in Nat /\ SquareoffBefore \in Nat
  /\ Offset \in Nat /\ DayMinutes \in Nat \ {0} /\ MaxBars \in Nat
  /\ Gaps \subseteq Nat
  /\ Ranges \subseteq {r \in [open: Int, high: Int, low: Int] : r.low <= r.open /\ r.open <= r.high}

VARIABLES
  bars,         \* bars so far; all but the last are handled
  tracker,      \* SessionTracker
  told          \* per handled bar: [start, squareoff, end, in, high, low]

dayVars == <<bars, tracker, told>>

DateOf(ts) == (ts + Offset) \div DayMinutes
MinuteOf(ts) == (ts + Offset) % DayMinutes
SquareoffMinute == IF MarketClose > SquareoffBefore THEN MarketClose - SquareoffBefore ELSE 0
WithinHours(ts) == MinuteOf(ts) >= MarketOpen /\ MinuteOf(ts) < MarketClose

\* is_session_start: a new day past the open, or the open crossed.
IsSessionStart(prev, ts) ==
  /\ MinuteOf(ts) >= MarketOpen
  /\ DateOf(prev) # DateOf(ts) \/ MinuteOf(prev) < MarketOpen

\* is_session_end: past the close, or the next bar is of another day; `next`
\* holds its timestamp, or nothing at the end of data.
IsSessionEnd(ts, next) ==
  MinuteOf(ts) >= MarketClose \/ \E n \in next : DateOf(n) # DateOf(ts)

MutReset(t, bar) ==
  [t EXCEPT !.date = DateOf(bar.ts), !.high = bar.open, !.low = bar.open, !.in = TRUE]

\* reset_session
Reset(t, bar) ==
  [date |-> DateOf(bar.ts), high |-> bar.open, low |-> bar.open, in |-> TRUE, squared |-> FALSE]

\* update: a new session, its range, its square-off, its end.
Starts(t, bar, prev) ==
  IF t.date = DateOf(bar.ts) /\ prev # {} THEN \E p \in prev : IsSessionStart(p, bar.ts)
  ELSE WithinHours(bar.ts)

Ranged(t, bar) ==
  IF t.in THEN [t EXCEPT !.high = IF bar.high > @ THEN bar.high ELSE @,
                         !.low = IF bar.low < @ THEN bar.low ELSE @]
  ELSE t

Update(t, bar, prev, next) ==
  LET start   == Starts(t, bar, prev)
      opened  == Ranged(IF start THEN Reset(t, bar) ELSE t, bar)
      reached == MinuteOf(bar.ts) >= SquareoffMinute
      end     == IsSessionEnd(bar.ts, next)
  IN [next |-> [opened EXCEPT !.squared = @ \/ reached, !.in = @ /\ ~end],
      told |-> [start |-> start, squareoff |-> reached /\ ~opened.squared /\ opened.in,
                end |-> end, in |-> opened.in, high |-> opened.high, low |-> opened.low]]

DayInit ==
  /\ bars = <<>> /\ told = <<>>
  /\ tracker = [date |-> -1, high |-> -1, low |-> 99, in |-> FALSE, squared |-> FALSE]

Handle(next) ==
  LET i == Len(bars)
      u == Update(tracker, bars[i], IF i = 1 THEN {} ELSE {bars[i - 1].ts}, next) IN
  tracker' = u.next /\ told' = Append(told, u.told)

NextBar(gap, range) ==
  /\ Len(bars) < MaxBars /\ (bars = <<>> \/ Len(told) < Len(bars))
  /\ LET ts == (IF bars = <<>> THEN 0 ELSE Last(bars).ts) + gap IN
     /\ bars' = Append(bars, [ts |-> ts, open |-> range.open, high |-> range.high, low |-> range.low])
     /\ IF bars = <<>> THEN UNCHANGED <<tracker, told>> ELSE Handle({ts})

LastBar ==
  /\ bars # <<>> /\ Len(told) < Len(bars)
  /\ Handle({})
  /\ UNCHANGED bars

DayNext == (\E gap \in Gaps, range \in Ranges : NextBar(gap, range)) \/ LastBar

-----------------------------------------------------------------------------
(* Properties *)

SameDay(i) == {k \in 1..i : DateOf(bars[k].ts) = DateOf(bars[i].ts)}
InHours(i) == {k \in SameDay(i) : WithinHours(bars[k].ts)}
PastSquareoff(i) == {k \in SameDay(i) : MinuteOf(bars[k].ts) >= SquareoffMinute}

\* A day's session starts once, at its first bar in trading hours; it is
\* squared off once, at its first bar from the square-off time on, however
\* late that bar comes, where squaring off does not come before the opening;
\* and until it ends its range is that of its own bars (SessionTracker::update).
OneSessionADay ==
  \A i \in DOMAIN told :
    /\ told[i].start <=> InHours(i) # {} /\ i = Min(InHours(i))
    /\ MarketOpen <= SquareoffMinute =>
         (told[i].squareoff
            <=> InHours(i) # {} /\ PastSquareoff(i) # {} /\ i = Min(PastSquareoff(i)))
    /\ told[i].in =>
         LET session == Min(InHours(i))..i IN
         /\ told[i].high = Max({bars[k].high : k \in session})
         /\ told[i].low = Min({bars[k].low : k \in session})
=============================================================================
