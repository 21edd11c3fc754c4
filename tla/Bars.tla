-------------------------------- MODULE Bars --------------------------------
(***************************************************************************)
(* Bar aggregation (data/aggregate.rs, flow_bars.rs, renko.rs): streaming   *)
(* builders fed one record at a time, each emitting the bars its own        *)
(* boundary completes.  Every builder of the run reads the same tape.       *)
(***************************************************************************)
EXTENDS Integers, Sequences, FiniteSets, SequencesExt, FiniteSetsExt

CONSTANTS
  Feeds,        \* kinds of tape: records that may come next
                \* [gap, open, high, low, close, volume, signed], gap since the last
  Specs,        \* builders: [unit, step, drained]; drained: the caller empties
                \* next_pending after every push
  Epoch,        \* timestamp before the first record
  DayLength,    \* timestamps per day
  Align,        \* align_offset_ns
  MaxBricks,    \* MAX_BRICKS_PER_RECORD
  MaxRecords,   \* bound on the tape
  None

Timed    == {"Time", "Month", "Year"}
Counted  == {"Tick", "Volume", "Value"}
Imbalanced == {"TickImbalance", "VolumeImbalance", "ValueImbalance"}
Running  == {"TickRuns", "VolumeRuns", "ValueRuns"}

Shape ==
  [gap: Int, open: Int, high: Int, low: Int, close: Int, volume: Int, signed: Int]
Partial == [open: Int, high: Int, low: Int, close: Int, volume: Int]

\* Prices and volumes are counted in units of their own, and a boundary has a
\* size (BarSpec::new refuses a step of zero, resolved_brick a brick of none).
ASSUME BarsAssumption ==
  /\ \A f \in DOMAIN Feeds : Feeds[f] \subseteq Shape
  /\ Specs \subseteq [unit: Timed \cup Counted \cup Imbalanced \cup Running \cup {"Renko"},
                     step: Nat \ {0}, drained: BOOLEAN]
  /\ Epoch \in Int /\ DayLength \in Nat \ {0} /\ Align \in Int
  /\ MaxBricks \in Nat \ {0} /\ MaxRecords \in Nat
  /\ None \notin Int /\ None \notin Partial

\* Records are pushed in ascending time order, as PyBarAggregator asks.
ASSUME TapeAssumption == \A f \in DOMAIN Feeds : \A shape \in Feeds[f] : shape.gap >= 0

VARIABLES
  feed,         \* the tape's kind
  tape,         \* SourceRecords read
  builder,      \* per spec, its state
  emitted,      \* per spec: bars handed to the caller, each with the records it stands for
  flushed       \* end of data

barVars == <<feed, tape, builder, emitted, flushed>>

Abs(x) == IF x < 0 THEN -x ELSE x
Sign(x) == IF x < 0 THEN -1 ELSE 1
Larger(x, y) == IF x > y THEN x ELSE y
Smaller(x, y) == IF x < y THEN x ELSE y

-----------------------------------------------------------------------------
(* Partial bars *)

Start(rec) ==
  [open |-> rec.open, high |-> rec.high, low |-> rec.low, close |-> rec.close,
   volume |-> rec.volume]

Absorb(p, rec) ==
  [p EXCEPT !.high = Larger(@, rec.high), !.low = Smaller(@, rec.low), !.close = rec.close,
            !.volume = @ + rec.volume]

Held(p, rec) == IF p = None THEN Start(rec) ELSE Absorb(p, rec)

Stamped(p, ts) ==
  [ts |-> ts, open |-> p.open, high |-> p.high, low |-> p.low, close |-> p.close,
   volume |-> p.volume]

-----------------------------------------------------------------------------
(* Windows of time *)

\* Days since the epoch to <<year, month>>, and the first of a month back.
CivilFromDays(days) ==
  LET z   == days + 719468
      era == z \div 146097
      doe == z % 146097
      yoe == (doe - doe \div 1460 + doe \div 36524 - doe \div 146096) \div 365
      doy == doe - (365 * yoe + yoe \div 4 - yoe \div 100)
      mp  == (5 * doy + 2) \div 153
      m   == IF mp < 10 THEN mp + 3 ELSE mp - 9
      y   == yoe + era * 400
  IN <<IF m <= 2 THEN y + 1 ELSE y, m>>

MutDaysFromCivil(year, m) ==
  LET era == year \div 400
      yoe == year - era * 400
      doy == (153 * (IF m > 2 THEN m - 3 ELSE m + 9) + 2) \div 5
  IN era * 146097 + yoe * 365 + yoe \div 4 - yoe \div 100 + doy - 719468

DaysFromCivil(year, m) ==
  LET y   == IF m <= 2 THEN year - 1 ELSE year
      era == y \div 400
      yoe == y - era * 400
      doy == (153 * (IF m > 2 THEN m - 3 ELSE m + 9) + 2) \div 5
  IN era * 146097 + yoe * 365 + yoe \div 4 - yoe \div 100 + doy - 719468

DayOf(ts) == (ts + Align) \div DayLength

WindowOf(spec, ts) ==
  LET civil == CivilFromDays(DayOf(ts)) IN
  CASE spec.unit = "Time"  -> (ts + Align) \div spec.step
    [] spec.unit = "Month" -> (civil[1] * 12 + civil[2] - 1) \div spec.step
    [] spec.unit = "Year"  -> civil[1] \div spec.step

WindowEnd(spec, window) ==
  LET next == (window + 1) * spec.step IN
  CASE spec.unit = "Time"  -> next - Align
    [] spec.unit = "Month" -> DaysFromCivil(next \div 12, (next % 12) + 1) * DayLength - Align
    [] spec.unit = "Year"  -> DaysFromCivil(next, 1) * DayLength - Align

\* The record that opens a later window completes the bar before it.
TimePush(spec, b, rec) ==
  LET window == WindowOf(spec, rec.ts) IN
  IF b.window = window
  THEN [next |-> [b EXCEPT !.partial = Absorb(@, rec)], out |-> <<>>]
  ELSE [next |-> [b EXCEPT !.window = window, !.partial = Start(rec)],
        out  |-> IF b.partial = None THEN <<>>
                 ELSE <<Stamped(b.partial, WindowEnd(spec, b.window))>>]

-----------------------------------------------------------------------------
(* Thresholds *)

Magnitude(spec, rec) ==
  CASE spec.unit \in {"Tick", "TickImbalance", "TickRuns"} -> 1
    [] spec.unit \in {"Volume", "VolumeImbalance", "VolumeRuns"} -> rec.volume
    [] spec.unit \in {"Value", "ValueImbalance", "ValueRuns"} -> rec.close * rec.volume

\* The crossing record belongs to the bar it completes.
CountPush(spec, b, rec) ==
  LET total == b.total + Magnitude(spec, rec)
      held  == Held(b.partial, rec) IN
  IF total >= spec.step
  THEN [next |-> [b EXCEPT !.total = 0, !.partial = None, !.lastTs = rec.ts],
        out  |-> <<Stamped(held, rec.ts)>>]
  ELSE [next |-> [b EXCEPT !.total = total, !.partial = held, !.lastTs = rec.ts],
        out  |-> <<>>]

\* The feed's split when known; else the tick rule.
MutTickRule(b, rec) == IF b.prevClose # None /\ rec.close < b.prevClose THEN -1 ELSE 1
TickRule(b, rec) ==
  CASE b.prevClose = None -> 1
    [] b.prevClose # None /\ rec.close = b.prevClose -> b.prevSign
    [] OTHER -> Sign(rec.close - b.prevClose)

FlowComplete(spec, buy, sell) ==
  IF spec.unit \in Imbalanced THEN Abs(buy - sell) >= spec.step
  ELSE Larger(buy, sell) >= spec.step

FlowPush(spec, b, rec) ==
  LET known == rec.signed # 0
      sign  == IF known THEN Sign(rec.signed) ELSE TickRule(b, rec)
      buy   == IF sign > 0 THEN b.buy + Magnitude(spec, rec) ELSE b.buy
      sell  == IF sign > 0 THEN b.sell ELSE b.sell + Magnitude(spec, rec)
      held  == Held(b.partial, rec)
      seen  == [b EXCEPT !.prevClose = rec.close, !.lastTs = rec.ts,
                         !.prevSign = IF known THEN @ ELSE sign]
  IN IF FlowComplete(spec, buy, sell)
     THEN [next |-> [seen EXCEPT !.partial = None, !.buy = 0, !.sell = 0],
           out  |-> <<Stamped(held, rec.ts)>>]
     ELSE [next |-> [seen EXCEPT !.partial = held, !.buy = buy, !.sell = sell], out |-> <<>>]

-----------------------------------------------------------------------------
(* Renko *)

Snap(spec, price) == (price \div spec.step) * spec.step

Brick(spec, rec, from, up, volume) ==
  LET to == IF up THEN from + spec.step ELSE from - spec.step IN
  [ts |-> rec.ts, open |-> from, high |-> Larger(from, to), low |-> Smaller(from, to),
   close |-> to, volume |-> volume]

Regrid(spec, level, close, capped) == IF capped THEN Snap(spec, close) ELSE level

\* push queues every brick of the record's move and hands out the first; the
\* first record only sets the grid.
RenkoPush(spec, b, rec) ==
  IF b.anchor = None
  THEN [next |-> [b EXCEPT !.anchor = Snap(spec, rec.close)], out |-> <<>>]
  ELSE LET steps  == Abs(rec.close - b.anchor) \div spec.step
           bricks == Smaller(steps, MaxBricks)
           up     == rec.close > b.anchor
           level(i) == IF up THEN b.anchor + i * spec.step ELSE b.anchor - i * spec.step
           queue  == b.pending \o
             [i \in 1..bricks |-> Brick(spec, rec, level(i - 1), up,
                                        IF i = bricks THEN rec.volume ELSE 0)]
       IN IF steps = 0 THEN [next |-> b, out |-> <<>>]
          ELSE [next |-> [b EXCEPT !.anchor = Regrid(spec, level(bricks), rec.close, bricks < steps),
                                   !.pending = Tail(queue)],
                out  |-> <<Head(queue)>>]

-----------------------------------------------------------------------------
Fresh ==
  [partial |-> None, window |-> None, total |-> 0, buy |-> 0, sell |-> 0, prevClose |-> None,
   prevSign |-> 1, lastTs |-> 0, anchor |-> None, pending |-> <<>>]

\* builder_for_with: which builder a unit gets.
PushInto(spec, b, rec) ==
  CASE spec.unit \in Timed -> TimePush(spec, b, rec)
    [] spec.unit \in Counted -> CountPush(spec, b, rec)
    [] spec.unit \in Imbalanced \cup Running -> FlowPush(spec, b, rec)
    [] spec.unit = "Renko" -> RenkoPush(spec, b, rec)

\* The caller's loop: push, then next_pending until it is empty.
Fed(spec, b, rec) ==
  LET pushed == PushInto(spec, b, rec) IN
  IF spec.drained
  THEN [next |-> [pushed.next EXCEPT !.pending = <<>>], out |-> pushed.out \o pushed.next.pending]
  ELSE pushed

\* Records a bar completed by the n-th push stands for.
UpTo(spec, n) == IF spec.unit \in Timed THEN n - 1 ELSE n

\* flush: the bar in progress, or the next brick a caller never took.
Flushed(spec, b) ==
  CASE spec.unit = "Renko" -> SubSeq(b.pending, 1, Smaller(1, Len(b.pending)))
    [] spec.unit # "Renko" /\ b.partial = None -> <<>>
    [] OTHER -> <<Stamped(b.partial, IF spec.unit \in Timed THEN WindowEnd(spec, b.window)
                                     ELSE b.lastTs)>>

Entries(bars, upTo) == [k \in DOMAIN bars |-> [bar |-> bars[k], upTo |-> upTo]]

BarsInit ==
  /\ feed \in DOMAIN Feeds
  /\ tape = <<>> /\ flushed = FALSE
  /\ builder = [s \in Specs |-> Fresh]
  /\ emitted = [s \in Specs |-> <<>>]

Now == IF tape = <<>> THEN Epoch ELSE Last(tape).ts

PushRecord(shape) ==
  /\ ~flushed /\ Len(tape) < MaxRecords
  /\ LET rec == [ts |-> Now + shape.gap, open |-> shape.open, high |-> shape.high,
                 low |-> shape.low, close |-> shape.close, volume |-> shape.volume,
                 signed |-> shape.signed]
         fed == [s \in Specs |-> Fed(s, builder[s], rec)] IN
     /\ tape' = Append(tape, rec)
     /\ builder' = [s \in Specs |-> fed[s].next]
     /\ emitted' = [s \in Specs |-> emitted[s] \o Entries(fed[s].out, UpTo(s, Len(tape) + 1))]
  /\ UNCHANGED <<feed, flushed>>

Flush ==
  /\ ~flushed
  /\ flushed' = TRUE
  /\ emitted' = [s \in Specs |-> emitted[s] \o Entries(Flushed(s, builder[s]), Len(tape))]
  /\ builder' = [s \in Specs |-> [builder[s] EXCEPT !.partial = None, !.window = None,
                                    !.total = 0, !.buy = 0, !.sell = 0,
                                    !.pending = IF @ = <<>> THEN @ ELSE Tail(@)]]
  /\ UNCHANGED <<feed, tape>>

BarsNext == (\E shape \in Feeds[feed] : PushRecord(shape)) \/ Flush

-----------------------------------------------------------------------------
(* Properties *)

Summary(lo, hi) ==
  [open   |-> tape[lo].open,
   high   |-> Max({tape[i].high : i \in lo..hi}),
   low    |-> Min({tape[i].low : i \in lo..hi}),
   close  |-> tape[hi].close,
   volume |-> SumFunction([i \in lo..hi |-> tape[i].volume])]

Bared(bar) ==
  [open |-> bar.open, high |-> bar.high, low |-> bar.low, close |-> bar.close,
   volume |-> bar.volume]

Builders == {s \in Specs : s.unit # "Renko"}
Bricks == {s \in Specs : s.unit = "Renko"}

From(s, k) == IF k = 1 THEN 1 ELSE emitted[s][k - 1].upTo + 1
OpenFrom(s) == From(s, Len(emitted[s]) + 1)

\* Every record is in exactly one bar of each builder, in order, and the bar
\* sums up exactly its own records; what is not in a bar yet is in the partial
\* one (BarBuilder::push, flush).
BarsPartitionTheTape ==
  \A s \in Builders :
    /\ \A k \in DOMAIN emitted[s] :
         LET e == emitted[s][k] IN From(s, k) <= e.upTo /\ Bared(e.bar) = Summary(From(s, k), e.upTo)
    /\ IF OpenFrom(s) > Len(tape) THEN builder[s].partial = None
       ELSE ~flushed /\ builder[s].partial = Summary(OpenFrom(s), Len(tape))

\* The civil calendar, counted from the years and months it is made of; months
\* are numbered through, January of the year y being 12 * y.
IsLeap(y) == y % 4 = 0 /\ (y % 100 # 0 \/ y % 400 = 0)
LeapDaysTo(y) == (y - 1) \div 4 - (y - 1) \div 100 + (y - 1) \div 400
DaysBefore == <<0, 31, 59, 90, 120, 151, 181, 212, 243, 273, 304, 334>>
FirstOf(y, m) ==
  365 * (y - 1970) + LeapDaysTo(y) - LeapDaysTo(1970) + DaysBefore[m]
    + (IF m > 2 /\ IsLeap(y) THEN 1 ELSE 0)
FirstOfMonth(n) == FirstOf(n \div 12, (n % 12) + 1)

\* Years about as many days from 1970 as `day`, and the month it lies in.
YearsNear(day) ==
  {1970 + k : k \in Smaller(day \div 365, day \div 366) - 1..Larger(day \div 365, day \div 366) + 1}
MonthsNear(day) == UNION {12 * y..12 * y + 11 : y \in YearsNear(day)}
Covers(n, day) == FirstOfMonth(n) <= day /\ day < FirstOfMonth(n + 1)
MonthOf(day) == CHOOSE n \in MonthsNear(day) : Covers(n, day)

\* The window a record belongs to, by the calendar.
Window(s, ts) ==
  CASE s.unit = "Time"  -> (ts + Align) \div s.step
    [] s.unit = "Month" -> MonthOf(DayOf(ts)) \div s.step
    [] s.unit = "Year"  -> (MonthOf(DayOf(ts)) \div 12) \div s.step

\* A bar labeled t holds only what happened before t, all of one window; no
\* later bar reaches back before t, and the record that completed it is not
\* before t (aggregate.rs: no look-ahead by construction).
NoBarLooksAhead ==
  \A s \in {s \in Specs : s.unit \in Timed} : \A k \in DOMAIN emitted[s] :
    LET e == emitted[s][k] IN
    /\ \A i \in From(s, k)..e.upTo :
         tape[i].ts < e.bar.ts /\ Window(s, tape[i].ts) = Window(s, tape[e.upTo].ts)
    /\ \A i \in (e.upTo + 1)..Len(tape) : tape[i].ts >= e.bar.ts

\* The direction of a record: what the feed tells, else that of the last
\* change of price on which it was silent, a buy before any.
Changes(i) == {k \in 2..i : tape[k].signed = 0 /\ tape[k].close # tape[k - 1].close}
DirectionOf(i) ==
  IF tape[i].signed # 0 THEN Sign(tape[i].signed)
  ELSE IF Changes(i) = {} THEN 1
  ELSE Sign(tape[Max(Changes(i))].close - tape[Max(Changes(i)) - 1].close)

Moved(s, lo, hi, way) ==
  SumFunction([i \in lo..hi |-> IF DirectionOf(i) = way THEN Magnitude(s, tape[i]) ELSE 0])

\* What a builder waits for, over a stretch of the tape.
Enough(s, lo, hi) ==
  LET buy == Moved(s, lo, hi, 1)  sell == Moved(s, lo, hi, -1) IN
  CASE s.unit \in Counted    -> buy + sell >= s.step
    [] s.unit \in Imbalanced -> Abs(buy - sell) >= s.step
    [] s.unit \in Running    -> buy >= s.step \/ sell >= s.step

\* Threshold bars close on the record that reaches the threshold, no later and
\* no sooner, counting from the record behind the last bar; signs come from
\* the whole tape (CountBarBuilder, FlowBarBuilder).
ThresholdsAreTight ==
  \A s \in {s \in Builders : s.unit \notin Timed} :
    /\ \A k \in DOMAIN emitted[s] :
         LET e == emitted[s][k]  lo == From(s, k) IN
         /\ \A i \in lo..(e.upTo - 1) : ~Enough(s, lo, i)
         /\ Enough(s, lo, e.upTo) \/ (flushed /\ k = Len(emitted[s]))
         /\ e.bar.ts = tape[e.upTo].ts
    /\ \A i \in OpenFrom(s)..Len(tape) : ~Enough(s, OpenFrom(s), i)

\* Between two pushes of a caller that empties next_pending the grid stands
\* within a brick of the price; every brick is one brick high, on the grid, and
\* goes on from the one before unless a burst was capped (RenkoBarBuilder).
BricksTrackThePrice ==
  \A s \in {s \in Bricks : s.drained} :
    /\ tape # <<>> => Abs(Last(tape).close - builder[s].anchor) < s.step
    /\ \A k \in DOMAIN emitted[s] :
         LET b == emitted[s][k].bar IN
         Abs(b.close - b.open) = s.step /\ b.open % s.step = 0
    /\ \A k \in 2..Len(emitted[s]) :
         LET a == emitted[s][k - 1]  b == emitted[s][k] IN
         \/ b.bar.open = a.bar.close
         \/ Cardinality({i \in DOMAIN emitted[s] : emitted[s][i].upTo = a.upTo}) = MaxBricks

\* Every builder's bars are the tape's: each record once, each bar when it is due.
BarsAreRight == BarsPartitionTheTape /\ ThresholdsAreTight /\ BricksTrackThePrice
=============================================================================
