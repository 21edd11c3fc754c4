------------------------------- MODULE Reports -------------------------------
(***************************************************************************)
(* The runner's bookkeeping (portfolio/runner.rs): what it keeps of every     *)
(* bar and of every trade the kernel hands it, and the report it makes of     *)
(* them at the end; beside it the accumulators of metrics/ driven over the   *)
(* same bars.  What the kernel does on a bar is a sample: the equity it is     *)
(* marked to and the trades it closes.  One action is one bar.                 *)
(***************************************************************************)
EXTENDS Metrics

CONSTANTS
  Capital,      \* initial capital
  Samples,      \* [equity, gap, trades]: what the kernel marks and closes on a bar
  LastTrades,   \* what finalize_all may still close: sequences of trades
  MaxBars       \* bound: bars

VARIABLES plan, book

Empty == [equity |-> <<>>, falls |-> <<>>, returns |-> <<>>, trades |-> <<>>, times |-> <<>>,
          peak |-> Capital, halves |-> [d \in BOOLEAN |-> NoReturns], streaming |-> NoReturns,
          records |-> NoTrades, tracked |-> TrackerAt(Capital), stream |-> NoEquity(Capital), ended |-> FALSE]

Init == plan = [capital |-> Capital] /\ book = Empty

\* A closed trade goes to the list and to the accumulators.
Booked(b, t) ==
  [b EXCEPT !.trades = Append(@, t), !.streaming = Updated(@, t.ret),
            !.halves[t.long] = Updated(@, t.ret), !.records = Recorded(@, t)]

\* step: trades first, then the curve, the drawdown from the peak so far, and
\* the return over the bar before.
Stepped(b, sample) ==
  LET c == FoldLeft(Booked, b, sample.trades)
      peak == GreaterOf(b.peak, sample.equity)
      before == IF b.equity = <<>> THEN 0 ELSE Last(b.equity)
      now == IF b.times = <<>> THEN 0 ELSE Last(b.times) + sample.gap
  IN [c EXCEPT !.equity = Append(@, sample.equity), !.peak = peak,
               !.falls = Append(@, DrawdownFrom(peak, sample.equity)),
               !.returns = Append(@, IF before = 0 THEN 0 ELSE (1000 * (sample.equity - before)) \div before),
               !.times = Append(@, now),
               !.tracked = Tracked(@, sample.equity), !.stream = EquityUpdated(@, sample.equity)]

Bar(sample) ==
  /\ ~book.ended /\ Len(book.equity) < MaxBars
  /\ book' = Stepped(book, sample)
  /\ UNCHANGED plan

\* finish: what is still open is closed into the list, not into the curve.
Finish(left) ==
  /\ ~book.ended /\ book.equity # <<>>
  /\ book' = [FoldLeft(Booked, book, left) EXCEPT !.ended = TRUE]
  /\ UNCHANGED plan

Next == (\E sample \in Samples : Bar(sample)) \/ (\E left \in LastTrades : Finish(left))

Final == IF book.equity = <<>> THEN Capital ELSE Last(book.equity)
Report == EngineMetrics(book.falls, book.returns, book.trades, Capital, Final)
OnePass == Finalized(book.records, book.stream, Capital, Final, Streamed(book.returns))
Span == DrawdownSpan(book.falls, book.times)
Curve == <<Capital>> \o book.equity

-----------------------------------------------------------------------------
SameVariance(s, returns) == s.m = s.n * TotalOf(LAMBDA r : r * r, returns) - s.sum * s.sum

(* The one-pass variance is the two-pass one, and merging what two workers    *)
(* accumulated gives what one would have, in either order.                   *)
StreamsAgree ==
  /\ SameVariance(book.streaming, Map(LAMBDA t : t.ret, book.trades))
  /\ Merged(book.halves[TRUE], book.halves[FALSE]) = book.streaming
  /\ Merged(book.halves[FALSE], book.halves[TRUE]) = book.streaming

\* The same mean over the same losses, but divided by one return fewer: of one sign,
\* and smaller by the root of (n - 1) / n.
OneReturnFewer(streamed, batch) ==
  IF batch.kind = "Finite" THEN [streamed EXCEPT !.divisor = @ + 1] = batch ELSE streamed = batch

SameRatios(s, batch) ==
  /\ StreamedSharpe(s) = batch.sharpe
  /\ OneReturnFewer(StreamedSortino(s), batch.sortino)
  /\ StreamedOmega(s) = batch.omega \/ (s.up = 0 /\ s.down = 0)

(* The two estimators, over the same two returns or more: one Sharpe; Sortinos *)
(* of one mean and one sum of squared losses, which the accumulator spreads     *)
(* over n - 1 returns and the batch over n (streaming.rs:210, engine.rs:638),   *)
(* so that they are infinite, zero and of a sign together and never otherwise   *)
(* apart; one omega, but where there is neither gain nor loss.                *)
RatiosAgree == Len(book.returns) >= 2 => SameRatios(Streamed(book.returns), RiskMetrics(book.returns))

SameFall(worst, longest) ==
  /\ worst = book.stream.worst /\ worst = book.tracked.worst /\ worst = MaxDrawdown(Curve)
  /\ book.equity # <<>> => MaxDrawdown(book.equity) <= worst
  /\ book.stream.longest = book.tracked.longest /\ longest <= book.stream.longest
  /\ DrawdownCurve(Curve)[book.tracked.at + 1] = book.tracked.worst
  /\ longest > 0 <=> worst > 0
  /\ \A run \in FallingRuns(book.falls) : run[2] - run[1] < longest

(* Four ways to a drawdown: the runner's curve, the accumulator, the tracker   *)
(* and the curve recomputed agree on the depth; the engine counts the bars     *)
(* below the peak, the one-pass forms also those level with it.              *)
DrawdownsAgree == SameFall(Greatest(book.falls), DrawdownDuration(book.falls))

CoverTheFalls(periods) ==
  /\ \A i \in DOMAIN periods :
       /\ periods[i].worst > 0
       /\ periods[i].start < periods[i].last
       /\ i < Len(periods) => periods[i].last < periods[i + 1].start
       /\ \A k \in periods[i].start..periods[i].last : Curve[k] <= Curve[periods[i].start]
  /\ {k \in DOMAIN book.falls : book.falls[k] > 0} \subseteq
       UNION {periods[i].start..(periods[i].last - 1) : i \in DOMAIN periods}
  /\ Greatest(Map(LAMBDA p : p.worst, periods)) = Greatest(book.falls)

(* The drawdown periods are the falling bars: disjoint, in order, each begins  *)
(* at its peak, and together they hold every bar below one.                  *)
PeriodsCoverTheFalls == CoverTheFalls(DrawdownPeriods(Curve))

(* The span a drawdown is reported with is that of a stretch as long as the    *)
(* duration it is reported with.                                            *)
SpanIsADuration ==
  IF Greatest(book.falls) = 0 \/ Len(book.times) < 2 THEN Span = -1
  ELSE \E run \in FallingRuns(book.falls) :
         /\ run[2] - run[1] + 1 = DrawdownDuration(book.falls)
         /\ Span = book.times[run[2]] - book.times[run[1]]

AddUp(whole, reasons, sides, r) ==
  /\ \A f \in DOMAIN book.records \cap DOMAIN whole : book.records[f] = whole[f]
  /\ \A f \in {"n", "wins", "losses", "even", "won", "lost", "held", "ret"} :
       /\ whole[f] = MapThenSumSet(LAMBDA k : reasons[k][f], DOMAIN reasons)
       /\ whole[f] = sides[TRUE][f] + sides[FALSE][f]
  /\ whole.largestWin = GreaterOf(sides[TRUE].largestWin, sides[FALSE].largestWin)
  /\ whole.largestWin <= whole.won /\ whole.largestLoss <= whole.lost
  /\ r.open + r.closed = r.total /\ r.wins + r.losses <= r.closed
  /\ r.won - r.lost + r.openPnL = whole.won - whole.lost
  /\ r.exposed <= Len(book.equity)

(* The list of trades adds up however it is cut: by reason, by direction, one  *)
(* at a time; a trade left open is in the report's totals alone.               *)
TradesAgree == AddUp(Statistics(book.trades), ByReason(book.trades), ByDirection(book.trades), Report)

SameReport(lists, once) ==
  lists.open = 0 =>
    /\ \A f \in DOMAIN once \ {"sharpe", "sortino"} : lists[f] = once[f]
    /\ Len(book.returns) >= 2 =>
         lists.sharpe = once.sharpe /\ OneReturnFewer(once.sortino, lists.sortino)

(* A run that leaves no trade open is reported alike by the engine, from its    *)
(* lists, and by the accumulator, in one pass: counts, streaks, averages, depth *)
(* and recovery, and the ratios, up to their year and the Sortino's divisor.   *)
(* The two compute other figures differently and are not compared there:        *)
(* average win and loss (of the capital in one, of the entry in the other) and   *)
(* the duration of a drawdown, which DrawdownsAgree relates.                    *)
OnePassReportAgrees == SameReport(Report, OnePass)

SameShort(short, pairs, curve) ==
  /\ short.wins + short.losses <= short.total
  /\ Len(book.trades) % 2 = 0 => pairs.wins + pairs.losses = pairs.total
  /\ pairs.won - pairs.lost = short.won - short.lost
  /\ Last(curve) = Capital + short.won - short.lost
  /\ MaxDrawdown(curve) > 0 => short.losses > 0

(* The simulators' short reports: every record counted once where records are  *)
(* trades; two by two where they are legs, as long as every leg has its pair. *)
ShortReportsAgree ==
  SameShort(SimulatorMetrics(book.falls, book.trades), PairsMetrics(book.falls, book.trades),
            TradeCurve(Capital, book.trades))

UsualSpacing(spacings) ==
  \A i \in DOMAIN spacings :
    2 * Cardinality({k \in DOMAIN spacings : spacings[k] = spacings[i]}) > Len(spacings) =>
      PeriodsPerYear(0, book.times, 8, 4, 365) = PeriodsPerYear(0, <<0, spacings[i]>>, 8, 4, 365)

(* A gap the night leaves moves no annualization: where more than half the      *)
(* spacings are equal, they are the median.                                  *)
GapsDoNotCount == UsualSpacing(Spacings(book.times))

ReportsAgree ==
  /\ StreamsAgree
  /\ RatiosAgree
  /\ DrawdownsAgree
  /\ PeriodsCoverTheFalls
  /\ SpanIsADuration
  /\ TradesAgree
  /\ OnePassReportAgrees
  /\ ShortReportsAgree
  /\ GapsDoNotCount
=============================================================================
