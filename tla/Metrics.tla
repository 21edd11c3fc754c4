------------------------------- MODULE Metrics -------------------------------
(***************************************************************************)
(* The figures of a finished run, each as the code computes it: in one pass  *)
(* (metrics/streaming.rs, metrics/drawdown.rs), over the whole curve           *)
(* (portfolio/engine.rs), over the list of trades (metrics/trade_stats.rs),    *)
(* and the short forms the array simulators report.                          *)
(*                                                                         *)
(* Arithmetic is exact: a mean is kept as its sum, and a sum of squared       *)
(* deviations `m2` over n values as n * m2.  Drawdowns are thousandths,        *)
(* rounded down.  A ratio is Zero, Infinite, or its two parts.                *)
(***************************************************************************)
EXTENDS Integers, Sequences, FiniteSets, SequencesExt, FiniteSetsExt

GreaterOf(a, b) == IF a > b THEN a ELSE b
LesserOf(a, b) == IF a < b THEN a ELSE b
Abs(x) == IF x < 0 THEN -x ELSE x
Total(seq) == FoldLeft(+, 0, seq)
Map(f(_), seq) == [i \in 1..Len(seq) |-> f(seq[i])]
TotalOf(f(_), seq) == Total(Map(f, seq))
Greatest(seq) == FoldLeft(GreaterOf, 0, seq)
Only(seq, P(_)) == SelectSeq(seq, P)

Zero == [kind |-> "Zero"]
Infinite == [kind |-> "Infinite"]
Ratio(over, under) == [kind |-> "Finite", over |-> over, under |-> under]

\* A gain over a loss: with nothing to divide by, a gain is infinite.
GainOver(gain, loss) == IF loss > 0 THEN Ratio(gain, loss) ELSE IF gain > 0 THEN Infinite ELSE Zero
\* A mean over the root of a mean square, up to a power of the number of returns and
\* of their year: what the returns sum to, what their squares do, and how many the
\* squares are divided by.
OverDeviation(sum, squares, divisor) ==
  [kind |-> "Finite", over |-> sum, squares |-> squares, divisor |-> divisor]
\* An average over nothing is undefined.
Average(sum, n) == IF n > 0 THEN Ratio(sum, n) ELSE Zero

-----------------------------------------------------------------------------
(* StreamingMetrics over returns *)

NoReturns == [n |-> 0, sum |-> 0, m |-> 0, downside |-> 0, up |-> 0, down |-> 0, ups |-> 0, downs |-> 0]

\* A plausible slip: both deviations from the old mean.
MutUpdated(s, x) ==
  [n |-> s.n + 1, sum |-> s.sum + x,
   m |-> IF s.n = 0 THEN 0
         ELSE ((s.n + 1) * s.m * s.n + (s.n + 1) * (s.n * x - s.sum) * (s.n * x - s.sum)) \div (s.n * s.n),
   downside |-> s.downside + LesserOf(x, 0) * LesserOf(x, 0),
   up |-> s.up + GreaterOf(x, 0), down |-> s.down + LesserOf(x, 0),
   ups |-> s.ups + (IF x > 0 THEN 1 ELSE 0), downs |-> s.downs + (IF x < 0 THEN 1 ELSE 0)]

\* update: one deviation from the mean before the value, one from the mean after.
Updated(s, x) ==
  [n |-> s.n + 1, sum |-> s.sum + x,
   m |-> IF s.n = 0 THEN 0 ELSE ((s.n + 1) * s.m + (s.n * x - s.sum) * (s.n * x - s.sum)) \div s.n,
   downside |-> s.downside + LesserOf(x, 0) * LesserOf(x, 0),
   up |-> s.up + GreaterOf(x, 0), down |-> s.down + LesserOf(x, 0),
   ups |-> s.ups + (IF x > 0 THEN 1 ELSE 0), downs |-> s.downs + (IF x < 0 THEN 1 ELSE 0)]

Streamed(returns) == FoldLeft(Updated, NoReturns, returns)

\* merge: two halves of a series, in either order.
Merged(a, b) ==
  LET n == a.n + b.n
      apart == b.sum * a.n - a.sum * b.n
  IN CASE b.n = 0 -> a
       [] b.n > 0 /\ a.n = 0 -> b
       [] OTHER ->
            [n |-> n, sum |-> a.sum + b.sum,
             m |-> (n * a.m * b.n + n * b.m * a.n + apart * apart) \div (a.n * b.n),
             downside |-> a.downside + b.downside, up |-> a.up + b.up, down |-> a.down + b.down,
             ups |-> a.ups + b.ups, downs |-> a.downs + b.downs]

\* Sharpe and Sortino, up to the annualization factor: the mean over the deviation
\* and over the downside deviation, both of which divide by n - 1.
StreamedSharpe(s) == IF s.n < 2 \/ s.m = 0 THEN Zero ELSE OverDeviation(s.sum, s.m, s.n - 1)
StreamedSortino(s) ==
  CASE s.n >= 2 /\ s.downside > 0 -> OverDeviation(s.sum, s.downside, s.n - 1)
    [] s.sum > 0 /\ ~(s.n >= 2 /\ s.downside > 0) -> Infinite
    [] OTHER -> Zero
StreamedOmega(s) ==
  CASE s.down # 0 -> Ratio(s.up, -s.down)
    [] s.down = 0 /\ s.up > 0 -> Infinite
    [] OTHER -> Zero

\* risk_metrics: the three from the whole series, in two passes; the deviation
\* divides by n - 1, the downside deviation by n.
RatiosOf(n, sum, squares, downside, up, down) ==
  [sharpe  |-> IF squares > 0 THEN OverDeviation(sum, squares \div n, n - 1) ELSE Zero,
   sortino |-> IF downside > 0 THEN OverDeviation(sum, downside, n) ELSE GainOver(sum, 0),
   omega   |-> IF down = 0 /\ up = 0 THEN Ratio(1, 1) ELSE GainOver(up, down)]
RiskMetrics(returns) ==
  IF Len(returns) < 2 THEN [sharpe |-> Zero, sortino |-> Zero, omega |-> Ratio(1, 1)]
  ELSE RatiosOf(Len(returns), Total(returns),
         TotalOf(LAMBDA r : (Len(returns) * r - Total(returns)) * (Len(returns) * r - Total(returns)), returns),
         TotalOf(LAMBDA r : LesserOf(r, 0) * LesserOf(r, 0), returns),
         TotalOf(LAMBDA r : GreaterOf(r, 0), returns),
         TotalOf(LAMBDA r : Abs(LesserOf(r, 0)), returns))

-----------------------------------------------------------------------------
(* Drawdowns *)

DrawdownFrom(peak, equity) == IF peak > 0 THEN (1000 * (peak - equity)) \div peak ELSE 0

\* StreamingMetrics::update_equity: a bar that makes no new peak counts.
NoEquity(capital) == [peak |-> capital, worst |-> 0, since |-> 0, longest |-> 0]
EquityUpdated(s, equity) ==
  LET fresh == equity > s.peak
      peak == GreaterOf(s.peak, equity)
      since == IF fresh THEN 0 ELSE s.since + 1
  IN [peak |-> peak, since |-> since, longest |-> GreaterOf(s.longest, since),
      worst |-> GreaterOf(s.worst, DrawdownFrom(peak, equity))]

\* DrawdownTracker, started with a first value: positions count from 0.
TrackerAt(value) ==
  [peak |-> value, now |-> 0, worst |-> 0, duration |-> 0, longest |-> 0, start |-> 0, at |-> 0, count |-> 1]
Tracked(t, value) ==
  LET fall == DrawdownFrom(t.peak, value) IN
  IF value > t.peak
  THEN [t EXCEPT !.count = @ + 1, !.peak = value, !.now = 0, !.duration = 0, !.start = t.count]
  ELSE [t EXCEPT !.count = @ + 1, !.now = fall, !.duration = @ + 1,
                 !.worst = GreaterOf(@, fall), !.at = IF fall > t.worst THEN t.count ELSE @,
                 !.longest = GreaterOf(@, t.duration + 1)]

\* calculate_drawdown_curve: the peak starts at the curve's own first point.
PeakBy(curve, i) == FoldLeft(GreaterOf, curve[1], SubSeq(curve, 1, i))
DrawdownCurve(curve) == [i \in 1..Len(curve) |-> DrawdownFrom(PeakBy(curve, i), curve[i])]
MaxDrawdown(curve) == Greatest(DrawdownCurve(curve))

\* drawdown_periods: [start, last, worst], each from its peak to the bar before
\* the next one.
DrawdownPeriods(curve) ==
  LET Walk(w, i) ==
        LET fall == DrawdownFrom(w.peak, curve[i])
            ended == [start |-> w.start, last |-> i - 1, worst |-> w.worst]
        IN IF curve[i] > w.peak
           THEN [w EXCEPT !.peak = curve[i], !.at = i, !.in = FALSE,
                          !.worst = IF w.in THEN 0 ELSE @,
                          !.done = IF w.in THEN Append(@, ended) ELSE @]
           ELSE [w EXCEPT !.in = @ \/ fall > 0, !.start = IF ~w.in /\ fall > 0 THEN w.at ELSE @,
                          !.worst = GreaterOf(@, fall)]
      begun == [peak |-> curve[1], at |-> 1, in |-> FALSE, start |-> 1, worst |-> 0, done |-> <<>>]
      walked == FoldLeft(Walk, begun, [k \in 1..(Len(curve) - 1) |-> k + 1])
  IN IF Len(curve) < 2 THEN <<>>
     ELSE IF walked.in THEN Append(walked.done, [start |-> walked.start, last |-> Len(curve), worst |-> walked.worst])
     ELSE walked.done

\* The engine's duration: consecutive bars below the peak.
FallingRuns(falls) ==
  {r \in (1..Len(falls)) \X (1..Len(falls)) : r[1] <= r[2] /\ \A i \in r[1]..r[2] : falls[i] > 0}
DrawdownDuration(falls) ==
  FoldLeft(LAMBDA d, fall : [run |-> IF fall > 0 THEN d.run + 1 ELSE 0,
                             longest |-> GreaterOf(d.longest, IF fall > 0 THEN d.run + 1 ELSE 0)],
           [run |-> 0, longest |-> 0], falls).longest

\* max_drawdown_duration_secs: the first of the runs with most bars, read off
\* the clock; -1 for none.
DrawdownSpan(falls, times) ==
  LET Walk(w, i) ==
        LET start == IF w.start = 0 THEN i ELSE w.start
            longer == w.best = <<>> \/ (i - start) > w.best[2] - w.best[1]
        IN IF falls[i] > 0
           THEN [start |-> start, best |-> IF longer THEN <<start, i>> ELSE w.best]
           ELSE [w EXCEPT !.start = 0]
      best == FoldLeft(Walk, [start |-> 0, best |-> <<>>], [i \in 1..Len(falls) |-> i]).best
  IN IF Len(times) < 2 \/ best = <<>> THEN -1 ELSE times[best[2]] - times[best[1]]

-----------------------------------------------------------------------------
(* Trades: [pnl, ret, held, reason, long, entry, exit, size] *)

Won(t) == t.pnl > 0
Lost(t) == t.pnl < 0
IsOpen(t) == t.reason = "EndOfData"
PnLOf(t) == t.pnl

\* record_trade, one trade at a time; a breakeven trade ends no streak.
NoTrades == [n |-> 0, wins |-> 0, losses |-> 0, won |-> 0, lost |-> 0, held |-> 0, heldWon |-> 0, heldLost |-> 0,
             ret |-> 0, best |-> <<>>, inWins |-> 0, inLosses |-> 0, mostWins |-> 0, mostLosses |-> 0]
Widened(extent, x) == IF extent = <<>> THEN <<x, x>> ELSE <<LesserOf(extent[1], x), GreaterOf(extent[2], x)>>
Count(b) == IF b THEN 1 ELSE 0
Recorded(s, t) ==
  LET inWins == IF Won(t) THEN s.inWins + 1 ELSE IF Lost(t) THEN 0 ELSE s.inWins
      inLosses == IF Lost(t) THEN s.inLosses + 1 ELSE IF Won(t) THEN 0 ELSE s.inLosses
  IN [n |-> s.n + 1, held |-> s.held + t.held, ret |-> s.ret + t.ret, best |-> Widened(s.best, t.ret),
      wins |-> s.wins + Count(Won(t)), losses |-> s.losses + Count(Lost(t)),
      won |-> s.won + GreaterOf(t.pnl, 0), lost |-> s.lost + Abs(LesserOf(t.pnl, 0)),
      heldWon |-> s.heldWon + Count(Won(t)) * t.held, heldLost |-> s.heldLost + Count(Lost(t)) * t.held,
      inWins |-> inWins, inLosses |-> inLosses,
      mostWins |-> GreaterOf(s.mostWins, inWins), mostLosses |-> GreaterOf(s.mostLosses, inLosses)]

\* finalize: the accumulator's own report; it knows no trade from an open one,
\* no clock and no turnover.
Finalized(s, stream, capital, final, streamed) ==
  [total |-> s.n, wins |-> s.wins, losses |-> s.losses, factor |-> GainOver(s.won, s.lost),
   expectancy |-> Average(s.won - s.lost, s.n), ret |-> Average(s.ret, s.n), best |-> s.best,
   held |-> Average(s.held, s.n), heldWon |-> Average(s.heldWon, s.wins), heldLost |-> Average(s.heldLost, s.losses),
   mostWins |-> s.mostWins, mostLosses |-> s.mostLosses, worst |-> stream.worst,
   sharpe |-> StreamedSharpe(streamed), sortino |-> StreamedSortino(streamed),
   recovery |-> GainOver(final - capital, stream.worst)]

\* calculate_consecutive: the longest stretch of wins no loss breaks, of losses
\* no win breaks.
Streak(pnls) ==
  FoldLeft(LAMBDA s, pnl : [run  |-> IF pnl > 0 THEN s.run + 1 ELSE IF pnl < 0 THEN 0 ELSE s.run,
                            most |-> IF pnl > 0 THEN GreaterOf(s.most, s.run + 1) ELSE s.most],
           [run |-> 0, most |-> 0], pnls).most
MostWins(trades) == Streak(Map(PnLOf, trades))
MostLosses(trades) == Streak(Map(LAMBDA t : -t.pnl, trades))

\* TradeStatistics::from_trades
Statistics(trades) ==
  [n |-> Len(trades), wins |-> Len(Only(trades, Won)), losses |-> Len(Only(trades, Lost)),
   even |-> Len(Only(trades, LAMBDA t : t.pnl = 0)),
   won |-> TotalOf(PnLOf, Only(trades, Won)), lost |-> Abs(TotalOf(PnLOf, Only(trades, Lost))),
   held |-> TotalOf(LAMBDA t : t.held, trades), ret |-> TotalOf(LAMBDA t : t.ret, trades),
   largestWin |-> Greatest(Map(PnLOf, trades)), largestLoss |-> Greatest(Map(LAMBDA t : -t.pnl, trades)),
   mostWins |-> MostWins(trades), mostLosses |-> MostLosses(trades)]

\* stats_by_exit_reason, stats_by_direction
ByReason(trades) ==
  [r \in {trades[i].reason : i \in 1..Len(trades)} |-> Statistics(Only(trades, LAMBDA t : t.reason = r))]
ByDirection(trades) ==
  [d \in BOOLEAN |-> Statistics(Only(trades, LAMBDA t : t.long = d))]

\* total_turnover: both legs, but the exit that never traded.
Turnover(trades) ==
  TotalOf(LAMBDA t : t.entry * t.size + (IF t.reason \in {"EndOfData", "Settlement"} THEN 0 ELSE t.exit * t.size),
          trades)

\* calculate_metrics: a trade left open at the end is in the totals and in the
\* streaks, but neither won nor lost.
Held(trades) == TotalOf(LAMBDA t : t.held, trades)
EngineFigures(falls, trades, closed, won, lost, risk, capital, final) ==
  [total |-> Len(trades), open |-> Len(trades) - Len(closed), closed |-> Len(closed),
   wins |-> Len(won), losses |-> Len(lost), won |-> TotalOf(PnLOf, won), lost |-> -TotalOf(PnLOf, lost),
   openPnL |-> TotalOf(PnLOf, Only(trades, IsOpen)),
   factor |-> GainOver(TotalOf(PnLOf, won), -TotalOf(PnLOf, lost)),
   expectancy |-> Average(TotalOf(PnLOf, closed), Len(closed)),
   ret |-> Average(TotalOf(LAMBDA t : t.ret, trades), Len(trades)),
   best |-> FoldLeft(Widened, <<>>, Map(LAMBDA t : t.ret, trades)),
   held |-> Average(Held(trades), Len(trades)),
   heldWon |-> Average(Held(won), Len(won)), heldLost |-> Average(Held(lost), Len(lost)),
   mostWins |-> MostWins(trades), mostLosses |-> MostLosses(trades),
   worst |-> Greatest(falls), duration |-> DrawdownDuration(falls),
   sharpe |-> risk.sharpe, sortino |-> risk.sortino, recovery |-> GainOver(final - capital, Greatest(falls)),
   exposed |-> LesserOf(Held(trades), Len(falls)), turnover |-> Turnover(trades)]
ClosedFigures(falls, trades, closed, risk, capital, final) ==
  EngineFigures(falls, trades, closed, Only(closed, Won), Only(closed, Lost), risk, capital, final)
EngineMetrics(falls, returns, trades, capital, final) ==
  ClosedFigures(falls, trades, Only(trades, LAMBDA t : ~IsOpen(t)), RiskMetrics(returns), capital, final)

\* The array simulators' own: every record is a trade.
SimulatorMetrics(falls, trades) ==
  [total |-> Len(trades), wins |-> Len(Only(trades, Won)), losses |-> Len(Only(trades, Lost)),
   won |-> TotalOf(PnLOf, Only(trades, Won)), lost |-> Abs(TotalOf(PnLOf, Only(trades, Lost))),
   worst |-> Greatest(falls)]

\* The pairs': records two by two, the last chunk possibly alone.
PairsMetrics(falls, trades) ==
  LET n == Len(trades)
      chunks == (n + 1) \div 2
      Chunk(i) == trades[2 * i - 1].pnl + (IF 2 * i <= n THEN trades[2 * i].pnl ELSE 0)
      wins == Cardinality({i \in 1..chunks : Chunk(i) > 0})
  IN [total |-> n \div 2, wins |-> wins, losses |-> GreaterOf((n \div 2) - wins, 0),
      won |-> TotalOf(PnLOf, Only(trades, Won)), lost |-> Abs(TotalOf(PnLOf, Only(trades, Lost))),
      worst |-> Greatest(falls)]

\* The tick simulator's curve: one point per trade.
TradeCurve(capital, trades) ==
  [i \in 1..(Len(trades) + 1) |-> capital + TotalOf(PnLOf, SubSeq(trades, 1, i - 1))]

-----------------------------------------------------------------------------
(* Annualization: twice the median spacing of a series, and the periods a     *)
(* year has of it; a day has `day` units, a session `session` (0: none).      *)

Spacings(times) ==
  Only([i \in 1..(Len(times) - 1) |-> times[i + 1] - times[i]], LAMBDA d : d > 0)
TwiceMedian(times) ==
  LET sorted == SortSeq(Spacings(times), <)
      mid == Len(sorted) \div 2
  IN CASE Len(times) < 2 \/ sorted = <<>> -> 0
       [] Len(times) >= 2 /\ sorted # <<>> /\ Len(sorted) % 2 = 0 -> sorted[mid] + sorted[mid + 1]
       [] OTHER -> 2 * sorted[mid + 1]

PeriodsPerYear(explicit, times, day, session, fallback) ==
  LET twice == TwiceMedian(times) IN
  CASE explicit > 0 -> explicit
    [] explicit <= 0 /\ twice = 0 -> fallback
    [] explicit <= 0 /\ twice > 0 /\ (twice >= 2 * day \/ session = 0) -> (2 * 365 * day) \div twice
    [] OTHER -> 252 * GreaterOf((2 * session) \div twice, 1)
=============================================================================
