------------------------------- MODULE Options -------------------------------
(***************************************************************************)
(* The single option simulator (strategies/options.rs): long premium,      *)
(* sized in lots, the strike chosen from the spot of the bar that decided.  *)
(* One action is one bar.                                                  *)
(***************************************************************************)
EXTENDS Signals, Costs

CONSTANTS
  Plans,        \* [nextOpen, opens, direction, fees, cash, lot, sizing, call, strike, interval]
  Bars,         \* [spot, open, value, entry, exit]: the premium's open and value
  MaxBars       \* bound: bars

VARIABLES plan, book

None == [lots |-> 0]
Holds(b) == b.option.lots > 0

FillPremium(bar) == IF plan.nextOpen /\ plan.opens THEN bar.open ELSE bar.value

Decided(b, bar) ==
  LET clean == Cleaned(b.count, 1, bar.entry, bar.exit)
  IN [clean |-> clean, count |-> CountAfter(b.count, 1, clean)]
Acts(b, bar) == IF plan.nextOpen THEN b.due ELSE Decided(b, bar).clean

\* The spot of the bar that decided.
DecidingSpot(b, bar) == IF plan.nextOpen THEN b.spot ELSE bar.spot

\* select_strike: the nearest multiple of the interval, and so many away from it.
Strike(spot) ==
  LET atm == ((2 * spot + plan.interval) \div (2 * plan.interval)) * plan.interval
      Away(distance) == IF plan.call THEN atm + distance ELSE atm - distance
  IN CASE plan.strike.kind = "Atm"     -> atm
       [] plan.strike.kind = "Otm"     -> Away(plan.strike.n * plan.interval)
       [] plan.strike.kind = "Itm"     -> Away(-plan.strike.n * plan.interval)
       [] plan.strike.kind = "Percent" -> Away(Portion(plan.strike.n, spot))
       [] plan.strike.kind = "Delta"   -> atm

\* calculate_contracts: lots, whatever their cost when their number is given.
LotsFor(premium, cash) ==
  LET cost == premium * plan.lot IN
  CASE premium <= 0                   -> 0
    [] premium > 0 /\ plan.sizing.kind = "Contracts" -> plan.sizing.n
    [] premium > 0 /\ plan.sizing.kind = "Notional"  -> plan.sizing.n \div cost
    [] premium > 0 /\ plan.sizing.kind = "Percent"   -> Portion(plan.sizing.n, GreaterOf(cash, 0)) \div cost

Contracts(lots) == lots * plan.lot
Charge(premium, lots, isEntry) ==
  FeeOfSide(plan.fees, premium, Contracts(lots), plan.direction, isEntry)

\* A plausible slip: the record charges the exit as another entry.
MutPnL(option, premium) ==
  (premium - option.premium) * Contracts(option.lots)
  - option.fees - Charge(premium, option.lots, TRUE)

\* Both halves of the fees are in the record; only the exit's leave cash now.
PnL(option, premium) ==
  (premium - option.premium) * Contracts(option.lots)
  - option.fees - Charge(premium, option.lots, FALSE)

Closed(b, premium) ==
  [b EXCEPT !.cash = @ + premium * Contracts(b.option.lots) - Charge(premium, b.option.lots, FALSE),
            !.booked = @ + PnL(b.option, premium),
            !.option = None]

Opened(b, premium, spot) ==
  LET lots == LotsFor(premium, b.cash)
      fees == Charge(premium, lots, TRUE)
  IN IF lots = 0 THEN b
     ELSE [b EXCEPT !.cash = @ - premium * Contracts(lots) - fees,
                    !.option = [lots |-> lots, premium |-> premium, fees |-> fees, strike |-> Strike(spot)]]

ValueOf(b, premium) == IF Holds(b) THEN premium * Contracts(b.option.lots) ELSE 0

Left(b, bar) == IF Acts(b, bar).leave /\ Holds(b) THEN Closed(b, FillPremium(bar)) ELSE b
Entered(b, bar, enters) == IF enters /\ ~Holds(b) THEN Opened(b, FillPremium(bar), DecidingSpot(b, bar)) ELSE b
Seen(b, bar, decided) ==
  [b EXCEPT !.curve = b.cash + ValueOf(b, bar.value), !.count = decided.count, !.due = decided.clean,
            !.spot = bar.spot, !.value = bar.value, !.bar = @ + 1]

OnBar(b, bar) == Seen(Entered(Left(b, bar), bar, Acts(b, bar).enter), bar, Decided(b, bar))

Init ==
  /\ plan \in Plans
  /\ book = [bar |-> 0, count |-> 0, due |-> NoDecision, cash |-> plan.cash, curve |-> plan.cash,
             option |-> None, booked |-> 0, spot |-> 0, value |-> 0, ended |-> FALSE]

Bar(bar) ==
  /\ ~book.ended /\ book.bar < MaxBars
  /\ book' = OnBar(book, bar)
  /\ UNCHANGED plan

\* The close at the last value is paid out of the curve too.
Finish ==
  /\ ~book.ended /\ book.bar > 0
  /\ LET closed == IF Holds(book) THEN Closed(book, book.value) ELSE book
     IN book' = [closed EXCEPT !.curve = closed.cash, !.ended = TRUE]
  /\ UNCHANGED plan

Next == (\E bar \in Bars : Bar(bar)) \/ Finish

-----------------------------------------------------------------------------
(* The curve is the capital plus what the records report, at the end and    *)
(* whenever nothing is held; while an option is held its premium and entry   *)
(* charge are all that left the account.                                   *)
BooksBalance ==
  /\ ~Holds(book) => book.curve = plan.cash + book.booked
  /\ Holds(book) => book.cash + book.option.premium * Contracts(book.option.lots) + book.option.fees
                    = plan.cash + book.booked

Dealt(b) == <<b.option, b.cash, b.booked>>

(* Under the next-bar-open timing with opening premiums, neither the fill    *)
(* nor the strike a bar uses depends on the values the bar closes with.     *)
DecidedBeforeFilled ==
  plan.nextOpen /\ plan.opens /\ ~book.ended =>
    \A open \in {x.open : x \in Bars} : Cardinality({Dealt(OnBar(book, y)) : y \in {y \in Bars : y.open = open}}) = 1
=============================================================================
