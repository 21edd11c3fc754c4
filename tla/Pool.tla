-------------------------------- MODULE Pool --------------------------------
(***************************************************************************)
(* The shared pool simulator (strategies/portfolio.rs): one kernel per      *)
(* instrument, all of them spending one cash pool.  Each bar steps the      *)
(* kernels that hold a position (their proceeds go to the pool), then lends *)
(* a budget to each flat kernel whose cleaned signals enter, marks, and     *)
(* latches the drawdown halt.  A kernel is taken here only as far as this   *)
(* loop drives it: signals deferred to the next open or filled at the close, *)
(* and a fixed stop (Kernel has the rest).                                 *)
(***************************************************************************)
EXTENDS Signals, Costs, Functions

CONSTANTS
  Plans,        \* [nextOpen, allocation, maxPositions, maxDrawdown, stop, rate, cash, names]
  Bars,         \* per instrument: [open, low, close, entry, exit]
  MaxBars       \* bound: bars

VARIABLES plan, book

Names == 1..plan.names
Fees == IF plan.rate = 0 THEN [kind |-> "None"] ELSE [kind |-> "Percentage", rate |-> plan.rate]
FeeOn(price, size) == Fee(Fees, price, size, "Long")
Idle == [size |-> 0, price |-> 0, fees |-> 0, since |-> 0, entry |-> 0, exit |-> FALSE]
InPosition(k) == k.size > 0
Held(b) == {n \in Names : InPosition(b.kernels[n])}
Under(price) == price - Portion(plan.stop, price)

-----------------------------------------------------------------------------
(* A kernel's step over one bar.  s is [kernel, cash, booked, entered]: the *)
(* kernel, the cash it was lent, what its records report, and whether it    *)
(* reported an entry.  A deferred entry is the number of the bar that       *)
(* decided it.                                                             *)

Sold(s, price) ==
  LET k == s.kernel IN
  [s EXCEPT !.cash = @ + price * k.size - FeeOn(price, k.size),
            !.booked = @ + (price - k.price) * k.size - k.fees - FeeOn(price, k.size),
            !.kernel = [k EXCEPT !.size = 0, !.price = 0, !.fees = 0, !.since = 0]]

\* All the cash lent, less the fee; a size of nothing is refused.
Bought(s, price, decided) ==
  LET size == (1000 * s.cash) \div (price * (1000 + plan.rate)) IN
  IF size = 0 THEN s
  ELSE [s EXCEPT !.cash = @ - price * size - FeeOn(price, size),
                 !.entered = TRUE,
                 !.kernel = [@ EXCEPT !.size = size, !.price = price, !.fees = FeeOn(price, size),
                                      !.since = decided]]

\* Intents of an earlier step fill first, at this bar's open.
Deferred(s, bar) ==
  LET k == s.kernel
      sold == IF k.exit /\ InPosition(k) THEN Sold(s, bar.open) ELSE s
      filled == IF k.entry > 0 /\ ~InPosition(sold.kernel) THEN Bought(sold, bar.open, k.entry) ELSE sold
  IN [filled EXCEPT !.kernel.entry = 0, !.kernel.exit = FALSE]

\* The stop, at its price or at the open the bar gapped to; then the signal.
Exits(s, bar, exit) ==
  LET k == s.kernel IN
  CASE InPosition(k) /\ plan.stop > 0 /\ bar.low <= Under(k.price) ->
         Sold(s, LesserOf(bar.open, Under(k.price)))
    [] InPosition(k) /\ ~(plan.stop > 0 /\ bar.low <= Under(k.price)) /\ exit /\ ~plan.nextOpen ->
         Sold(s, bar.close)
    [] OTHER -> s

Entries(s, bar, entry, now) ==
  CASE entry /\ plan.nextOpen -> [s EXCEPT !.kernel.entry = now]
    [] entry /\ ~plan.nextOpen /\ ~InPosition(s.kernel) -> Bought(s, bar.close, now)
    [] OTHER -> s

KernelStep(kernel, lent, bar, entry, exit, now) ==
  LET s == [kernel |-> kernel, cash |-> lent, booked |-> 0, entered |-> FALSE]
      opened == IF plan.nextOpen THEN Deferred(s, bar) ELSE s
      stashed == IF plan.nextOpen /\ exit THEN [opened EXCEPT !.kernel.exit = TRUE] ELSE opened
  IN Entries(Exits(stashed, bar, exit), bar, entry, now)

-----------------------------------------------------------------------------
(* One bar of the pool *)

CleanedAt(b, bar, n) == Cleaned(b.counts[n], 1, bar[n].entry, bar[n].exit)

Over(S, Op(_)) == SumFunction([n \in S |-> Op(n)])

\* Exits first: what they free is there for this bar's entries.  Each kernel is
\* lent nothing, so their order does not matter.
Left(b, bar, n) == KernelStep(b.kernels[n], 0, bar[n], FALSE, CleanedAt(b, bar, n).leave, b.bar)
ExitPhase(b, bar) ==
  [b EXCEPT !.kernels = [n \in Names |-> IF n \in Held(b) THEN Left(b, bar, n).kernel ELSE @[n]],
            !.cash = @ + Over(Held(b), LAMBDA n : Left(b, bar, n).cash),
            !.booked = @ + Over(Held(b), LAMBDA n : Left(b, bar, n).booked)]

Ceiling == IF plan.maxPositions = 0 THEN plan.names ELSE plan.maxPositions

Budget(cash, open) ==
  CASE plan.allocation = "Full"                            -> cash
    [] plan.allocation = "EqualWeight" /\ Ceiling > open   -> cash \div (Ceiling - open)
    [] plan.allocation = "EqualWeight" /\ Ceiling <= open  -> 0

\* A plausible slip: the halt is left to the kernels, which know nothing of it.
MutAdmitted(b, open) == plan.maxPositions = 0 \/ open < plan.maxPositions

Admitted(b, open) == ~b.halted /\ (plan.maxPositions = 0 \/ open < plan.maxPositions)

\* A flat kernel's turn; a refused or unfunded one is not stepped at all.  Only an
\* entry the step reports counts, and an exit it reports is not recorded.  acc is
\* [b, open]: the book and the number of open positions.
Lent(acc) == Budget(acc.b.cash, acc.open)
Lends(acc, bar, n) == KernelStep(acc.b.kernels[n], Lent(acc), bar[n], TRUE, FALSE, acc.b.bar)
Calls(acc, bar, n) == ~InPosition(acc.b.kernels[n]) /\ CleanedAt(acc.b, bar, n).enter
Turn(acc, bar, n) ==
  CASE ~Calls(acc, bar, n) -> acc
    [] Calls(acc, bar, n) /\ ~Admitted(acc.b, acc.open) -> [acc EXCEPT !.b.rejected = @ + 1]
    [] Calls(acc, bar, n) /\ Admitted(acc.b, acc.open) ->
         IF Lent(acc) <= 0 THEN acc
         ELSE LET s == Lends(acc, bar, n) IN
              [b |-> [acc.b EXCEPT !.kernels[n] = s.kernel, !.cash = @ - (Lent(acc) - s.cash)],
               open |-> acc.open + (IF s.entered THEN 1 ELSE 0)]

\* The instruments take their turns in order.
EntryPhase(b, bar) ==
  LET after[n \in 0..plan.names] ==
        IF n = 0 THEN [b |-> b, open |-> Cardinality(Held(b))] ELSE Turn(after[n - 1], bar, n)
  IN after[plan.names].b

\* The mark, the peak before it is compared, and the latching halt.
Marked(b, bar) ==
  LET equity == b.cash + Over(Names, LAMBDA n : b.kernels[n].size * bar[n].close)
      peak == GreaterOf(b.peak, equity)
  IN [b EXCEPT !.curve = equity, !.peak = peak,
               !.halted = @ \/ (plan.maxDrawdown > 0 /\ (peak - equity) * 100 >= plan.maxDrawdown * peak)]

OnBar(b, bar) ==
  LET stepped == EntryPhase(ExitPhase([b EXCEPT !.bar = @ + 1], bar), bar) IN
  [Marked(stepped, bar) EXCEPT
     !.counts = [n \in Names |-> CountAfter(b.counts[n], 1, CleanedAt(b, bar, n))],
     !.last = [n \in Names |-> bar[n].close]]

Init ==
  /\ plan \in Plans
  /\ book = [bar |-> 0, counts |-> [n \in Names |-> 0], kernels |-> [n \in Names |-> Idle],
             cash |-> plan.cash, curve |-> plan.cash, peak |-> plan.cash, booked |-> 0, rejected |-> 0,
             halted |-> FALSE, last |-> [n \in Names |-> 0], ended |-> FALSE]

Bar(bar) ==
  /\ ~book.ended /\ book.bar < MaxBars
  /\ book' = OnBar(book, bar)
  /\ UNCHANGED plan

\* What is still open is closed at the last close, without a fee.
Finish ==
  /\ ~book.ended /\ book.bar > 0
  /\ LET Paid(n) == book.kernels[n].size * book.last[n]
         Gain(n) == (book.last[n] - book.kernels[n].price) * book.kernels[n].size - book.kernels[n].fees
         cash == book.cash + Over(Held(book), Paid)
     IN book' = [book EXCEPT !.cash = cash, !.curve = cash, !.ended = TRUE,
                             !.booked = @ + Over(Held(book), Gain),
                             !.kernels = [n \in Names |-> Idle]]
  /\ UNCHANGED plan

Next == (\E bar \in Bars : Bar(bar)) \/ Finish

-----------------------------------------------------------------------------
(* Filled at the close, every trade of the pool is in the records: the cash  *)
(* is the capital plus what they report, less what the open positions cost. *)
BooksBalance ==
  ~plan.nextOpen =>
    book.cash = plan.cash + book.booked
                - Over(Held(book), LAMBDA n : book.kernels[n].size * book.kernels[n].price + book.kernels[n].fees)

(* However the instruments take turns, they never spend more than the pool   *)
(* nor hold more positions than the limit.  Their charge here is the percentage *)
(* they size with; an itemized one may be more, and overdraw (see Session).  *)
PoolHolds ==
  /\ book.cash >= 0
  /\ plan.maxPositions > 0 => Cardinality(Held(book)) <= plan.maxPositions

(* Once the drawdown halt is latched no instrument opens a position, not even *)
(* one that closes another on the same bar: whatever is held was decided and   *)
(* opened before.                                                            *)
HaltHolds(next) ==
  book.halted => \A n \in Held(next) : n \in Held(book) /\ next.kernels[n].since = book.kernels[n].since
=============================================================================
