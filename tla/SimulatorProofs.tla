--------------------------- MODULE SimulatorProofs ---------------------------
(***************************************************************************)
(* Proofs about the array simulators, for all plans and bars that the      *)
(* assumptions of Simulators admit.                                        *)
(***************************************************************************)
EXTENDS Simulators, Sums

-----------------------------------------------------------------------------
(* What is decided before it is filled.  Each simulator's step is followed    *)
(* through its stages on two bars that a fill cannot tell apart.            *)

\* A set of outcomes that are all the same has one member.
LEMMA OneOutcome ==
  ASSUME NEW S, NEW x, S = {x}
  PROVE  Cardinality(S) = 1
BY FS_Singleton

\* b is a record of these fields.
Record(b, fields) == b = [f \in fields |-> b[f]]

BasketBook(b) ==
  Record(b, {"bar", "count", "due", "cash", "curve", "held", "booked", "paid", "owed", "last", "ended"})

LEMMA BasketKeepsItsFields ==
  ASSUME NEW b, BasketBook(b), NEW at, NEW bar, NEW enters, NEW decided
  PROVE  /\ BasketBook(Basket!Closed(b, at))
         /\ BasketBook(Basket!Opened(b, at))
         /\ BasketBook(Basket!Left(b, bar))
         /\ BasketBook(Basket!Entered(b, bar, enters))
         /\ BasketBook(Basket!Marked(b, bar))
         /\ BasketBook(Basket!Seen(b, bar, decided))
<1>1. \A p : BasketBook(Basket!Closed(b, p))
  BY DEF BasketBook, Record, Basket!Closed
<1>2. \A p : BasketBook(Basket!Opened(b, p))
  BY DEF BasketBook, Record, Basket!Opened
<1>3. QED
  BY <1>1, <1>2 DEF BasketBook, Record, Basket!Left, Basket!Entered, Basket!Marked, Basket!Seen

LEMMA BasketMarkDealsNothing ==
  ASSUME NEW b, BasketBook(b), NEW bar, NEW decided
  PROVE  Basket!Dealt(Basket!Seen(Basket!Marked(b, bar), bar, decided)) = Basket!Dealt(b)
<1>1. Basket!Dealt(Basket!Marked(b, bar)) = Basket!Dealt(b)
  BY DEF BasketBook, Record, Basket!Marked, Basket!Dealt
<1>2. \A c : BasketBook(c) => Basket!Dealt(Basket!Seen(c, bar, decided)) = Basket!Dealt(c)
  BY DEF BasketBook, Record, Basket!Seen, Basket!Dealt
<1>3. QED BY <1>1, <1>2, BasketKeepsItsFields

LEMMA BasketDecides ==
  ASSUME NEW b, BasketBook(b), plan.nextOpen, NEW x, NEW y, x.open = y.open
  PROVE  Basket!Dealt(Basket!OnBar(b, x)) = Basket!Dealt(Basket!OnBar(b, y))
<1> DEFINE enters == b.due.enter
<1>1. Basket!FillPrices(x) = Basket!FillPrices(y) /\ Basket!Acts(b, x) = b.due /\ Basket!Acts(b, y) = b.due
  BY DEF Basket!FillPrices, Basket!Acts
<1>2. Basket!Left(b, x) = Basket!Left(b, y)
  BY <1>1 DEF Basket!Left
<1>3. Basket!Entered(Basket!Left(b, x), x, enters) = Basket!Entered(Basket!Left(b, y), y, enters)
  BY <1>1, <1>2 DEF Basket!Entered
<1>4. \A z : BasketBook(Basket!Entered(Basket!Left(b, z), z, enters))
  BY BasketKeepsItsFields
<1>5. \A z, d : Basket!Dealt(Basket!Seen(Basket!Marked(Basket!Entered(Basket!Left(b, z), z, enters), z), z, d))
                  = Basket!Dealt(Basket!Entered(Basket!Left(b, z), z, enters))
  BY <1>4, BasketMarkDealsNothing
<1>6. QED
  BY <1>1, <1>3, <1>5 DEF Basket!OnBar

LEMMA BasketDecidesFirst ==
  ASSUME BasketBook(book)
  PROVE  Basket!DecidedBeforeFilled
<1> SUFFICES ASSUME plan.nextOpen, NEW x \in BasketBars
             PROVE  Basket!Cardinality({Basket!Dealt(Basket!OnBar(book, y)) : y \in {y \in BasketBars : y.open = x.open}}) = 1
  BY DEF Basket!DecidedBeforeFilled
<1>1. {Basket!Dealt(Basket!OnBar(book, y)) : y \in {y \in BasketBars : y.open = x.open}} = {Basket!Dealt(Basket!OnBar(book, x))}
  BY BasketDecides
<1>2. QED
  BY <1>1, OneOutcome DEF Basket!Cardinality, Cardinality

\* The fields of a pair's book.
PairBook(b) ==
  Record(b, {"count", "due", "cash", "curve", "pair", "booked", "records", "paid", "closes", "ended"})

LEMMA PairKeepsItsFields ==
  ASSUME NEW b, PairBook(b), NEW bar, NEW enters, NEW decided
  PROVE  /\ PairBook(Pairs!Left(b, bar))
         /\ PairBook(Pairs!Entered(b, bar, enters))
         /\ PairBook(Pairs!Seen(b, bar, decided))
<1>1. ASSUME NEW p PROVE PairBook(Pairs!Closed(b, p))
  BY DEF PairBook, Record, Pairs!Closed
<1>2. ASSUME NEW p, NEW r PROVE PairBook(Pairs!Opened(b, p, r))
  BY DEF PairBook, Record, Pairs!Opened
<1>3. PairBook(Pairs!Seen(b, bar, decided))
  BY DEF PairBook, Record, Pairs!Seen
<1>4. QED
  BY <1>1, <1>2, <1>3 DEF Pairs!Left, Pairs!Entered

LEMMA PairDecides ==
  ASSUME NEW b, PairBook(b), plan.nextOpen, NEW x, NEW y, x.open = y.open
  PROVE  Pairs!Dealt(Pairs!OnBar(b, x)) = Pairs!Dealt(Pairs!OnBar(b, y))
<1> DEFINE enters == b.due.enter
<1>1. Pairs!FillPrice(x) = Pairs!FillPrice(y) /\ Pairs!Acts(b, x) = b.due /\ Pairs!Acts(b, y) = b.due
  BY DEF Pairs!FillPrice, Pairs!Acts
<1>2. \A c : Pairs!HedgeRatio(c, x) = Pairs!HedgeRatio(c, y)
  BY DEF Pairs!HedgeRatio, Pairs!Window
<1>3. Pairs!Left(b, x) = Pairs!Left(b, y)
  BY <1>1 DEF Pairs!Left
<1>4. Pairs!Entered(Pairs!Left(b, x), x, enters) = Pairs!Entered(Pairs!Left(b, y), y, enters)
  BY <1>1, <1>2, <1>3 DEF Pairs!Entered
<1>5. \A c, z, d : PairBook(c) => Pairs!Dealt(Pairs!Seen(c, z, d)) = Pairs!Dealt(c)
  BY DEF PairBook, Record, Pairs!Seen, Pairs!Dealt
<1>6. \A z : PairBook(Pairs!Entered(Pairs!Left(b, z), z, enters))
  BY PairKeepsItsFields
<1>7. QED
  BY <1>1, <1>4, <1>5, <1>6 DEF Pairs!OnBar

LEMMA PairDecidesFirst ==
  ASSUME PairBook(book)
  PROVE  Pairs!DecidedBeforeFilled
<1> SUFFICES ASSUME plan.nextOpen, NEW x \in PairBars
             PROVE  Pairs!Cardinality({Pairs!Dealt(Pairs!OnBar(book, y)) : y \in {y \in PairBars : y.open = x.open}}) = 1
  BY DEF Pairs!DecidedBeforeFilled
<1>1. {Pairs!Dealt(Pairs!OnBar(book, y)) : y \in {y \in PairBars : y.open = x.open}} = {Pairs!Dealt(Pairs!OnBar(book, x))}
  BY PairDecides
<1>2. QED
  BY <1>1, OneOutcome DEF Pairs!Cardinality, Cardinality

\* The fields of an option's book.
OptionBook(b) ==
  Record(b, {"bar", "count", "due", "cash", "curve", "option", "booked", "spot", "value", "ended"})

LEMMA OptionKeepsItsFields ==
  ASSUME NEW b, OptionBook(b), NEW bar, NEW enters, NEW decided
  PROVE  /\ OptionBook(Options!Left(b, bar))
         /\ OptionBook(Options!Entered(b, bar, enters))
         /\ OptionBook(Options!Seen(b, bar, decided))
<1>1. ASSUME NEW p PROVE OptionBook(Options!Closed(b, p))
  BY DEF OptionBook, Record, Options!Closed
<1>2. ASSUME NEW p, NEW spot PROVE OptionBook(Options!Opened(b, p, spot))
  BY DEF OptionBook, Record, Options!Opened
<1>3. OptionBook(Options!Seen(b, bar, decided))
  BY DEF OptionBook, Record, Options!Seen
<1>4. QED
  BY <1>1, <1>2, <1>3 DEF Options!Left, Options!Entered

LEMMA OptionDecides ==
  ASSUME NEW b, OptionBook(b), plan.nextOpen, plan.opens, NEW x, NEW y, x.open = y.open
  PROVE  Options!Dealt(Options!OnBar(b, x)) = Options!Dealt(Options!OnBar(b, y))
<1> DEFINE enters == b.due.enter
<1>1. Options!FillPremium(x) = Options!FillPremium(y) /\ Options!Acts(b, x) = b.due /\ Options!Acts(b, y) = b.due
  BY DEF Options!FillPremium, Options!Acts
<1>2. \A c : Options!DecidingSpot(c, x) = Options!DecidingSpot(c, y)
  BY DEF Options!DecidingSpot
<1>3. Options!Left(b, x) = Options!Left(b, y)
  BY <1>1 DEF Options!Left
<1>4. Options!Entered(Options!Left(b, x), x, enters) = Options!Entered(Options!Left(b, y), y, enters)
  BY <1>1, <1>2, <1>3 DEF Options!Entered
<1>5. \A c, z, d : OptionBook(c) => Options!Dealt(Options!Seen(c, z, d)) = Options!Dealt(c)
  BY DEF OptionBook, Record, Options!Seen, Options!Dealt
<1>6. \A z : OptionBook(Options!Entered(Options!Left(b, z), z, enters))
  BY OptionKeepsItsFields
<1>7. QED
  BY <1>1, <1>4, <1>5, <1>6 DEF Options!OnBar

LEMMA OptionDecidesFirst ==
  ASSUME OptionBook(book)
  PROVE  Options!DecidedBeforeFilled
<1> SUFFICES ASSUME plan.nextOpen, plan.opens, NEW x \in OptionBars
             PROVE  Options!Cardinality({Options!Dealt(Options!OnBar(book, y)) : y \in {y \in OptionBars : y.open = x.open}}) = 1
  BY DEF Options!DecidedBeforeFilled
<1>1. {Options!Dealt(Options!OnBar(book, y)) : y \in {y \in OptionBars : y.open = x.open}} = {Options!Dealt(Options!OnBar(book, x))}
  BY OptionDecides
<1>2. QED
  BY <1>1, OneOutcome DEF Options!Cardinality, Cardinality

\* The fields of a spread's book.
SpreadBook(b) ==
  Record(b, {"bar", "due", "cash", "curve", "spread", "booked", "reasons", "ended"})

LEMMA SpreadKeepsItsFields ==
  ASSUME NEW b, SpreadBook(b), NEW bar, NEW enters, NEW now
  PROVE  /\ SpreadBook(Spreads!Left(b, bar, now))
         /\ SpreadBook(Spreads!Entered(b, bar, enters, now))
         /\ SpreadBook(Spreads!Seen(b, bar, now))
<1>1. ASSUME NEW c, SpreadBook(c), NEW s, NEW r PROVE SpreadBook(Spreads!Recorded(c, s, r))
  BY <1>1 DEF SpreadBook, Record, Spreads!Recorded
<1>2. ASSUME NEW c, SpreadBook(c), NEW o, NEW n, NEW p PROVE SpreadBook(Spreads!Exited(c, o, n, p))
  BY <1>1, <1>2 DEF Spreads!Exited
<1>3. ASSUME NEW c, SpreadBook(c) PROVE SpreadBook(Spreads!Settled(c, now))
  BY <1>3 DEF SpreadBook, Record, Spreads!Settled
<1>4. \A p : SpreadBook(Spreads!Opened(b, p))
  BY DEF SpreadBook, Record, Spreads!Opened
<1>5. SpreadBook([b EXCEPT !.spread = Spreads!Repriced(b.spread, bar.value)])
  BY DEF SpreadBook, Record
<1>6. SpreadBook(Spreads!Seen(b, bar, now))
  BY DEF SpreadBook, Record, Spreads!Seen
<1>7. SpreadBook(Spreads!Left(b, bar, now))
  BY <1>2, <1>3, <1>5 DEF Spreads!Left
<1>8. QED
  BY <1>4, <1>6, <1>7 DEF Spreads!Entered

LEMMA SpreadDecidesFirst ==
  ASSUME SpreadBook(book)
  PROVE  Spreads!DecidedBeforeFilled
<1> SUFFICES ASSUME plan.nextOpen, plan.opens, ~Spreads!Holds(book), NEW x \in SpreadBars
             PROVE  Spreads!Cardinality({Spreads!OnBar(book, y).spread : y \in {y \in SpreadBars : y.open = x.open}}) = 1
  BY DEF Spreads!DecidedBeforeFilled
<1> DEFINE Following(z) == Spreads!Entered(book, z, book.due.enter, book.bar + 1)
<1>1. ASSUME NEW z PROVE Spreads!OnBar(book, z) = Spreads!Seen(Following(z), z, book.bar + 1)
  BY DEF Spreads!OnBar, Spreads!Left, Spreads!Acts
<1>2. \A c, z, n : SpreadBook(c) => Spreads!Seen(c, z, n).spread = c.spread
  BY DEF SpreadBook, Record, Spreads!Seen
<1>3. ASSUME NEW z PROVE SpreadBook(Following(z))
  BY SpreadKeepsItsFields
<1>4. ASSUME NEW y, y.open = x.open PROVE Following(y) = Following(x)
  BY <1>4 DEF Spreads!Entered, Spreads!FillPremiums
<1>5. ASSUME NEW y, y.open = x.open PROVE Spreads!OnBar(book, y).spread = Spreads!OnBar(book, x).spread
  BY <1>1, <1>2, <1>3, <1>4, <1>5
<1>6. {Spreads!OnBar(book, y).spread : y \in {y \in SpreadBars : y.open = x.open}} = {Spreads!OnBar(book, x).spread}
  BY <1>5
<1>7. QED
  BY <1>6, OneOutcome DEF Spreads!Cardinality, Cardinality

\* The fields of a stop simulator's book and of the position it holds.
PositionFields ==
  {"size", "entry", "fees", "stop", "target", "high", "low", "bar", "first", "atr", "steady", "own", "ladder", "sar"}
StopFields == {"bar", "cash", "booked", "position", "due", "last"}
StopBook(b) ==
  /\ Record(b, StopFields)
  /\ Stops!Holds(b) => Record(b.position, PositionFields)

\* What a position is, and what the account knows of it.
Position(p) == <<p.size, p.entry, p.fees>>
Account(b) == <<b.bar, b.cash, b.booked, b.due, b.last>>

LEMMA AnyPosition ==
  ASSUME NEW a, NEW b, NEW c, NEW d, NEW e, NEW f, NEW g, NEW h, NEW i, NEW j, NEW k, NEW l, NEW m, NEW n, NEW p,
         p = [size |-> a, entry |-> b, fees |-> c, stop |-> d, target |-> e, high |-> f, low |-> g,
              bar |-> h, first |-> i, atr |-> j, steady |-> k, own |-> l, ladder |-> m, sar |-> n]
  PROVE  Record(p, PositionFields)
BY DEF Record, PositionFields

LEMMA StopBuys ==
  ASSUME NEW bar, NEW price, NEW size, NEW intent
  PROVE  Record(Stops!Fresh(bar, price, size, intent), PositionFields)
BY AnyPosition DEF Stops!Fresh

LEMMA StopOpens ==
  ASSUME NEW b, StopBook(b), NEW raw, NEW volume, NEW intent
  PROVE  LET c == Stops!Opened(b, raw, volume, intent) IN
         /\ StopBook(c) /\ c.last = b.last /\ c.bar = b.bar /\ c.due = b.due
<1> DEFINE c == Stops!Opened(b, raw, volume, intent)
           price == Stops!Traded(plan.slippage, raw, volume, plan.direction, TRUE)
           size == Stops!Sized(b.cash, price)
           paid == IF plan.margin = 0 THEN Stops!Value(price, size) ELSE 0
           cash == b.cash - Stops!Charge(price, size, TRUE) - paid
           fresh == Stops!Fresh(b.bar, price, size, intent)
<1>1. Record(fresh, PositionFields)
  BY StopBuys
<1>2. c = IF size <= 0 THEN b ELSE [b EXCEPT !.cash = cash, !.position = fresh]
  BY DEF Stops!Opened
<1>3. b = [f \in StopFields |-> b[f]]
  BY DEF StopBook, Record
<1> HIDE DEF c, price, size, paid, cash, fresh
<1>4. CASE size <= 0
  BY <1>2, <1>4 DEF c
<1>5. CASE ~(size <= 0)
  <2>1. /\ c = [f \in StopFields |-> c[f]]
        /\ c.position = fresh /\ c.last = b.last /\ c.bar = b.bar /\ c.due = b.due
    BY <1>2, <1>3, <1>5 DEF StopFields
  <2>2. QED BY <1>1, <2>1 DEF StopBook, Record, c
<1>6. QED BY <1>4, <1>5 DEF c

\* The record of an exit.
Exit(why, raw, b) == [reason |-> why, raw |-> raw, stop |-> b.position.stop, bar |-> b.bar]

LEMMA StopCloses ==
  ASSUME NEW b, StopBook(b), NEW raw, NEW volume, NEW why
  PROVE  LET c == Stops!Closed(b, raw, volume, why) IN
         /\ StopBook(c) /\ ~Stops!Holds(c)
         /\ c.bar = b.bar /\ c.due = b.due
         /\ c.last = Exit(why, raw, b)
<1> DEFINE c == Stops!Closed(b, raw, volume, why)
<1>1. /\ Record(c, StopFields)
      /\ c.bar = b.bar /\ c.due = b.due
      /\ c.position = Stops!None
  BY DEF StopBook, Record, StopFields, Stops!Closed
<1>2. c.last = Exit(why, raw, b)
  BY DEF StopBook, Record, StopFields, Stops!Closed, Exit
<1>3. ~Stops!Holds(c)
  BY <1>1 DEF Stops!Holds, Stops!None
<1> HIDE DEF c
<1>4. StopBook(c)
  BY <1>1, <1>3 DEF StopBook
<1>5. QED
  BY <1>1, <1>2, <1>3, <1>4 DEF c

LEMMA ExitIsRecorded ==
  ASSUME NEW why, NEW raw, NEW b
  PROVE  Exit(why, raw, b).reason = why /\ Exit(why, raw, b).bar = b.bar
BY DEF Exit

LEMMA StopSees ==
  ASSUME NEW b, StopBook(b), NEW bar
  PROVE  LET c == Stops!Seen(b, bar) IN
         /\ StopBook(c) /\ Account(c) = Account(b)
         /\ Stops!Holds(c) = Stops!Holds(b)
         /\ Stops!Holds(b) => /\ Position(c.position) = Position(b.position)
                             /\ c.position.stop = b.position.stop /\ c.position.target = b.position.target
BY ZenonT(40) DEF StopBook, Record, StopFields, PositionFields, Stops!Seen, Stops!Holds, Account, Position

LEMMA StopTrails ==
  ASSUME NEW b, StopBook(b)
  PROVE  LET c == Stops!Trailed(b) IN
         /\ StopBook(c) /\ Account(c) = Account(b)
         /\ Stops!Holds(c) = Stops!Holds(b)
         /\ Stops!Holds(b) => Position(c.position) = Position(b.position)
BY ZenonT(40) DEF StopBook, Record, StopFields, PositionFields, Stops!Trailed, Stops!Holds, Account, Position

LEMMA StopFollows ==
  ASSUME NEW b, StopBook(b), NEW bar
  PROVE  LET c == Stops!Followed(b, bar) IN
         /\ StopBook(c) /\ Account(c) = Account(b)
         /\ Stops!Holds(c) = Stops!Holds(b)
         /\ Stops!Holds(b) => Position(c.position) = Position(b.position)
BY ZenonT(40) DEF StopBook, Record, StopFields, PositionFields, Stops!Followed, Stops!Holds, Account, Position

\* The ways a bar ends for a position, in the order the exit path asks.
AtTarget(b, bar) ==
  Stops!Closed(b, Stops!LimitFill(b.position.target, bar, Stops!Buys(plan.direction, FALSE), plan.limitSlip),
               bar.volume, "TakeProfit")
AtStop(b, bar) ==
  Stops!Closed(b, Stops!StopFill(b.position.stop, bar, Stops!Buys(plan.direction, FALSE)), bar.volume, "StopLoss")
AtMarket(b, bar) ==
  Stops!Closed(b, Stops!PriceOf(plan.fill, bar, Stops!Buys(plan.direction, FALSE)), bar.volume, "Signal")

LEMMA ExitWays ==
  ASSUME NEW b, NEW bar, NEW signal
  PROVE  LET c == Stops!Exited(b, bar, signal)
             held == Stops!Holds(b)
             first == Stops!TargetFirst(b.position, bar)
             stopped == Stops!StopHit(b.position, bar)
             reached == Stops!TargetHit(b.position, bar)
         IN /\ ~held => c = b
            /\ held /\ first => c = AtTarget(b, bar)
            /\ held /\ ~first /\ stopped => c = AtStop(b, bar)
            /\ held /\ ~stopped /\ reached => c = AtTarget(b, bar)
            /\ held /\ ~stopped /\ ~reached /\ signal => c = AtMarket(b, bar)
            /\ held /\ ~stopped /\ ~reached /\ ~signal => c = b
            /\ first => stopped /\ reached
<1> DEFINE held == Stops!Holds(b)
           first == Stops!TargetFirst(b.position, bar)
           stopped == Stops!StopHit(b.position, bar)
           reached == Stops!TargetHit(b.position, bar)
<1>1. first => stopped /\ reached
  BY DEF Stops!TargetFirst
<1>2. CASE ~held
  BY <1>1, <1>2 DEF Stops!Exited
<1>3. CASE held /\ first
  BY <1>1, <1>3 DEF Stops!Exited, AtTarget
<1>4. CASE held /\ ~first /\ stopped
  BY <1>1, <1>4 DEF Stops!Exited, AtStop
<1>5. CASE held /\ ~stopped /\ reached
  BY <1>1, <1>5 DEF Stops!Exited, AtTarget
<1>6. CASE held /\ ~stopped /\ ~reached /\ signal
  BY <1>1, <1>6 DEF Stops!Exited, AtMarket
<1>7. CASE held /\ ~stopped /\ ~reached /\ ~signal
  BY <1>1, <1>7 DEF Stops!Exited
<1>8. QED BY <1>1, <1>2, <1>3, <1>4, <1>5, <1>6, <1>7

LEMMA ExitReasons ==
  ASSUME NEW b, StopBook(b), NEW bar
  PROVE  /\ AtStop(b, bar).last = Exit("StopLoss", Stops!StopFill(b.position.stop, bar, Stops!Buys(plan.direction, FALSE)), b)
         /\ AtTarget(b, bar).last.reason = "TakeProfit"
         /\ AtMarket(b, bar).last.reason = "Signal"
<1>1. ASSUME NEW raw, NEW why PROVE Stops!Closed(b, raw, bar.volume, why).last = Exit(why, raw, b)
  BY StopCloses
<1>2. ASSUME NEW raw, NEW why PROVE Stops!Closed(b, raw, bar.volume, why).last.reason = why
  BY <1>1, ExitIsRecorded
<1>3. QED BY <1>1, <1>2 DEF AtStop, AtTarget, AtMarket

\* What an exit leaves: the book, or no position and a record of this bar.
LEMMA StopExits ==
  ASSUME NEW b, StopBook(b), NEW bar, NEW signal
  PROVE  LET c == Stops!Exited(b, bar, signal) IN
         /\ StopBook(c) /\ c.bar = b.bar /\ c.due = b.due
         /\ \/ c = b
            \/ /\ ~Stops!Holds(c) /\ c.last.bar = b.bar
               /\ c.last.reason \in {"TakeProfit", "StopLoss", "Signal"}
<1> DEFINE c == Stops!Exited(b, bar, signal)
<1>1. \/ c = b \/ c = AtTarget(b, bar) \/ c = AtStop(b, bar) \/ c = AtMarket(b, bar)
  BY ExitWays
<1>2. ASSUME NEW e, NEW raw, NEW why \in {"TakeProfit", "StopLoss", "Signal"},
             e = Stops!Closed(b, raw, bar.volume, why)
      PROVE  /\ StopBook(e) /\ e.bar = b.bar /\ e.due = b.due /\ ~Stops!Holds(e)
             /\ e.last.bar = b.bar /\ e.last.reason \in {"TakeProfit", "StopLoss", "Signal"}
  <2>1. /\ StopBook(e) /\ ~Stops!Holds(e) /\ e.bar = b.bar /\ e.due = b.due
        /\ e.last = Exit(why, raw, b)
    BY <1>2, StopCloses
  <2>2. QED BY <2>1, ExitIsRecorded
<1> DEFINE Leaves(e) == /\ StopBook(e) /\ e.bar = b.bar /\ e.due = b.due /\ ~Stops!Holds(e)
                        /\ e.last.bar = b.bar /\ e.last.reason \in {"TakeProfit", "StopLoss", "Signal"}
<1>4. Leaves(AtTarget(b, bar))
  BY <1>2 DEF AtTarget
<1>5. Leaves(AtStop(b, bar))
  BY <1>2 DEF AtStop
<1>6. Leaves(AtMarket(b, bar))
  BY <1>2 DEF AtMarket
<1> HIDE DEF c
<1>3. QED BY <1>1, <1>4, <1>5, <1>6 DEF c

LEMMA StopManages ==
  ASSUME NEW b, StopBook(b), NEW bar, NEW signal
  PROVE  LET c == Stops!Managed(b, bar, signal)
             d == Stops!Exited(Stops!Seen(b, bar), bar, signal)
         IN /\ StopBook(c) /\ c.bar = b.bar /\ c.due = b.due /\ c.last = d.last
            /\ c.last = b.last \/ (c.last.bar = b.bar /\ c.last.reason \in {"TakeProfit", "StopLoss", "Signal"})
<1> DEFINE s == Stops!Seen(b, bar)
           d == Stops!Exited(s, bar, signal)
           t == Stops!Trailed(d)
           c == Stops!Followed(t, bar)
<1>1. StopBook(s) /\ s.bar = b.bar /\ s.due = b.due /\ s.last = b.last
  BY StopSees DEF Account
<1>2. /\ StopBook(d) /\ d.bar = b.bar /\ d.due = b.due
      /\ d.last = b.last \/ (d.last.bar = b.bar /\ d.last.reason \in {"TakeProfit", "StopLoss", "Signal"})
  BY <1>1, StopExits
<1>3. StopBook(t) /\ t.bar = d.bar /\ t.due = d.due /\ t.last = d.last
  BY <1>2, StopTrails DEF Account
<1>4. StopBook(c) /\ c.bar = d.bar /\ c.due = d.due /\ c.last = d.last
  BY <1>3, StopFollows DEF Account
<1>5. Stops!Managed(b, bar, signal) = c
  BY DEF Stops!Managed
<1> HIDE DEF s, d, t, c
<1>6. QED BY <1>2, <1>4, <1>5 DEF d, s

\* What a bar does not show of its own reach against the holder stops nothing.
LEMMA StopSeesOnlyTheThreat ==
  ASSUME NEW c, StopBook(c), c.bar = book.bar, Stops!StoppedBy(c.last) = Stops!NoExit, ~plan.adaptive,
         NEW x, NEW y, Stops!Threat(x) = Stops!Threat(y), NEW p, NEW q
  PROVE  Stops!StoppedBy(Stops!Managed(c, x, p).last) = Stops!StoppedBy(Stops!Managed(c, y, q).last)
<1>1. x.open = y.open /\ x.volume = y.volume /\ (IF Stops!Long THEN x.low = y.low ELSE x.high = y.high)
  BY DEF Stops!Threat
<1> DEFINE At(bar) == Stops!StopFill(c.position.stop, bar, Stops!Buys(plan.direction, FALSE))
<1>2. At(x) = At(y)
  BY <1>1 DEF Stops!StopFill, Stops!StopTriggered, Stops!Buys, Stops!Long
<1>3. Stops!StopHit(c.position, x) <=> Stops!StopHit(c.position, y)
  BY <1>1 DEF Stops!StopHit
<1>4. ASSUME NEW z, NEW r
      PROVE  Stops!StoppedBy(Stops!Managed(c, z, r).last)
               = IF Stops!Holds(c) /\ Stops!StopHit(c.position, z)
                 THEN Exit("StopLoss", At(z), c) ELSE Stops!NoExit
  <2> DEFINE s == Stops!Seen(c, z)
             d == Stops!Exited(s, z, r)
  <2>1. /\ StopBook(s) /\ s.bar = c.bar /\ s.last = c.last /\ Stops!Holds(s) = Stops!Holds(c)
        /\ Stops!Holds(c) => s.position.stop = c.position.stop /\ s.position.target = c.position.target
    BY StopSees DEF Account
  <2>2. Stops!Managed(c, z, r).last = d.last
    BY StopManages
  <2>3. Stops!Holds(c) => (Stops!StopHit(s.position, z) <=> Stops!StopHit(c.position, z))
    BY <2>1 DEF Stops!StopHit
  <2>4. ~Stops!TargetFirst(s.position, z)
    BY DEF Stops!TargetFirst
  <2>5. AtStop(s, z).last = Exit("StopLoss", Stops!StopFill(s.position.stop, z, Stops!Buys(plan.direction, FALSE)), s)
    BY <2>1, ExitReasons
  <2>6. AtTarget(s, z).last.reason = "TakeProfit" /\ AtMarket(s, z).last.reason = "Signal"
    BY <2>1, ExitReasons
  <2>7. CASE Stops!Holds(c) /\ Stops!StopHit(c.position, z)
    <3>1. d = AtStop(s, z)
      BY <2>1, <2>3, <2>4, <2>7, ExitWays
    <3>2. d.last = Exit("StopLoss", At(z), s)
      BY <2>1, <2>5, <2>7, <3>1
    <3>4. Exit("StopLoss", At(z), s) = Exit("StopLoss", At(z), c)
      BY <2>1, <2>7 DEF Exit
    <3> DEFINE stop == Exit("StopLoss", At(z), c)
    <3>5. stop.reason = "StopLoss" /\ stop.bar = book.bar
      BY DEF Exit
    <3> HIDE DEF stop, d
    <3>6. Stops!StoppedBy(stop) = stop
      BY <3>5 DEF Stops!StoppedBy
    <3>7. d.last = stop
      BY <3>2, <3>4 DEF stop
    <3>3. QED BY <2>2, <2>7, <3>6, <3>7 DEF stop, d
  <2>8. CASE ~(Stops!Holds(c) /\ Stops!StopHit(c.position, z))
    <3>1. d = s \/ d = AtTarget(s, z) \/ d = AtMarket(s, z)
      BY <2>1, <2>3, <2>4, <2>8, ExitWays
    <3>2. CASE d = s
      BY <2>1, <2>2, <2>8, <3>2
    <3>3. CASE d # s
      BY <2>2, <2>6, <2>8, <3>1, <3>3 DEF Stops!StoppedBy
    <3>4. QED BY <3>2, <3>3
  <2>9. QED BY <2>7, <2>8
<1>5. QED BY <1>2, <1>3, <1>4

\* Under the next-open timing a bar's fills are known at its open.
LEMMA StopFillsDue ==
  ASSUME NEW b, plan.fill = "Open", NEW x, NEW y, x.open = y.open, x.volume = y.volume
  PROVE  Stops!DueFilled(b, x) = Stops!DueFilled(b, y)
<1>1. \A buys : Stops!PriceOf(plan.fill, x, buys) = x.open /\ Stops!PriceOf(plan.fill, y, buys) = y.open
  BY DEF Stops!PriceOf
<1>2. Stops!Left(b, x) = Stops!Left(b, y)
  BY <1>1 DEF Stops!Left
<1>3. \A c : Stops!Entered(c, x, b.due) = Stops!Entered(c, y, b.due)
  BY <1>1 DEF Stops!Entered
<1>4. QED BY <1>2, <1>3 DEF Stops!DueFilled

\* Nothing stopped the position on the bar of the book.
Unstopped(b) == ~(b.last.reason = "StopLoss" /\ b.last.bar = b.bar)

LEMMA StopEnters ==
  ASSUME NEW b, StopBook(b), NEW bar, NEW intent
  PROVE  LET c == Stops!Entered(b, bar, intent) IN
         /\ StopBook(c) /\ c.last = b.last /\ c.bar = b.bar /\ c.due = b.due
<1>1. ASSUME NEW raw
      PROVE  LET c == Stops!Opened(b, raw, bar.volume, intent) IN
             /\ StopBook(c) /\ c.last = b.last /\ c.bar = b.bar /\ c.due = b.due
  BY StopOpens
<1>2. QED BY <1>1 DEF Stops!Entered

LEMMA StopLeaves ==
  ASSUME NEW b, StopBook(b), NEW bar
  PROVE  LET c == Stops!Left(b, bar) IN
         /\ StopBook(c) /\ c.bar = b.bar
         /\ c.last = b.last \/ (c.last.reason = "Signal" /\ c.last.bar = b.bar)
<1> DEFINE e == Stops!Closed(b, Stops!PriceOf(plan.fill, bar, Stops!Buys(plan.direction, FALSE)), bar.volume, "Signal")
<1>0. ASSUME NEW raw
      PROVE  LET g == Stops!Closed(b, raw, bar.volume, "Signal") IN
             StopBook(g) /\ g.bar = b.bar /\ g.last = Exit("Signal", raw, b)
  BY StopCloses
<1>1. StopBook(e) /\ e.bar = b.bar /\ e = AtMarket(b, bar)
  BY <1>0 DEF AtMarket
<1>2. e.last.reason = "Signal"
  BY <1>1, ExitReasons
<1>3. e.last.bar = b.bar
  <2>1. ASSUME NEW raw PROVE Stops!Closed(b, raw, bar.volume, "Signal").last.bar = b.bar
    BY StopCloses, ExitIsRecorded
  <2>2. QED BY <2>1
<1>4. Stops!Left(b, bar) = b \/ Stops!Left(b, bar) = e
  BY DEF Stops!Left
<1> HIDE DEF e
<1>5. QED BY <1>1, <1>2, <1>3, <1>4

LEMMA StopFillsFirst ==
  ASSUME NEW b, StopBook(b), NEW bar
  PROVE  LET c == Stops!DueFilled(b, bar) IN
         /\ StopBook(c) /\ c.bar = b.bar
         /\ c.last = b.last \/ (c.last.reason = "Signal" /\ c.last.bar = b.bar)
<1> DEFINE l == Stops!Left(b, bar)
           c == Stops!Entered(l, bar, b.due)
<1>1. /\ StopBook(l) /\ l.bar = b.bar
      /\ l.last = b.last \/ (l.last.reason = "Signal" /\ l.last.bar = b.bar)
  BY StopLeaves
<1>2. StopBook(c) /\ c.last = l.last /\ c.bar = l.bar
  BY <1>1, StopEnters
<1>3. Stops!DueFilled(b, bar) = c
  BY DEF Stops!DueFilled
<1> HIDE DEF c, l
<1>4. QED BY <1>1, <1>2, <1>3

\* What a bar leaves of the record and of the shape of the book.
LEMMA StopSteps ==
  ASSUME NEW b, StopBook(b), NEW bar
  PROVE  LET c == Stops!OnBar(b, bar) IN
         /\ StopBook(c) /\ c.bar = b.bar + 1
         /\ c.last = IF plan.nextOpen THEN Stops!Managed(Stops!DueFilled(b, bar), bar, FALSE).last
                     ELSE Stops!Managed(b, bar, bar.exit).last
         /\ c.last = b.last \/ (c.last.reason # "None" /\ c.last.bar = b.bar)
<1> DEFINE d == Stops!DueFilled(b, bar)
           m == Stops!Managed(d, bar, FALSE)
           n == Stops!Managed(b, bar, bar.exit)
           e == Stops!Entered(n, bar, Stops!Intent(bar))
           intent == Stops!Intent(bar)
           c == Stops!OnBar(b, bar)
<1>1. /\ StopBook(d) /\ d.bar = b.bar
      /\ d.last = b.last \/ (d.last.reason = "Signal" /\ d.last.bar = b.bar)
  BY StopFillsFirst
<1>0. ASSUME NEW f, StopBook(f), NEW signal
      PROVE  LET g == Stops!Managed(f, bar, signal) IN
             /\ StopBook(g) /\ g.bar = f.bar
             /\ g.last = f.last \/ (g.last.reason # "None" /\ g.last.bar = f.bar)
  BY <1>0, StopManages
<1>2. /\ StopBook(m) /\ m.bar = d.bar
      /\ m.last = d.last \/ (m.last.reason # "None" /\ m.last.bar = d.bar)
  BY <1>1, <1>0
<1>3. /\ StopBook(n) /\ n.bar = b.bar
      /\ n.last = b.last \/ (n.last.reason # "None" /\ n.last.bar = b.bar)
  BY StopManages
<1>4. StopBook(e) /\ e.bar = n.bar /\ e.last = n.last
  BY <1>3, StopEnters
<1>5. c = IF plan.nextOpen THEN [[m EXCEPT !.due = intent] EXCEPT !.bar = @ + 1] ELSE [e EXCEPT !.bar = @ + 1]
  BY DEF Stops!OnBar, Stops!Passed
<1>6. ASSUME NEW f, StopBook(f), NEW i
      PROVE  LET g == [[f EXCEPT !.due = i] EXCEPT !.bar = @ + 1]
                 h == [f EXCEPT !.bar = @ + 1]
             IN /\ StopBook(g) /\ g.bar = f.bar + 1 /\ g.last = f.last
                /\ StopBook(h) /\ h.bar = f.bar + 1 /\ h.last = f.last
  BY <1>6 DEF StopBook, Record, StopFields, Stops!Holds
<1> HIDE DEF c, d, m, n, e, intent
<1>7. CASE plan.nextOpen
  <2>1. StopBook(c) /\ c.bar = m.bar + 1 /\ c.last = m.last
    BY <1>2, <1>5, <1>6, <1>7
  <2>2. QED BY <1>1, <1>2, <1>7, <2>1 DEF c, m, d
<1>8. CASE ~plan.nextOpen
  <2>1. StopBook(c) /\ c.bar = e.bar + 1 /\ c.last = e.last
    BY <1>4, <1>5, <1>6, <1>8
  <2>2. QED BY <1>3, <1>4, <1>8, <2>1 DEF c, n
<1>9. QED BY <1>7, <1>8

\* A record stands for an earlier bar.
Earlier(b) == b.bar \in Nat /\ (b.last.reason # "None" => b.last.bar \in Nat /\ b.last.bar < b.bar)

LEMMA StopDecidesFirst ==
  ASSUME StopBook(book), Earlier(book), plan \in StopPlans
  PROVE  Stops!StopsLookBack
<1> SUFFICES ASSUME ~plan.adaptive, NEW x \in StopBars
             PROVE  Stops!Cardinality({Stops!StoppedBy(Stops!OnBar(book, y).last) :
                                         y \in {y \in StopBars : Stops!Threat(y) = Stops!Threat(x)}}) = 1
  BY DEF Stops!StopsLookBack
<1>1. ASSUME NEW y, Stops!Threat(y) = Stops!Threat(x)
      PROVE  Stops!StoppedBy(Stops!OnBar(book, y).last) = Stops!StoppedBy(Stops!OnBar(book, x).last)
  <2>1. CASE plan.nextOpen
    <3> DEFINE d == Stops!DueFilled(book, x)
    <3>1. plan.fill = "Open" /\ x.open = y.open /\ x.volume = y.volume
      BY <1>1, <2>1, TimingAssumption DEF Stops!Threat
    <3>2. Stops!DueFilled(book, y) = d
      BY <3>1, StopFillsDue
    <3>3. /\ StopBook(d) /\ d.bar = book.bar
          /\ d.last = book.last \/ (d.last.reason = "Signal" /\ d.last.bar = book.bar)
      BY StopFillsFirst
    <3>4. Stops!OnBar(book, x).last = Stops!Managed(d, x, FALSE).last
      BY <2>1, StopSteps
    <3>5. Stops!OnBar(book, y).last = Stops!Managed(d, y, FALSE).last
      BY <2>1, <3>2, StopSteps
    <3> HIDE DEF d
    <3>6. Stops!StoppedBy(d.last) = Stops!NoExit
      BY <3>3 DEF Stops!StoppedBy, Earlier
    <3>9. ASSUME NEW signal
          PROVE  Stops!StoppedBy(Stops!Managed(d, y, signal).last) = Stops!StoppedBy(Stops!Managed(d, x, signal).last)
      BY <1>1, <3>3, <3>6, StopSeesOnlyTheThreat
    <3>7. Stops!StoppedBy(Stops!Managed(d, y, FALSE).last) = Stops!StoppedBy(Stops!Managed(d, x, FALSE).last)
      BY <3>9
    <3>8. QED BY <3>4, <3>5, <3>7
  <2>2. CASE ~plan.nextOpen
    <3>1. Stops!OnBar(book, x).last = Stops!Managed(book, x, x.exit).last
      BY <2>2, StopSteps
    <3>2. Stops!OnBar(book, y).last = Stops!Managed(book, y, y.exit).last
      BY <2>2, StopSteps
    <3>3. Stops!StoppedBy(book.last) = Stops!NoExit
      BY DEF Stops!StoppedBy, Earlier
    <3>4. QED BY <1>1, <3>1, <3>2, <3>3, StopSeesOnlyTheThreat
  <2>3. QED BY <2>1, <2>2
<1>2. {Stops!StoppedBy(Stops!OnBar(book, y).last) : y \in {y \in StopBars : Stops!Threat(y) = Stops!Threat(x)}}
        = {Stops!StoppedBy(Stops!OnBar(book, x).last)}
  BY <1>1
<1>3. QED
  BY <1>2, OneOutcome DEF Stops!Cardinality, Cardinality

-----------------------------------------------------------------------------
\* The shapes last: a book starts and goes on as a record of its own fields.
LEMMA BasketShape ==
  /\ Basket!Init => BasketBook(book)
  /\ BasketBook(book) /\ Basket!Next => BasketBook(book')
<1>1. ASSUME Basket!Init PROVE BasketBook(book)
  BY <1>1 DEF Basket!Init, BasketBook, Record
<1>2. ASSUME BasketBook(book), NEW bar PROVE BasketBook(Basket!OnBar(book, bar))
  <2>1. ASSUME NEW b, BasketBook(b), NEW x, NEW enters
        PROVE  BasketBook(Basket!Left(b, x)) /\ BasketBook(Basket!Entered(b, x, enters)) /\ BasketBook(Basket!Marked(b, x))
    BY <2>1, BasketKeepsItsFields
  <2>2. ASSUME NEW b, BasketBook(b), NEW x, NEW decided PROVE BasketBook(Basket!Seen(b, x, decided))
    BY <2>2, BasketKeepsItsFields
  <2>3. QED BY <1>2, <2>1, <2>2 DEF Basket!OnBar
<1>3. ASSUME BasketBook(book), Basket!Finish PROVE BasketBook(book')
  BY <1>3 DEF Basket!Finish, BasketBook, Record
<1>4. QED BY <1>1, <1>2, <1>3 DEF Basket!Next, Basket!Bar

LEMMA PairShape ==
  /\ Pairs!Init => PairBook(book)
  /\ PairBook(book) /\ Pairs!Next => PairBook(book')
<1>1. ASSUME Pairs!Init PROVE PairBook(book)
  BY <1>1 DEF Pairs!Init, PairBook, Record
<1>2. ASSUME PairBook(book), NEW bar PROVE PairBook(Pairs!OnBar(book, bar))
  <2>1. ASSUME NEW b, PairBook(b), NEW x, NEW enters
        PROVE  PairBook(Pairs!Left(b, x)) /\ PairBook(Pairs!Entered(b, x, enters))
    BY <2>1, PairKeepsItsFields
  <2>2. ASSUME NEW b, PairBook(b), NEW x, NEW decided PROVE PairBook(Pairs!Seen(b, x, decided))
    BY <2>2, PairKeepsItsFields
  <2>3. QED BY <1>2, <2>1, <2>2 DEF Pairs!OnBar
<1>3. ASSUME PairBook(book), Pairs!Finish PROVE PairBook(book')
  BY <1>3 DEF Pairs!Finish, PairBook, Record
<1>4. QED BY <1>1, <1>2, <1>3 DEF Pairs!Next, Pairs!Bar

LEMMA OptionShape ==
  /\ Options!Init => OptionBook(book)
  /\ OptionBook(book) /\ Options!Next => OptionBook(book')
<1>1. ASSUME Options!Init PROVE OptionBook(book)
  BY <1>1 DEF Options!Init, OptionBook, Record
<1>2. ASSUME OptionBook(book), NEW bar PROVE OptionBook(Options!OnBar(book, bar))
  <2>1. ASSUME NEW b, OptionBook(b), NEW x, NEW enters
        PROVE  OptionBook(Options!Left(b, x)) /\ OptionBook(Options!Entered(b, x, enters))
    BY <2>1, OptionKeepsItsFields
  <2>2. ASSUME NEW b, OptionBook(b), NEW x, NEW decided PROVE OptionBook(Options!Seen(b, x, decided))
    BY <2>2, OptionKeepsItsFields
  <2>3. QED BY <1>2, <2>1, <2>2 DEF Options!OnBar
<1>3. ASSUME OptionBook(book), Options!Finish PROVE OptionBook(book')
  <2>1. OptionBook(Options!Closed(book, book.value))
    BY <1>3 DEF OptionBook, Record, Options!Closed
  <2>2. ASSUME NEW b, OptionBook(b) PROVE OptionBook([b EXCEPT !.curve = b.cash, !.ended = TRUE])
    BY <2>2 DEF OptionBook, Record
  <2>3. QED BY <1>3, <2>1, <2>2 DEF Options!Finish
<1>4. QED BY <1>1, <1>2, <1>3 DEF Options!Next, Options!Bar

LEMMA SpreadShape ==
  /\ Spreads!Init => SpreadBook(book)
  /\ SpreadBook(book) /\ Spreads!Next => SpreadBook(book')
<1>1. ASSUME Spreads!Init PROVE SpreadBook(book)
  BY <1>1 DEF Spreads!Init, SpreadBook, Record
<1>2. ASSUME SpreadBook(book), NEW bar PROVE SpreadBook(Spreads!OnBar(book, bar))
  <2>1. ASSUME NEW b, SpreadBook(b), NEW x, NEW enters, NEW now
        PROVE  /\ SpreadBook(Spreads!Left(b, x, now)) /\ SpreadBook(Spreads!Entered(b, x, enters, now))
               /\ SpreadBook(Spreads!Seen(b, x, now))
    BY <2>1, SpreadKeepsItsFields
  <2>2. QED BY <1>2, <2>1 DEF Spreads!OnBar
<1>3. ASSUME SpreadBook(book), Spreads!Finish PROVE SpreadBook(book')
  <2>1. SpreadBook(Spreads!Recorded(book, book.spread, "EndOfData"))
    BY <1>3 DEF SpreadBook, Record, Spreads!Recorded
  <2>2. ASSUME NEW b, SpreadBook(b) PROVE SpreadBook([b EXCEPT !.ended = TRUE])
    BY <2>2 DEF SpreadBook, Record
  <2>3. QED BY <1>3, <2>1, <2>2 DEF Spreads!Finish
<1>4. QED BY <1>1, <1>2, <1>3 DEF Spreads!Next, Spreads!Bar

StopShaped == StopBook(book) /\ Earlier(book) /\ plan \in StopPlans

LEMMA StopShape ==
  /\ Stops!Init => StopShaped
  /\ StopShaped /\ Stops!Next => StopShaped'
<1>1. ASSUME Stops!Init PROVE StopShaped
  BY <1>1 DEF Stops!Init, StopShaped, StopBook, Record, StopFields, Earlier, Stops!Holds, Stops!None, Stops!NoExit
<1>2. ASSUME StopShaped, NEW bar \in StopBars, Stops!Bar(bar) PROVE StopShaped'
  <2>1. book' = Stops!OnBar(book, bar) /\ plan' = plan
    BY <1>2 DEF Stops!Bar
  <2>2. /\ StopBook(book') /\ book'.bar = book.bar + 1
        /\ book'.last = book.last \/ (book'.last.reason # "None" /\ book'.last.bar = book.bar)
    BY <1>2, <2>1, StopSteps DEF StopShaped
  <2>3. Earlier(book')
    BY <1>2, <2>2 DEF StopShaped, Earlier
  <2>4. QED BY <1>2, <2>1, <2>2, <2>3 DEF StopShaped
<1>3. QED BY <1>1, <1>2 DEF Stops!Next

Shaped ==
  /\ In("basket", BasketBook(book))
  /\ In("pairs", PairBook(book))
  /\ In("options", OptionBook(book))
  /\ In("spreads", SpreadBook(book))
  /\ In("stops", StopShaped)

(* Every array simulator, whatever the bars: under the next-bar-open timing a *)
(* fill is the same on every bar that opens alike, and a stop on every bar   *)
(* that opens alike and reaches as far against the holder.                  *)
THEOREM FillsAreDecidedFirst == Spec => []DecidedBeforeFilled
<1>1. Init => Shaped
  BY BasketShape, PairShape, OptionShape, SpreadShape, StopShape DEF Init, Shaped, In
<1>2. Shaped /\ [Next]_vars => Shaped'
  <2> SUFFICES ASSUME Shaped, [Next]_vars PROVE Shaped'
    OBVIOUS
  <2>1. CASE UNCHANGED vars
    BY <2>1 DEF vars, Shaped, In, StopShaped
  <2>2. CASE Next
    <3>1. part' = part
      BY <2>2 DEF Next
    <3>2. CASE part = "basket"
      BY <2>2, <3>1, <3>2, BasketShape DEF Next, Shaped, In
    <3>3. CASE part = "pairs"
      BY <2>2, <3>1, <3>3, PairShape DEF Next, Shaped, In
    <3>4. CASE part = "options"
      BY <2>2, <3>1, <3>4, OptionShape DEF Next, Shaped, In
    <3>5. CASE part = "spreads"
      BY <2>2, <3>1, <3>5, SpreadShape DEF Next, Shaped, In
    <3>6. CASE part = "stops"
      BY <2>2, <3>1, <3>6, StopShape DEF Next, Shaped, In
    <3>7. CASE part \notin {"basket", "pairs", "options", "spreads", "stops"}
      BY <3>1, <3>7 DEF Shaped, In
    <3>8. QED BY <3>2, <3>3, <3>4, <3>5, <3>6, <3>7
  <2>3. QED BY <2>1, <2>2
<1>3. Shaped => DecidedBeforeFilled
  BY BasketDecidesFirst, PairDecidesFirst, OptionDecidesFirst, SpreadDecidesFirst, StopDecidesFirst
     DEF Shaped, DecidedBeforeFilled, In, StopShaped
<1>4. QED
  BY <1>1, <1>2, <1>3, PTL DEF Spec

-----------------------------------------------------------------------------
(* The pool: what a halt leaves open.                                       *)

KernelFields == {"size", "price", "fees", "since", "entry", "exit"}
StepFields == {"kernel", "cash", "booked", "entered"}
PoolFields == {"bar", "counts", "kernels", "cash", "curve", "peak", "booked", "rejected", "halted", "last", "ended"}

\* A kernel asked to leave has no entry waiting.
Kernel(k) == Record(k, KernelFields) /\ (k.exit => k.entry = 0)
StepState(s) == Record(s, StepFields) /\ Record(s.kernel, KernelFields)

LEMMA PoolSells ==
  ASSUME NEW s, StepState(s), NEW price
  PROVE  LET t == Pool!Sold(s, price) IN
         /\ StepState(t) /\ ~Pool!InPosition(t.kernel)
         /\ t.kernel.entry = s.kernel.entry /\ t.kernel.exit = s.kernel.exit
<1> DEFINE c == s.cash + price * s.kernel.size - Pool!FeeOn(price, s.kernel.size)
           d == s.booked + (price - s.kernel.price) * s.kernel.size - s.kernel.fees - Pool!FeeOn(price, s.kernel.size)
           t == Pool!Sold(s, price)
<1>1. t = [s EXCEPT !.cash = c, !.booked = d,
                    !.kernel = [s.kernel EXCEPT !.size = 0, !.price = 0, !.fees = 0, !.since = 0]]
  BY DEF Pool!Sold
<1> HIDE DEF c, d, t
<1>2. /\ StepState(t) /\ t.kernel.size = 0
      /\ t.kernel.entry = s.kernel.entry /\ t.kernel.exit = s.kernel.exit
  BY <1>1 DEF StepState, Record, StepFields, KernelFields
<1>3. QED BY <1>2 DEF t, Pool!InPosition

LEMMA PoolBuys ==
  ASSUME NEW s, StepState(s), NEW price, NEW decided
  PROVE  LET t == Pool!Bought(s, price, decided) IN
         /\ StepState(t)
         /\ t.kernel.entry = s.kernel.entry /\ t.kernel.exit = s.kernel.exit
<1> DEFINE z == (1000 * s.cash) \div (price * (1000 + plan.rate))
           c == s.cash - price * z - Pool!FeeOn(price, z)
           f == Pool!FeeOn(price, z)
           t == [s EXCEPT !.cash = c, !.entered = TRUE,
                          !.kernel = [@ EXCEPT !.size = z, !.price = price, !.fees = f, !.since = decided]]
<1>1. Pool!Bought(s, price, decided) = IF z = 0 THEN s ELSE t
  BY DEF Pool!Bought
<1> HIDE DEF c, z, f
<1>2. /\ StepState(t)
      /\ t.kernel.entry = s.kernel.entry /\ t.kernel.exit = s.kernel.exit
  BY DEF StepState, Record, StepFields, KernelFields
<1> HIDE DEF t
<1>3. QED BY <1>1, <1>2

LEMMA PoolDefers ==
  ASSUME NEW s, StepState(s), NEW bar
  PROVE  LET t == Pool!Deferred(s, bar) IN
         /\ StepState(t) /\ t.kernel.entry = 0 /\ t.kernel.exit = FALSE
         /\ Pool!InPosition(s.kernel) /\ (s.kernel.exit => s.kernel.entry = 0) /\ Pool!InPosition(t.kernel)
              => t.kernel.since = s.kernel.since
<1> DEFINE k == s.kernel
           sells == k.exit /\ Pool!InPosition(k)
           sold == IF sells THEN Pool!Sold(s, bar.open) ELSE s
           buys == k.entry > 0 /\ ~Pool!InPosition(sold.kernel)
           filled == IF buys THEN Pool!Bought(sold, bar.open, k.entry) ELSE sold
<1>1. StepState(sold) /\ sold.kernel.entry = k.entry
  BY PoolSells
<1>2. StepState(filled)
  <2>1. ASSUME NEW t, StepState(t) PROVE StepState(Pool!Bought(t, bar.open, k.entry))
    BY <2>1, PoolBuys
  <2> HIDE DEF sold
  <2>2. QED BY <1>1, <2>1
<1>3. Pool!InPosition(k) /\ (k.exit => k.entry = 0) /\ Pool!InPosition(filled.kernel) => filled.kernel.since = k.since
  <2> SUFFICES ASSUME Pool!InPosition(k), k.exit => k.entry = 0, Pool!InPosition(filled.kernel)
               PROVE  filled.kernel.since = k.since
    OBVIOUS
  <2>1. CASE sells
    <3>1. ~buys
      BY <2>1
    <3>2. ~Pool!InPosition(sold.kernel)
      BY <2>1, PoolSells
    <3>3. QED BY <3>1, <3>2
  <2>2. CASE ~sells
    BY <2>2
  <2>3. QED BY <2>1, <2>2
<1>4. Pool!Deferred(s, bar) = [filled EXCEPT !.kernel.entry = 0, !.kernel.exit = FALSE]
  BY DEF Pool!Deferred
<1>5. ASSUME NEW f, StepState(f)
      PROVE  LET t == [f EXCEPT !.kernel.entry = 0, !.kernel.exit = FALSE] IN
             /\ StepState(t) /\ t.kernel.entry = 0 /\ t.kernel.exit = FALSE
             /\ t.kernel.since = f.kernel.since /\ t.kernel.size = f.kernel.size
  BY <1>5 DEF StepState, Record, StepFields, KernelFields
<1> HIDE DEF filled
<1>6. QED BY <1>2, <1>3, <1>4, <1>5 DEF Pool!InPosition

LEMMA PoolExits ==
  ASSUME NEW s, StepState(s), NEW bar, NEW exit
  PROVE  LET t == Pool!Exits(s, bar, exit) IN
         /\ StepState(t)
         /\ t.kernel.entry = s.kernel.entry /\ t.kernel.exit = s.kernel.exit
         /\ t = s \/ ~Pool!InPosition(t.kernel)
<1>1. ASSUME NEW price
      PROVE  LET t == Pool!Sold(s, price) IN
             /\ StepState(t) /\ ~Pool!InPosition(t.kernel)
             /\ t.kernel.entry = s.kernel.entry /\ t.kernel.exit = s.kernel.exit
  BY PoolSells
<1>2. \/ Pool!Exits(s, bar, exit) = s
      \/ \E price : Pool!Exits(s, bar, exit) = Pool!Sold(s, price)
  <2> DEFINE k == s.kernel
             stopped == plan.stop > 0 /\ bar.low <= Pool!Under(k.price)
  <2>1. CASE Pool!InPosition(k) /\ stopped
    BY <2>1 DEF Pool!Exits
  <2>2. CASE Pool!InPosition(k) /\ ~stopped /\ exit /\ ~plan.nextOpen
    BY <2>2 DEF Pool!Exits
  <2>3. CASE ~(Pool!InPosition(k) /\ stopped) /\ ~(Pool!InPosition(k) /\ ~stopped /\ exit /\ ~plan.nextOpen)
    BY <2>3 DEF Pool!Exits
  <2>4. QED BY <2>1, <2>2, <2>3
<1>3. QED BY <1>1, <1>2

LEMMA PoolEnters ==
  ASSUME NEW s, StepState(s), NEW bar, NEW now
  PROVE  /\ Pool!Entries(s, bar, FALSE, now) = s
         /\ LET t == Pool!Entries(s, bar, TRUE, now) IN
            /\ StepState(t) /\ t.kernel.exit = s.kernel.exit
            /\ ~plan.nextOpen => t.kernel.entry = s.kernel.entry
<1>1. Pool!Entries(s, bar, FALSE, now) = s
  BY DEF Pool!Entries
<1>2. CASE plan.nextOpen
  BY <1>1, <1>2 DEF Pool!Entries, StepState, Record, StepFields, KernelFields
<1>3. CASE ~plan.nextOpen
  <2>1. Pool!Entries(s, bar, TRUE, now) = s \/ Pool!Entries(s, bar, TRUE, now) = Pool!Bought(s, bar.close, now)
    BY <1>3 DEF Pool!Entries
  <2>2. LET t == Pool!Bought(s, bar.close, now) IN
        StepState(t) /\ t.kernel.entry = s.kernel.entry /\ t.kernel.exit = s.kernel.exit
    BY PoolBuys
  <2>3. QED BY <1>1, <1>3, <2>1, <2>2
<1>4. QED BY <1>2, <1>3

\* A step on a held kernel: what is still held after it is the same position.
Stays(k, l) == Kernel(l) /\ (Pool!InPosition(l) => l.since = k.since)

LEMMA PoolStepKeeps ==
  ASSUME NEW k, Kernel(k), Pool!InPosition(k), NEW lent, NEW bar, NEW leave, NEW now
  PROVE  Stays(k, Pool!KernelStep(k, lent, bar, FALSE, leave, now).kernel)
<1> DEFINE s == [kernel |-> k, cash |-> lent, booked |-> 0, entered |-> FALSE]
           opened == IF plan.nextOpen THEN Pool!Deferred(s, bar) ELSE s
           stashed == IF plan.nextOpen /\ leave THEN [opened EXCEPT !.kernel.exit = TRUE] ELSE opened
           exited == Pool!Exits(stashed, bar, leave)
           Same(t) == Pool!InPosition(t.kernel) => t.kernel.since = k.since
<1>1. StepState(s) /\ s.kernel = k
  BY DEF StepState, Record, StepFields, Kernel
<1>2. Pool!KernelStep(k, lent, bar, FALSE, leave, now) = Pool!Entries(exited, bar, FALSE, now)
  BY DEF Pool!KernelStep
<1> HIDE DEF s
<1>3. StepState(opened) /\ Same(opened) /\ (opened.kernel.exit => opened.kernel.entry = 0)
      /\ (plan.nextOpen => opened.kernel.entry = 0)
  BY <1>1, PoolDefers DEF Kernel
<1> HIDE DEF opened
<1>4. StepState(stashed) /\ Same(stashed) /\ (stashed.kernel.exit => stashed.kernel.entry = 0)
  <2>1. LET t == [opened EXCEPT !.kernel.exit = TRUE] IN
        StepState(t) /\ t.kernel.entry = opened.kernel.entry /\ t.kernel.since = opened.kernel.since
        /\ t.kernel.size = opened.kernel.size
    BY <1>3 DEF StepState, Record, StepFields, KernelFields
  <2>2. QED BY <1>3, <2>1 DEF Pool!InPosition
<1> HIDE DEF stashed
<1>5. StepState(exited) /\ Same(exited) /\ (exited.kernel.exit => exited.kernel.entry = 0)
  BY <1>4, PoolExits
<1> HIDE DEF exited
<1>6. Pool!Entries(exited, bar, FALSE, now) = exited
  BY <1>5, PoolEnters
<1>7. Stays(k, exited.kernel)
  BY <1>5 DEF Stays, StepState, Kernel
<1>8. QED BY <1>2, <1>6, <1>7

\* A step on a flat one keeps the shape.
LEMMA PoolStepEnters ==
  ASSUME NEW k, Kernel(k), NEW lent, NEW bar, NEW now
  PROVE  Kernel(Pool!KernelStep(k, lent, bar, TRUE, FALSE, now).kernel)
<1> DEFINE s == [kernel |-> k, cash |-> lent, booked |-> 0, entered |-> FALSE]
           opened == IF plan.nextOpen THEN Pool!Deferred(s, bar) ELSE s
           exited == Pool!Exits(opened, bar, FALSE)
           entered == Pool!Entries(exited, bar, TRUE, now)
<1>1. StepState(s) /\ s.kernel = k
  BY DEF StepState, Record, StepFields, Kernel
<1>2. Pool!KernelStep(k, lent, bar, TRUE, FALSE, now) = entered
  BY DEF Pool!KernelStep
<1> HIDE DEF s
<1>3. /\ StepState(opened) /\ (opened.kernel.exit => opened.kernel.entry = 0)
      /\ plan.nextOpen => opened.kernel.exit = FALSE
  BY <1>1, PoolDefers DEF Kernel
<1> HIDE DEF opened
<1>4. /\ StepState(exited) /\ (exited.kernel.exit => exited.kernel.entry = 0)
      /\ plan.nextOpen => exited.kernel.exit = FALSE
  <2>1. ASSUME NEW exit
        PROVE  LET t == Pool!Exits(opened, bar, exit) IN
               /\ StepState(t)
               /\ t.kernel.entry = opened.kernel.entry /\ t.kernel.exit = opened.kernel.exit
    BY <1>3, PoolExits
  <2>2. /\ StepState(exited)
        /\ exited.kernel.entry = opened.kernel.entry /\ exited.kernel.exit = opened.kernel.exit
    BY <2>1
  <2> HIDE DEF exited
  <2>3. QED BY <1>3, <2>2
<1> HIDE DEF exited
<1>5. StepState(entered) /\ entered.kernel.exit = exited.kernel.exit
      /\ (~plan.nextOpen => entered.kernel.entry = exited.kernel.entry)
  BY <1>4, PoolEnters
<1> HIDE DEF entered
<1>6. QED BY <1>2, <1>4, <1>5 DEF StepState, Kernel

\* The fields of the pool's book, and of its kernels.
PoolBook(b) ==
  /\ Record(b, PoolFields)
  /\ b.kernels = [n \in Pool!Names |-> b.kernels[n]]
  /\ \A n \in Pool!Names : Kernel(b.kernels[n])

\* The positions of c are positions of b.
Continues(b, c) ==
  \A n \in Pool!Held(c) : n \in Pool!Held(b) /\ c.kernels[n].since = b.kernels[n].since

LEMMA PoolExitsKeep ==
  ASSUME NEW b, PoolBook(b), NEW bar
  PROVE  LET c == Pool!ExitPhase(b, bar) IN
         PoolBook(c) /\ c.halted = b.halted /\ Continues(b, c)
<1> DEFINE c == Pool!ExitPhase(b, bar)
           left == [n \in Pool!Names |-> Pool!Left(b, bar, n).kernel]
           cash == b.cash + Pool!Over(Pool!Held(b), LAMBDA n : Pool!Left(b, bar, n).cash)
           booked == b.booked + Pool!Over(Pool!Held(b), LAMBDA n : Pool!Left(b, bar, n).booked)
           after == [n \in Pool!Names |-> IF n \in Pool!Held(b) THEN left[n] ELSE b.kernels[n]]
<1>1. c = [b EXCEPT !.kernels = after, !.cash = cash, !.booked = booked]
  BY DEF Pool!ExitPhase
<1>2. ASSUME NEW n \in Pool!Held(b)
      PROVE  Kernel(left[n]) /\ (Pool!InPosition(left[n]) => left[n].since = b.kernels[n].since)
  <2> DEFINE k == b.kernels[n]
             own == bar[n]
             leave == Pool!CleanedAt(b, bar, n).leave
             now == b.bar
             lent == 0
  <2>1. Kernel(k) /\ Pool!InPosition(k) /\ n \in Pool!Names
    BY DEF PoolBook, Pool!Held
  <2>2. left[n] = Pool!KernelStep(k, lent, own, FALSE, leave, now).kernel
    BY <2>1 DEF Pool!Left
  <2> HIDE DEF left, k, own, leave, now, lent
  <2>3. Stays(k, Pool!KernelStep(k, lent, own, FALSE, leave, now).kernel)
    BY <2>1, PoolStepKeeps
  <2>4. QED BY <2>2, <2>3 DEF k, Stays
<1> HIDE DEF cash, booked, left
<1>3. /\ \A n \in Pool!Names : Kernel(after[n])
      /\ \A n \in Pool!Names : Pool!InPosition(after[n]) =>
           n \in Pool!Held(b) /\ after[n].since = b.kernels[n].since
  BY <1>2 DEF PoolBook, Pool!Held
<1>4. after = [n \in Pool!Names |-> after[n]]
  OBVIOUS
<1> HIDE DEF after, c
<1>5. Record(c, PoolFields) /\ c.kernels = after /\ c.halted = b.halted
  BY <1>1 DEF PoolBook, Record, PoolFields
<1>6. QED BY <1>3, <1>4, <1>5 DEF PoolBook, Continues, Pool!Held, c

-----------------------------------------------------------------------------
\* What holds of zero and passes from each number to the next holds up to any.
LEMMA UpTo ==
  ASSUME NEW N \in Nat, NEW S, 0 \in S, \A n \in 1..N : n - 1 \in S => n \in S
  PROVE  \A n \in 0..N : n \in S
<1> DEFINE Bad == {n \in 0..N : n \notin S}
<1> SUFFICES ASSUME Bad # {} PROVE FALSE
  OBVIOUS
<1>1. PICK m \in Bad : \A n \in Bad : m <= n
  <2>1. Bad \in SUBSET Nat
    OBVIOUS
  <2> HIDE DEF Bad
  <2>2. QED BY <2>1, LeastNumber
<1>2. m \in 1..N /\ m - 1 \in 0..N
  BY <1>1
<1>3. m - 1 \in S
  BY <1>1, <1>2
<1>4. QED BY <1>1, <1>2, <1>3

\* The turns of a bar, one after the other.
Begins(b) == [b |-> b, open |-> Pool!Cardinality(Pool!Held(b))]
After(g, b, bar, n) == IF n = 0 THEN Begins(b) ELSE Pool!Turn(g[n - 1], bar, n)
Takes(g, b, bar) == g = [n \in 0..plan.names |-> After(g, b, bar, n)]

LEMMA TurnsAreTaken ==
  ASSUME NEW b, NEW bar, plan.names \in Nat
  PROVE  \E g : Takes(g, b, bar)
<1> DEFINE Upto(g, m) == \A n \in 0..m : g[n] = After(g, b, bar, n)
           S == {m \in Nat : \E g : Upto(g, m)}
<1>1. 0 \in S
  <2> DEFINE g == [n \in {0} |-> Begins(b)]
  <2>1. Upto(g, 0)
    BY DEF After
  <2>2. QED BY <2>1
<1>2. ASSUME NEW n \in 1..plan.names, n - 1 \in S PROVE n \in S
  <2>1. PICK g : Upto(g, n - 1)
    BY <1>2
  <2> DEFINE h == [i \in 0..n |-> IF i = n THEN Pool!Turn(g[n - 1], bar, n) ELSE g[i]]
  <2>2. ASSUME NEW i \in 0..n PROVE h[i] = After(h, b, bar, i)
    <3>1. CASE i = n
      BY <3>1 DEF After
    <3>2. CASE i = 0
      <4>1. h[0] = g[0] /\ g[0] = Begins(b)
        BY <2>1, <3>2 DEF After
      <4>2. QED BY <3>2, <4>1 DEF After
    <3>3. CASE i # n /\ i # 0
      <4>1. i \in 0..(n - 1) /\ i - 1 \in 0..n /\ i - 1 # n
        BY <3>3
      <4>2. h[i] = g[i] /\ h[i - 1] = g[i - 1] /\ g[i] = After(g, b, bar, i)
        BY <2>1, <3>3, <4>1
      <4> HIDE DEF h
      <4>3. QED BY <3>3, <4>2 DEF After
    <3>4. QED BY <3>1, <3>2, <3>3
  <2>3. Upto(h, n)
    BY <2>2
  <2> HIDE DEF Upto
  <2>4. QED BY <2>3
<1>3. plan.names \in S
  <2> HIDE DEF S
  <2>1. QED BY <1>1, <1>2, UpTo
<1>4. PICK g : Upto(g, plan.names)
  BY <1>3
<1> DEFINE h == [n \in 0..plan.names |-> g[n]]
<1>5. ASSUME NEW n \in 0..plan.names PROVE h[n] = After(h, b, bar, n)
  <2>1. h[n] = g[n] /\ g[n] = After(g, b, bar, n)
    BY <1>4
  <2>2. n # 0 => h[n - 1] = g[n - 1]
    OBVIOUS
  <2> HIDE DEF h
  <2>3. QED BY <2>1, <2>2 DEF After
<1>6. h = [n \in 0..plan.names |-> After(h, b, bar, n)]
  <2>1. DOMAIN h = 0..plan.names /\ h = [n \in 0..plan.names |-> h[n]]
    OBVIOUS
  <2> HIDE DEF h
  <2>2. QED BY <1>5, <2>1
<1> HIDE DEF h
<1>7. QED BY <1>6 DEF Takes

LEMMA EntryPhaseTakes ==
  ASSUME NEW b, NEW bar, plan.names \in Nat
  PROVE  \E g : Takes(g, b, bar) /\ Pool!EntryPhase(b, bar) = g[plan.names].b
<1> DEFINE g == CHOOSE g : Takes(g, b, bar)
<1>1. Takes(g, b, bar)
  BY TurnsAreTaken
<1>2. Pool!EntryPhase(b, bar) = g[plan.names].b
  BY DEF Pool!EntryPhase, Takes, After, Begins
<1>3. QED BY <1>1, <1>2

\* Once the halt is latched nobody takes a turn: only refusals are counted.
Refused(b, c) == PoolBook(c) /\ c.halted = b.halted /\ (b.halted => c.kernels = b.kernels)

LEMMA TurnKeeps ==
  ASSUME NEW b, NEW acc, Refused(b, acc.b), NEW bar, NEW n \in Pool!Names
  PROVE  Refused(b, Pool!Turn(acc, bar, n).b)
<1> DEFINE lent == Pool!Lent(acc)
           k == acc.b.kernels[n]
           own == bar[n]
           now == acc.b.bar
           s == Pool!Lends(acc, bar, n)
           c == acc.b.cash - (lent - s.cash)
           d == [acc.b EXCEPT !.kernels[n] = s.kernel, !.cash = c]
           e == [acc EXCEPT !.b.rejected = @ + 1]
<1>1. \/ Pool!Turn(acc, bar, n) = acc
      \/ Pool!Turn(acc, bar, n) = e
      \/ ~acc.b.halted /\ Pool!Turn(acc, bar, n).b = d
  BY DEF Pool!Turn, Pool!Admitted
<1>2. CASE Pool!Turn(acc, bar, n) = acc
  BY <1>2
<1>3. CASE Pool!Turn(acc, bar, n) = e
  <2>1. Refused(b, e.b)
    BY DEF Refused, PoolBook, Record, PoolFields
  <2>2. QED BY <1>3, <2>1
<1>4. CASE ~acc.b.halted /\ Pool!Turn(acc, bar, n).b = d
  <2>1. Kernel(s.kernel)
    <3>1. s = Pool!KernelStep(k, lent, own, TRUE, FALSE, now)
      BY DEF Pool!Lends
    <3>2. Kernel(k)
      BY DEF Refused, PoolBook
    <3> HIDE DEF k, lent, own, now, s
    <3>3. QED BY <3>1, <3>2, PoolStepEnters
  <2> DEFINE l == s.kernel
             fs == [acc.b.kernels EXCEPT ![n] = l]
  <2>2. d = [acc.b EXCEPT !.kernels = fs, !.cash = c]
    BY DEF Refused, PoolBook, Record, PoolFields
  <2> HIDE DEF l, c
  <2>3. fs = [m \in Pool!Names |-> fs[m]] /\ \A m \in Pool!Names : Kernel(fs[m])
    <3>1. Kernel(l)
      BY <2>1 DEF l
    <3>2. QED BY <3>1 DEF Refused, PoolBook
  <2> HIDE DEF fs, d
  <2>4. Record(d, PoolFields) /\ d.kernels = fs /\ d.halted = acc.b.halted
    BY <2>2 DEF Refused, PoolBook, Record, PoolFields
  <2>5. PoolBook(d)
    BY <2>3, <2>4 DEF PoolBook
  <2>6. QED BY <1>4, <2>4, <2>5 DEF Refused
<1>5. QED BY <1>1, <1>2, <1>3, <1>4

LEMMA PoolEntriesKeep ==
  ASSUME NEW b, PoolBook(b), NEW bar, plan.names \in Nat
  PROVE  Refused(b, Pool!EntryPhase(b, bar))
<1>1. PICK g : Takes(g, b, bar) /\ Pool!EntryPhase(b, bar) = g[plan.names].b
  BY EntryPhaseTakes
<1> DEFINE S == {n \in 0..plan.names : Refused(b, g[n].b)}
<1>2. 0 \in S
  BY <1>1 DEF Takes, After, Begins, Refused
<1>3. ASSUME NEW n \in 1..plan.names, n - 1 \in S PROVE n \in S
  <2>1. g[n] = Pool!Turn(g[n - 1], bar, n)
    BY <1>1 DEF Takes, After
  <2>2. Refused(b, Pool!Turn(g[n - 1], bar, n).b)
    <3> DEFINE acc == g[n - 1]
    <3>1. Refused(b, acc.b) /\ n \in Pool!Names
      BY <1>3 DEF Pool!Names
    <3> HIDE DEF acc
    <3>2. Refused(b, Pool!Turn(acc, bar, n).b)
      BY <3>1, TurnKeeps
    <3>3. QED BY <3>2 DEF acc
  <2>3. QED BY <2>1, <2>2
<1> HIDE DEF S
<1>4. \A n \in 0..plan.names : n \in S
  BY <1>2, <1>3, UpTo
<1>5. plan.names \in S
  BY <1>4
<1>6. QED BY <1>1, <1>5 DEF S
-----------------------------------------------------------------------------
\* A bar, and a whole run.
LEMMA PoolBarKeeps ==
  ASSUME NEW b, PoolBook(b), NEW bar, plan.names \in Nat
  PROVE  LET c == Pool!OnBar(b, bar) IN
         PoolBook(c) /\ (b.halted => Continues(b, c))
<1> DEFINE a == [b EXCEPT !.bar = @ + 1]
           x == Pool!ExitPhase(a, bar)
           y == Pool!EntryPhase(x, bar)
           z == Pool!Marked(y, bar)
           counts == [n \in Pool!Names |-> Pool!CountAfter(b.counts[n], 1, Pool!CleanedAt(b, bar, n))]
           last == [n \in Pool!Names |-> bar[n].close]
           c == [z EXCEPT !.counts = counts, !.last = last]
<1>1. Pool!OnBar(b, bar) = c
  BY DEF Pool!OnBar
<1>2. PoolBook(a) /\ a.halted = b.halted /\ a.kernels = b.kernels
  BY DEF PoolBook, Record, PoolFields
<1> HIDE DEF a
<1>3. PoolBook(x) /\ x.halted = b.halted /\ Continues(b, x)
  <2>1. PoolBook(x) /\ x.halted = a.halted /\ Continues(a, x)
    BY <1>2, PoolExitsKeep
  <2>2. QED BY <1>2, <2>1 DEF Continues, Pool!Held
<1> HIDE DEF x
<1>4. Refused(x, y)
  BY <1>3, PoolEntriesKeep
<1> HIDE DEF y
<1>5. PoolBook(z) /\ z.kernels = y.kernels
  <2> DEFINE equity == y.cash + Pool!Over(Pool!Names, LAMBDA n : y.kernels[n].size * bar[n].close)
             peak == Pool!GreaterOf(y.peak, equity)
             halted == y.halted \/ (plan.maxDrawdown > 0 /\ (peak - equity) * 100 >= plan.maxDrawdown * peak)
  <2>1. z = [y EXCEPT !.curve = equity, !.peak = peak, !.halted = halted]
    BY DEF Pool!Marked
  <2> HIDE DEF z, equity, peak, halted
  <2>2. QED BY <1>4, <2>1 DEF Refused, PoolBook, Record, PoolFields
<1> HIDE DEF z, counts, last
<1>6. PoolBook(c) /\ c.kernels = y.kernels
  BY <1>5 DEF PoolBook, Record, PoolFields
<1> HIDE DEF c
<1>7. b.halted => Continues(b, c)
  BY <1>3, <1>4, <1>6 DEF Refused, Continues, Pool!Held
<1>8. QED BY <1>1, <1>6, <1>7

PoolShaped ==
  part = "pool" => plan \in PoolPlans /\ PoolBook(book)

\* Once the drawdown halt is latched, nothing is held that was not held before:
\* no instrument opens a position, and none closes and opens again.
THEOREM HaltIsFinal == Spec => HaltOpensNothing
<1>1. Init => PoolShaped
  <2> SUFFICES ASSUME Init, part = "pool" PROVE PoolShaped
    BY DEF PoolShaped
  <2>1. plan \in PoolPlans /\ Pool!Init
    BY DEF Init, Pool!Init
  <2>2. PoolBook(book)
    BY <2>1 DEF Pool!Init, Pool!Idle, PoolBook, Kernel, Record, PoolFields, KernelFields
  <2>3. QED BY <2>1, <2>2 DEF PoolShaped
<1>2. PoolShaped /\ [Next]_vars => PoolShaped' /\ (part = "pool" => Pool!HaltHolds(book'))
  <2> SUFFICES ASSUME PoolShaped, [Next]_vars
               PROVE  PoolShaped' /\ (part = "pool" => Pool!HaltHolds(book'))
    OBVIOUS
  <2>1. CASE part # "pool"
    BY <2>1 DEF Next, vars, PoolShaped
  <2>2. CASE part = "pool" /\ UNCHANGED vars
    <3>1. book' = book /\ plan' = plan /\ part' = part
      BY <2>2 DEF vars
    <3>2. PoolShaped'
      BY <3>1 DEF PoolShaped, PoolBook, Pool!Names
    <3>3. Pool!HaltHolds(book')
      BY <3>1 DEF Pool!HaltHolds
    <3>4. QED BY <3>2, <3>3
  <2>3. CASE part = "pool" /\ Next
    <3>1. /\ part' = part /\ plan' = plan /\ plan.names \in Nat
          /\ PoolBook(book)
          /\ (\E bar \in PoolBars : Pool!Bar(bar)) \/ Pool!Finish
      BY <2>3, PoolAssumption DEF Next, Pool!Next, PoolShaped, Pool!Bar, Pool!Finish
    <3>2. CASE \E bar \in PoolBars : Pool!Bar(bar)
      <4>1. PICK bar \in PoolBars : book' = Pool!OnBar(book, bar)
        BY <3>2 DEF Pool!Bar
      <4>2. PoolBook(book') /\ (book.halted => Continues(book, book'))
        BY <3>1, <4>1, PoolBarKeeps
      <4>3. QED BY <3>1, <4>2 DEF PoolShaped, PoolBook, Continues, Pool!HaltHolds, Pool!Held, Pool!Names
    <3>3. CASE Pool!Finish
      <4> DEFINE gone == [n \in Pool!Names |-> Pool!Idle]
      <4>1. PICK cash, booked : book' = [book EXCEPT !.cash = cash, !.curve = cash, !.ended = TRUE,
                                                     !.booked = booked, !.kernels = gone]
        BY <3>3 DEF Pool!Finish
      <4>2. \A n \in Pool!Names : Kernel(gone[n]) /\ ~Pool!InPosition(gone[n])
        BY DEF Kernel, Record, KernelFields, Pool!Idle, Pool!InPosition
      <4>3. gone = [n \in Pool!Names |-> gone[n]]
        OBVIOUS
      <4> HIDE DEF gone
      <4>4. Record(book', PoolFields) /\ book'.kernels = gone
        BY <3>1, <4>1 DEF PoolBook, Record, PoolFields
      <4>5. PoolBook(book') /\ Pool!Held(book') = {}
        BY <4>2, <4>3, <4>4 DEF PoolBook, Pool!Held
      <4>6. QED BY <3>1, <4>5 DEF PoolShaped, PoolBook, Pool!HaltHolds, Pool!Names
    <3>4. QED BY <3>1, <3>2, <3>3
  <2>4. QED BY <2>1, <2>2, <2>3
<1>3. QED
  BY <1>1, <1>2, PTL DEF Spec, HaltOpensNothing

-----------------------------------------------------------------------------
(* What a trade pays is a number. *)

LEMMA PortionIsInt ==
  ASSUME NEW r \in Int, NEW v \in Int
  PROVE  Portion(r, v) \in Int
BY DEF Portion

LEMMA ChargesAreInt ==
  ASSUME NEW schedule \in Rates, NEW value \in Int, NEW direction, NEW isEntry
  PROVE  LET c == Charges(schedule, value, direction, isEntry) IN
         /\ c.brokerage \in Int /\ c.stt \in Int /\ c.exchange \in Int /\ c.stamp \in Int /\ c.gst \in Int
         /\ Total(c) \in Int
<1> DEFINE b == Brokerage(schedule, value)
           x == Portion(schedule.exchange, value)
           t == Portion(schedule.stt, value)
           d == Portion(schedule.stamp, value)
           g == Portion(schedule.gst, b + x)
<1>1. b \in Int /\ x \in Int /\ t \in Int /\ d \in Int
  BY PortionIsInt DEF Rates, Brokerage, LesserOf
<1>2. b + x \in Int
  BY <1>1
<1> HIDE DEF b, x, t, d
<1>3. g \in Int
  BY <1>2, PortionIsInt DEF Rates
<1> HIDE DEF g
<1>4. QED
  BY <1>1, <1>3 DEF Charges, Total, b, x, t, d, g

LEMMA TierRateIsInt ==
  ASSUME NEW tiers \in Seq([from : Int, rate : Int]), NEW value \in Int
  PROVE  TierRate(tiers, value) \in Int
<1> DEFINE reached == {i \in DOMAIN tiers : \A j \in 1..i : value >= tiers[j].from}
<1>1. Len(tiers) \in Nat /\ DOMAIN tiers = 1..Len(tiers)
  OBVIOUS
<1>2. IsFiniteSet(DOMAIN tiers) /\ Cardinality(DOMAIN tiers) = Len(tiers)
  <2>1. \A n \in Nat : IsFiniteSet(1..n) /\ Cardinality(1..n) = n
    BY FS_Interval
  <2>2. QED BY <1>1, <2>1
<1>3. IsFiniteSet(reached) /\ Cardinality(reached) <= Len(tiers) /\ Cardinality(reached) \in Nat
        /\ (reached # {} => Cardinality(reached) # 0)
  <2> DEFINE R == reached
             D == DOMAIN tiers
  <2>1. R \in SUBSET D /\ IsFiniteSet(D) /\ Cardinality(D) = Len(tiers)
    BY <1>2
  <2> HIDE DEF R, D
  <2>2. IsFiniteSet(R) /\ Cardinality(R) <= Cardinality(D)
    BY <2>1, FS_Subset
  <2>3. Cardinality(R) \in Nat /\ (R # {} => Cardinality(R) # 0)
    BY <2>2, FS_CardinalityType, FS_EmptySet
  <2>4. QED BY <2>1, <2>2, <2>3 DEF R
<1>4. CASE reached # {}
  <2> DEFINE n == Cardinality(reached)
  <2>1. n \in DOMAIN tiers
    BY <1>1, <1>3, <1>4
  <2> HIDE DEF n
  <2>2. tiers[n].rate \in Int
    <3> DEFINE Tiers == [from : Int, rate : Int]
    <3>1. tiers[n] \in Tiers
      <4>1. tiers \in Seq(Tiers)
        OBVIOUS
      <4> HIDE DEF Tiers
      <4>2. QED BY <1>1, <2>1, <4>1
    <3>2. QED BY <3>1
  <2>3. QED BY <1>4, <2>2 DEF TierRate, n
<1>5. CASE reached = {}
  BY <1>5 DEF TierRate
<1>6. QED BY <1>4, <1>5

LEMMA FeeIsInt ==
  ASSUME NEW model \in FeeModels, NEW price \in Int, NEW size \in Int, NEW direction, NEW isEntry
  PROVE  FeeOfSide(model, price, size, direction, isEntry) \in Int
<1> DEFINE z == Size(size)
           value == price * z
<1>1. z \in Int
  BY DEF Size
<1>2. value \in Int
  BY <1>1
<1> HIDE DEF z
<1>3. CASE model \in [kind : {"None"}]
  BY <1>3 DEF FeeOfSide
<1>4. CASE model \in [kind : {"Percentage"}, rate : Int]
  <2>1. FeeOfSide(model, price, size, direction, isEntry) = Portion(model.rate, value)
    BY <1>4 DEF FeeOfSide, z
  <2> HIDE DEF value
  <2>2. QED BY <1>2, <1>4, <2>1, PortionIsInt
<1>5. CASE model \in [kind : {"Fixed", "PerShare"}, amount : Int]
  <2>1. FeeOfSide(model, price, size, direction, isEntry) \in {model.amount, z * model.amount}
    BY <1>5 DEF FeeOfSide, z
  <2>2. QED BY <1>1, <1>5, <2>1
<1>6. CASE model \in [kind : {"Tiered"}, tiers : Seq([from : Int, rate : Int])]
  <2> DEFINE r == TierRate(model.tiers, value)
  <2>1. FeeOfSide(model, price, size, direction, isEntry) = Portion(r, value)
    BY <1>6 DEF FeeOfSide, z
  <2> HIDE DEF value
  <2>2. r \in Int
    BY <1>2, <1>6, TierRateIsInt
  <2> HIDE DEF r
  <2>3. QED BY <1>2, <2>1, <2>2, PortionIsInt
<1>7. CASE model \in [kind : {"Custom"}, base : Int, amount : Int]
  <2>1. FeeOfSide(model, price, size, direction, isEntry) = model.base + z * model.amount
    BY <1>7 DEF FeeOfSide, z
  <2>2. QED BY <1>1, <1>7, <2>1
<1>8. CASE model \in [kind : {"Itemized"}, schedule : Rates]
  <2>1. FeeOfSide(model, price, size, direction, isEntry) = Total(Charges(model.schedule, value, direction, isEntry))
    BY <1>8 DEF FeeOfSide, z
  <2> HIDE DEF value
  <2>2. QED BY <1>2, <1>8, <2>1, ChargesAreInt
<1>9. QED BY <1>3, <1>4, <1>5, <1>6, <1>7, <1>8 DEF FeeModels

-----------------------------------------------------------------------------
(* Options. *)

OptionPlan ==
  /\ plan.fees \in FeeModels /\ plan.cash \in Int /\ plan.lot \in Nat \ {0}
  /\ plan.sizing.kind \in {"Contracts", "Notional", "Percent"} /\ plan.sizing.n \in Nat

OptionBalance(b) ==
  /\ OptionBook(b) /\ b.cash \in Int /\ b.booked \in Int /\ b.option.lots \in Nat
  /\ b.option.lots = 0 => b.cash = plan.cash + b.booked
  /\ b.option.lots > 0 =>
       /\ b.option.premium \in Int /\ b.option.fees \in Int
       /\ b.cash + b.option.premium * (b.option.lots * plan.lot) + b.option.fees = plan.cash + b.booked

LEMMA OptionFee ==
  ASSUME OptionPlan, NEW premium \in Int, NEW lots \in Nat, NEW isEntry
  PROVE  Options!Charge(premium, lots, isEntry) \in Int
<1> DEFINE size == lots * plan.lot
<1>1. size \in Int
  BY DEF OptionPlan
<1>2. Options!Charge(premium, lots, isEntry) = Options!FeeOfSide(plan.fees, premium, size, plan.direction, isEntry)
  BY DEF Options!Charge, Options!Contracts
<1> HIDE DEF size
<1>3. \A d : Options!FeeOfSide(plan.fees, premium, size, d, isEntry) = FeeOfSide(plan.fees, premium, size, d, isEntry)
  BY DEF Options!FeeOfSide, FeeOfSide, Options!Size, Size, Options!Portion, Portion, Options!TierRate, TierRate,
         Options!Total, Total, Options!Charges, Charges, Options!Buys, Buys, Options!Brokerage, Brokerage,
         Options!LesserOf, LesserOf, Options!Cardinality, Cardinality
<1>4. QED BY <1>1, <1>2, <1>3, FeeIsInt DEF OptionPlan

LEMMA OptionLots ==
  ASSUME OptionPlan, NEW premium \in Int, NEW cash \in Int
  PROVE  Options!LotsFor(premium, cash) \in Nat
<1> DEFINE cost == premium * plan.lot
           free == Options!GreaterOf(cash, 0)
           part1 == Options!Portion(plan.sizing.n, free)
<1>1. CASE premium <= 0
  BY <1>1 DEF Options!LotsFor
<1>2. CASE premium > 0
  <2>1. cost \in Nat \ {0}
    BY <1>2 DEF OptionPlan
  <2>2. free \in Nat
    BY DEF Options!GreaterOf
  <2> HIDE DEF free
  <2>3. part1 \in Nat
    <3>1. plan.sizing.n * free \in Nat
      BY <2>2 DEF OptionPlan
    <3>2. QED BY <3>1 DEF Options!Portion
  <2>4. Options!LotsFor(premium, cash) \in {plan.sizing.n, plan.sizing.n \div cost, part1 \div cost}
    BY <1>2 DEF Options!LotsFor, OptionPlan, free
  <2> HIDE DEF cost, part1
  <2>5. QED BY <2>1, <2>3, <2>4, DivBounds DEF OptionPlan
<1>3. QED BY <1>1, <1>2

LEMMA OptionCloses ==
  ASSUME OptionPlan, NEW b, OptionBalance(b), b.option.lots > 0, NEW premium \in Int
  PROVE  /\ OptionBalance(Options!Closed(b, premium))
         /\ Options!Closed(b, premium).option = Options!None
<1> DEFINE size == b.option.lots * plan.lot
           fee == Options!Charge(premium, b.option.lots, FALSE)
           old == b.option.premium
           paid == b.option.fees
           cash == b.cash + premium * size - fee
           booked == b.booked + ((premium - old) * size - paid - fee)
           c == Options!Closed(b, premium)
<1>1. size \in Int /\ fee \in Int /\ old \in Int /\ paid \in Int
  <2>1. \A e : Options!Charge(premium, b.option.lots, e) \in Int
    BY OptionFee DEF OptionBalance
  <2>2. fee \in Int
    BY <2>1, Zenon
  <2> HIDE DEF fee
  <2>3. QED BY <2>2 DEF OptionBalance, OptionPlan
<1>2. c = [b EXCEPT !.cash = cash, !.booked = booked, !.option = Options!None]
  BY DEF Options!Closed, Options!PnL, Options!Contracts
<1>3. b.cash + old * size + paid = plan.cash + b.booked /\ b.cash \in Int /\ b.booked \in Int /\ plan.cash \in Int
  BY DEF OptionBalance, OptionPlan
<1> HIDE DEF size, fee, old, paid
<1>4. cash \in Int /\ booked \in Int /\ cash = plan.cash + booked
  BY <1>1, <1>3
<1> HIDE DEF cash, booked, c
<1>5. OptionBook(c) /\ c.cash = cash /\ c.booked = booked /\ c.option = Options!None
  BY <1>2 DEF OptionBalance, OptionBook, Record
<1>6. QED BY <1>4, <1>5 DEF OptionBalance, Options!None, c

LEMMA OptionOpens ==
  ASSUME OptionPlan, NEW b, OptionBalance(b), b.option.lots = 0, NEW premium \in Int, NEW spot
  PROVE  OptionBalance(Options!Opened(b, premium, spot))
<1> DEFINE lots == Options!LotsFor(premium, b.cash)
           fee == Options!Charge(premium, lots, TRUE)
           size == lots * plan.lot
           cash == b.cash - premium * size - fee
           option == [lots |-> lots, premium |-> premium, fees |-> fee, strike |-> Options!Strike(spot)]
           c == [b EXCEPT !.cash = cash, !.option = option]
<1>1. lots \in Nat
  BY OptionLots DEF OptionBalance
<1>2. Options!Opened(b, premium, spot) = IF lots = 0 THEN b ELSE c
  BY DEF Options!Opened, Options!Contracts
<1> HIDE DEF lots
<1>3. fee \in Int /\ size \in Int
  <2>1. \A e : Options!Charge(premium, lots, e) \in Int
    BY <1>1, OptionFee
  <2>2. fee \in Int
    BY <2>1, Zenon
  <2> HIDE DEF fee
  <2>3. QED BY <1>1, <2>2 DEF OptionPlan
<1>4. option.lots = lots /\ option.premium = premium /\ option.fees = fee
  OBVIOUS
<1> HIDE DEF fee, option
<1>5. b.cash = plan.cash + b.booked /\ b.cash \in Int /\ b.booked \in Int /\ plan.cash \in Int
  BY DEF OptionBalance, OptionPlan
<1>6. cash \in Int /\ cash + premium * size + fee = plan.cash + b.booked
  <2> HIDE DEF size
  <2>1. QED BY <1>3, <1>5
<1> HIDE DEF cash
<1>7. OptionBook(c) /\ c.cash = cash /\ c.booked = b.booked /\ c.option = option
  BY DEF OptionBalance, OptionBook, Record
<1> HIDE DEF c
<1>8. lots # 0 => OptionBalance(c)
  BY <1>1, <1>3, <1>4, <1>5, <1>6, <1>7 DEF OptionBalance, size
<1>9. QED BY <1>2, <1>8

OptionHeld ==
  /\ OptionBalance(book) /\ OptionPlan
  /\ book.option.lots = 0 => book.curve = book.cash
  /\ book.value \in Int

LEMMA OptionStarts ==
  ASSUME Options!Init
  PROVE  OptionHeld
<1>1. plan \in OptionPlans /\ OptionPlan
  BY OptionAssumption DEF Options!Init, OptionPlan
<1>2. QED BY <1>1 DEF Options!Init, Options!None, OptionHeld, OptionPlan, OptionBalance, OptionBook, Record

LEMMA OptionBar ==
  ASSUME OptionHeld, NEW bar \in OptionBars, Options!Bar(bar)
  PROVE  OptionHeld'
<1> DEFINE l == Options!Left(book, bar)
           enters == Options!Acts(book, bar).enter
           e == Options!Entered(l, bar, enters)
           decided == Options!Decided(book, bar)
<1>1. OptionPlan /\ OptionBalance(book)
  BY DEF OptionHeld
<1>2. bar.open \in Int /\ bar.value \in Int /\ Options!FillPremium(bar) \in Int
  BY OptionAssumption DEF Options!FillPremium
<1>3. OptionBalance(l)
  <2>1. ASSUME NEW premium \in Int, book.option.lots > 0 PROVE OptionBalance(Options!Closed(book, premium))
    BY <1>1, <2>1, OptionCloses
  <2>2. QED BY <1>1, <1>2, <2>1 DEF Options!Left, Options!Holds
<1>4. book' = Options!Seen(e, bar, decided)
  BY DEF Options!Bar, Options!OnBar
<1> HIDE DEF l, enters, decided
<1>5. OptionBalance(e)
  <2>1. ASSUME NEW premium \in Int, NEW spot, l.option.lots = 0 PROVE OptionBalance(Options!Opened(l, premium, spot))
    BY <1>1, <1>3, <2>1, OptionOpens
  <2>2. ~Options!Holds(l) => l.option.lots = 0
    BY <1>3 DEF Options!Holds, OptionBalance
  <2>3. QED BY <1>2, <1>3, <2>1, <2>2 DEF Options!Entered
<1> HIDE DEF e
<1>6. /\ OptionBook(book') /\ book'.cash = e.cash /\ book'.booked = e.booked /\ book'.option = e.option
      /\ book'.value = bar.value /\ book'.curve = e.cash + Options!ValueOf(e, bar.value)
  BY <1>4, <1>5 DEF Options!Seen, OptionBalance, OptionBook, Record
<1>7. e.option.lots = 0 => book'.curve = book'.cash
  BY <1>5, <1>6 DEF Options!ValueOf, Options!Holds, OptionBalance
<1>8. plan' = plan
  BY DEF Options!Bar
<1>9. QED BY <1>1, <1>2, <1>5, <1>6, <1>7, <1>8 DEF OptionHeld, OptionBalance, OptionPlan

LEMMA OptionFinish ==
  ASSUME OptionHeld, Options!Finish
  PROVE  OptionHeld'
<1> DEFINE c == IF Options!Holds(book) THEN Options!Closed(book, book.value) ELSE book
<1>1. book' = [c EXCEPT !.curve = c.cash, !.ended = TRUE] /\ plan' = plan
  BY DEF Options!Finish
<1>2. OptionPlan /\ OptionBalance(c) /\ c.value \in Int
  <2>1. ASSUME Options!Holds(book)
        PROVE  OptionBalance(Options!Closed(book, book.value)) /\ Options!Closed(book, book.value).value = book.value
    <3>1. OptionPlan /\ OptionBalance(book) /\ book.option.lots > 0 /\ book.value \in Int
      BY <2>1 DEF OptionHeld, Options!Holds
    <3>2. OptionBalance(Options!Closed(book, book.value))
      BY <3>1, OptionCloses
    <3>3. Options!Closed(book, book.value).value = book.value
      BY <3>1 DEF OptionBalance, OptionBook, Record, Options!Closed
    <3>4. QED BY <3>2, <3>3
  <2>2. QED BY <2>1 DEF OptionHeld
<1> HIDE DEF c
<1>3. /\ OptionBook(book') /\ book'.cash = c.cash /\ book'.booked = c.booked /\ book'.option = c.option
      /\ book'.value = c.value /\ book'.curve = c.cash
  BY <1>1, <1>2 DEF OptionBalance, OptionBook, Record
<1>4. QED BY <1>1, <1>2, <1>3 DEF OptionHeld, OptionBalance, OptionPlan

LEMMA OptionBalances ==
  ASSUME OptionHeld
  PROVE  Options!BooksBalance
BY DEF OptionHeld, OptionBalance, OptionPlan, Options!BooksBalance, Options!Holds, Options!Contracts

-----------------------------------------------------------------------------
(* Stops. *)

StopPlan ==
  /\ plan.fees \in FeeModels /\ plan.slippage \in Stops!SlippageModels /\ plan.fill \in Stops!PriceKinds
  /\ plan.direction \in {"Long", "Short"} /\ plan.margin \in Nat
  /\ plan.cash \in Int /\ plan.rate \in Int /\ plan.lot \in Int /\ plan.limitSlip \in Int
  /\ plan.terms.percent \in Int /\ plan.terms.reward \in Int /\ plan.terms.multiple \in Int /\ plan.terms.ratio \in Int
  /\ plan.margin > 0 \/ plan.direction = "Long"

StopBar(bar) ==
  /\ bar.open \in Int /\ bar.high \in Int /\ bar.low \in Int /\ bar.close \in Int
  /\ bar.volume \in Int /\ bar.atr \in Int /\ bar.at \in Int

StopBalance(b) ==
  /\ StopBook(b) /\ b.cash \in Int /\ b.booked \in Int
  /\ ~Stops!Holds(b) => b.cash = plan.cash + b.booked
  /\ Stops!Holds(b) =>
       LET p == b.position IN
       /\ p.size \in Int /\ p.entry \in Int /\ p.fees \in Int
       /\ p.stop \in Int /\ p.target \in Int /\ p.high \in Int /\ p.low \in Int
       /\ b.cash + p.fees + (IF plan.margin = 0 THEN p.entry * p.size ELSE 0) = plan.cash + b.booked

LEMMA StopFee ==
  ASSUME StopPlan, NEW price \in Int, NEW size \in Int, NEW isEntry
  PROVE  Stops!Charge(price, size, isEntry) \in Int
<1>1. Stops!Charge(price, size, isEntry) = Stops!FeeOfSide(plan.fees, price, size, plan.direction, isEntry)
  BY DEF Stops!Charge
<1>3. \A d : Stops!FeeOfSide(plan.fees, price, size, d, isEntry) = FeeOfSide(plan.fees, price, size, d, isEntry)
  BY DEF Stops!FeeOfSide, FeeOfSide, Stops!Size, Size, Stops!Portion, Portion, Stops!TierRate, TierRate,
         Stops!Total, Total, Stops!Charges, Charges, Stops!Buys, Buys, Stops!Brokerage, Brokerage,
         Stops!LesserOf, LesserOf, Stops!Cardinality, Cardinality
<1>4. QED BY <1>1, <1>3, FeeIsInt DEF StopPlan

LEMMA StopPortion ==
  ASSUME NEW r \in Int, NEW v \in Int
  PROVE  Stops!Portion(r, v) \in Int
BY DEF Stops!Portion

LEMMA StopSide == Stops!Multiplier(plan.direction) \in {1, -1} /\ (plan.direction = "Long" => Stops!Multiplier(plan.direction) = 1)
BY DEF Stops!Multiplier

LEMMA StopPrices ==
  ASSUME StopPlan, NEW bar, StopBar(bar), NEW buys
  PROVE  Stops!PriceOf(plan.fill, bar, buys) \in Int
<1>1. (bar.open + bar.high + bar.low + bar.close) \div 4 \in Int /\ (bar.high + bar.low + bar.close) \div 3 \in Int
  BY DEF StopBar
<1>2. QED BY <1>1 DEF Stops!PriceOf, Stops!PriceKinds, StopPlan, StopBar

LEMMA StopSlips ==
  ASSUME StopPlan, NEW raw \in Int, NEW volume \in Int, NEW isEntry
  PROVE  Stops!Traded(plan.slippage, raw, volume, plan.direction, isEntry) \in Int
<1> DEFINE m == plan.slippage
           s == Stops!Slippage(m, raw, volume)
<1>1. s \in Int
  <2>1. CASE m \in [kind : {"None"}]
    BY <2>1 DEF Stops!Slippage
  <2>2. CASE m \in [kind : {"Percentage"}, rate : Int]
    <3>1. s = Stops!Portion(m.rate, raw) /\ m.rate \in Int
      BY <2>2 DEF Stops!Slippage
    <3>2. QED BY <3>1, StopPortion
  <2>3. CASE m \in [kind : {"Fixed", "SpreadBased"}, points : Int]
    BY <2>3 DEF Stops!Slippage
  <2>4. CASE m \in [kind : {"VolumeBased"}, points : Int, rate : Nat]
    <3> DEFINE d == 1000 + volume * m.rate
               n == 1000 * m.points
    <3>1. s = IF volume > 0 THEN n \div d ELSE m.points
      BY <2>4 DEF Stops!Slippage
    <3>2. n \in Int /\ m.points \in Int
      BY <2>4
    <3>3. volume > 0 => d \in Nat \ {0}
      <4>1. volume > 0 => volume * m.rate \in Nat
        BY <2>4
      <4>2. QED BY <4>1
    <3> HIDE DEF n, d
    <3>4. QED BY <3>1, <3>2, <3>3
  <2>5. QED BY <2>1, <2>2, <2>3, <2>4 DEF StopPlan, Stops!SlippageModels
<1> HIDE DEF s
<1>2. QED BY <1>1 DEF Stops!Traded, Stops!Slipped, s, m

LEMMA StopLimits ==
  ASSUME StopPlan, NEW bar, StopBar(bar), NEW level \in Int, NEW buys \in BOOLEAN
  PROVE  /\ Stops!LimitFill(level, bar, buys, plan.limitSlip) \in Int
         /\ Stops!StopFill(level, bar, buys) \in Int
<1>1. Stops!LimitFill(level, bar, buys, plan.limitSlip) \in Int
  <2> DEFINE s == Stops!Portion(plan.limitSlip, level)
  <2>1. s \in Int
    BY StopPortion DEF StopPlan
  <2> HIDE DEF s
  <2>2. CASE Stops!LimitReached(level, bar, buys)
    <3>1. Stops!LimitFill(level, bar, buys, plan.limitSlip) \in {level + s, level - s}
      BY <2>2 DEF Stops!LimitFill, s
    <3>2. QED BY <2>1, <3>1
  <2>3. CASE ~Stops!LimitReached(level, bar, buys)
    BY <2>3 DEF Stops!LimitFill, Stops!NoPrice
  <2>4. QED BY <2>2, <2>3
<1>2. Stops!StopFill(level, bar, buys) \in Int
  <2>1. CASE Stops!StopTriggered(level, bar, buys)
    BY <2>1 DEF Stops!StopFill, Stops!GreaterOf, Stops!LesserOf, StopBar
  <2>2. CASE ~Stops!StopTriggered(level, bar, buys)
    BY <2>2 DEF Stops!StopFill, Stops!NoPrice
  <2>3. QED BY <2>1, <2>2
<1>3. QED BY <1>1, <1>2

LEMMA StopSells ==
  ASSUME StopPlan, NEW b, StopBalance(b), Stops!Holds(b), NEW raw \in Int, NEW volume \in Int, NEW why
  PROVE  StopBalance(Stops!Closed(b, raw, volume, why))
<1> DEFINE price == Stops!Traded(plan.slippage, raw, volume, plan.direction, FALSE)
           p == b.position
           size == p.size
           entry == p.entry
           fees == p.fees
           m == Stops!Multiplier(plan.direction)
           fee == Stops!Charge(price, size, FALSE)
           pnl == (price - entry) * size * m - fees - fee
           credit == IF plan.margin = 0 THEN price * size - fee ELSE pnl + fees
           cash == b.cash + credit
           booked == b.booked + pnl
           last == Exit(why, raw, b)
           c == Stops!Closed(b, raw, volume, why)
<1>1. c = [b EXCEPT !.cash = cash, !.booked = booked, !.position = Stops!None, !.last = last]
  BY DEF Stops!Closed, Stops!PnL, Exit, Stops!Value
<1>2. price \in Int
  <2>1. \A e : Stops!Traded(plan.slippage, raw, volume, plan.direction, e) \in Int
    BY StopSlips
  <2>2. QED BY <2>1, Zenon
<1>3. size \in Int /\ entry \in Int /\ fees \in Int /\ m \in {1, -1} /\ (plan.direction = "Long" => m = 1)
  BY StopSide DEF StopBalance
<1> HIDE DEF price, entry, fees, m
<1>4. fee \in Int
  <2>1. \A e : Stops!Charge(price, size, e) \in Int
    BY <1>2, <1>3, StopFee
  <2>2. QED BY <2>1, Zenon
<1>5. b.cash \in Int /\ b.booked \in Int /\ plan.cash \in Int
      /\ b.cash + fees + (IF plan.margin = 0 THEN entry * size ELSE 0) = plan.cash + b.booked
  BY DEF StopBalance, StopPlan, entry, fees
<1> HIDE DEF size, fee
<1>6. plan.margin = 0 => m = 1
  BY <1>3 DEF StopPlan
<1>7. cash \in Int /\ booked \in Int /\ cash = plan.cash + booked
  <2>1. CASE plan.margin = 0
    <3>1. m = 1
      BY <1>6, <2>1
    <3>2. QED BY <1>2, <1>3, <1>4, <1>5, <2>1, <3>1
  <2>2. CASE plan.margin # 0
    <3> DEFINE gross == (price - entry) * size * m
    <3>1. gross \in Int
      BY <1>2, <1>3
    <3> HIDE DEF gross
    <3>2. pnl = gross - fees - fee
      BY DEF gross
    <3> HIDE DEF pnl
    <3>3. QED BY <1>3, <1>4, <1>5, <2>2, <3>1, <3>2
  <2>3. QED BY <2>1, <2>2
<1> HIDE DEF cash, booked, last, c
<1>8. Record(c, StopFields) /\ c.cash = cash /\ c.booked = booked /\ c.position = Stops!None
  BY <1>1 DEF StopBalance, StopBook, Record, StopFields
<1>9. QED BY <1>7, <1>8 DEF StopBalance, StopBook, Stops!Holds, Stops!None, c

LEMMA StopLevels ==
  ASSUME StopPlan, NEW entry \in Int, NEW atr \in Int
  PROVE  /\ Stops!StopAt(entry, atr) \in Int
         /\ \A stop \in Int : Stops!TargetAt(entry, stop, atr) \in Int
<1> DEFINE m == Stops!Multiplier(plan.direction)
<1>0. m \in Int
  BY StopSide
<1>1. \A r \in Int : Stops!BelowBy(r, entry, plan.direction) \in Int
  <2>1. \A r \in Int : 1000 - m * r \in Int
    BY <1>0
  <2>2. QED BY <2>1, StopPortion DEF Stops!BelowBy
<1>2. m * plan.terms.multiple * atr \in Int
  BY <1>0 DEF StopPlan
<1>3. Stops!StopAt(entry, atr) \in Int
  <2> DEFINE d == m * plan.terms.multiple * atr
             f == Stops!BelowBy(plan.terms.percent, entry, plan.direction)
  <2>1. Stops!StopAt(entry, atr) \in {f, entry - d, 0}
    BY DEF Stops!StopAt, Stops!NoPrice
  <2>2. f \in Int /\ d \in Int
    BY <1>1, <1>2 DEF StopPlan
  <2> HIDE DEF f, d
  <2>3. QED BY <2>1, <2>2
<1>4. ASSUME NEW stop \in Int PROVE Stops!TargetAt(entry, stop, atr) \in Int
  <2> DEFINE d == m * plan.terms.multiple * atr
             f == Stops!BelowBy(-plan.terms.reward, entry, plan.direction)
             z == Stops!Size(entry - stop)
             g == m * z * plan.terms.ratio
  <2>1. Stops!TargetAt(entry, stop, atr) \in {f, entry + d, entry + g, 0}
    BY DEF Stops!TargetAt, Stops!NoPrice
  <2>2. f \in Int /\ d \in Int /\ z \in Int
    BY <1>1, <1>2 DEF StopPlan, Stops!Size
  <2> HIDE DEF z
  <2>3. g \in Int
    BY <1>0, <2>2 DEF StopPlan
  <2> HIDE DEF f, d, g
  <2>4. QED BY <2>1, <2>2, <2>3
<1>5. QED BY <1>3, <1>4

LEMMA StopBuysIn ==
  ASSUME StopPlan, NEW b, StopBalance(b), ~Stops!Holds(b), NEW raw \in Int, NEW volume \in Int,
         NEW intent, intent.atr \in Int, intent.at \in Int
  PROVE  StopBalance(Stops!Opened(b, raw, volume, intent))
<1> DEFINE price == Stops!Traded(plan.slippage, raw, volume, plan.direction, TRUE)
           size == Stops!Sized(b.cash, price)
           fee == Stops!Charge(price, size, TRUE)
           paid == IF plan.margin = 0 THEN price * size ELSE 0
           cash == b.cash - fee - paid
           fresh == Stops!Fresh(b.bar, price, size, intent)
           c == Stops!Opened(b, raw, volume, intent)
<1>1. c = IF size <= 0 THEN b ELSE [b EXCEPT !.cash = cash, !.position = fresh]
  BY DEF Stops!Opened, Stops!Value
<1>2. price \in Int
  <2>1. \A e : Stops!Traded(plan.slippage, raw, volume, plan.direction, e) \in Int
    BY StopSlips
  <2>2. QED BY <2>1, Zenon
<1> HIDE DEF price
<1>3. b.cash \in Int /\ b.booked \in Int /\ plan.cash \in Int /\ b.cash = plan.cash + b.booked
  BY DEF StopBalance, StopPlan
<1>4. size \in Int
  <2> DEFINE each == price * ((IF plan.margin = 0 THEN 1000 ELSE plan.margin) + plan.rate)
             raws == (1000 * b.cash) \div each
  <2>1. each \in Int
    <3>1. (IF plan.margin = 0 THEN 1000 ELSE plan.margin) + plan.rate \in Int
      BY DEF StopPlan
    <3>2. QED BY <1>2, <3>1
  <2>2. size = IF each <= 0 THEN 0 ELSE Stops!Lots(raws, plan.lot)
    BY DEF Stops!Sized
  <2> HIDE DEF each, size
  <2>3. each > 0 => raws \in Int
    BY <1>3, <2>1
  <2> HIDE DEF raws
  <2>4. raws \in Int => Stops!Lots(raws, plan.lot) \in Int
    BY DEF Stops!Lots, StopPlan
  <2>5. QED BY <2>1, <2>2, <2>3, <2>4
<1> HIDE DEF size
<1>5. fee \in Int
  <2>1. \A e : Stops!Charge(price, size, e) \in Int
    BY <1>2, <1>4, StopFee
  <2>2. QED BY <2>1, Zenon
<1>6. /\ fresh.size = size /\ fresh.entry = price /\ fresh.fees = fee /\ fresh.high = price /\ fresh.low = price
      /\ fresh.stop \in Int /\ fresh.target \in Int /\ Record(fresh, PositionFields)
  <2> DEFINE chosen == Stops!StopAt(price, intent.atr)
             target == Stops!TargetAt(price, chosen, intent.atr)
  <2>1. chosen \in Int
    BY <1>2, StopLevels
  <2>2. target \in Int
    BY <1>2, <2>1, StopLevels
  <2>3. /\ fresh.size = size /\ fresh.entry = price /\ fresh.fees = fee /\ fresh.high = price /\ fresh.low = price
        /\ fresh.stop = (IF intent.at # Stops!NoPrice THEN intent.at ELSE chosen) /\ fresh.target = target
    BY DEF Stops!Fresh
  <2>4. Record(fresh, PositionFields)
    BY StopBuys
  <2> HIDE DEF chosen, target, fresh, fee
  <2>5. QED BY <2>1, <2>2, <2>3, <2>4
<1> HIDE DEF fee, fresh
<1>7. cash \in Int /\ cash + fee + paid = plan.cash + b.booked
  <2>1. paid \in Int
    BY <1>2, <1>4
  <2> HIDE DEF paid
  <2>2. QED BY <1>3, <1>5, <2>1
<1> DEFINE d == [b EXCEPT !.cash = cash, !.position = fresh]
<1> HIDE DEF cash, c, paid
<1>8. Record(d, StopFields) /\ d.cash = cash /\ d.booked = b.booked /\ d.position = fresh
  BY DEF StopBalance, StopBook, Record, StopFields
<1>9. c = IF size <= 0 THEN b ELSE d
  BY <1>1
<1> HIDE DEF d
<1>10. size > 0 => StopBalance(d)
  <2>1. size > 0 => Stops!Holds(d) /\ StopBook(d)
    BY <1>6, <1>8 DEF StopBook, Stops!Holds
  <2>2. QED BY <1>2, <1>3, <1>4, <1>5, <1>6, <1>7, <1>8, <2>1 DEF StopBalance, paid
<1>11. QED BY <1>4, <1>9, <1>10 DEF c

\* A book whose account and position are another's keeps its balance.
LEMMA StopSame ==
  ASSUME NEW b, StopBalance(b), NEW c, StopBook(c), Account(c) = Account(b),
         Stops!Holds(c) = Stops!Holds(b),
         Stops!Holds(b) =>
           /\ Position(c.position) = Position(b.position)
           /\ c.position.stop \in Int /\ c.position.target \in Int
           /\ c.position.high \in Int /\ c.position.low \in Int
  PROVE  StopBalance(c)
BY DEF StopBalance, Account, Position

LEMMA StopSeesBalance ==
  ASSUME NEW b, StopBalance(b), NEW bar, StopBar(bar)
  PROVE  StopBalance(Stops!Seen(b, bar))
<1> DEFINE c == Stops!Seen(b, bar)
<1>1. /\ StopBook(c) /\ Account(c) = Account(b) /\ Stops!Holds(c) = Stops!Holds(b)
      /\ Stops!Holds(b) => /\ Position(c.position) = Position(b.position)
                          /\ c.position.stop = b.position.stop /\ c.position.target = b.position.target
  BY StopSees DEF StopBalance
<1>2. Stops!Holds(b) => c.position.high \in Int /\ c.position.low \in Int
  <2> SUFFICES ASSUME Stops!Holds(b) PROVE c.position.high \in Int /\ c.position.low \in Int
    OBVIOUS
  <2> DEFINE h == Stops!GreaterOf(b.position.high, bar.high)
             l == Stops!LesserOf(b.position.low, bar.low)
  <2>1. c = [b EXCEPT !.position.high = h, !.position.low = l]
    BY DEF Stops!Seen
  <2>2. h \in Int /\ l \in Int
    BY DEF StopBalance, StopBar, Stops!GreaterOf, Stops!LesserOf
  <2> HIDE DEF h, l, c
  <2>3. c.position.high = h /\ c.position.low = l
    BY <2>1 DEF StopBalance, StopBook, Record, StopFields, PositionFields
  <2>4. QED BY <2>2, <2>3
<1> HIDE DEF c
<1>3. QED BY <1>1, <1>2, StopSame DEF StopBalance, c

LEMMA StopTrailsBalance ==
  ASSUME StopPlan, NEW b, StopBalance(b)
  PROVE  StopBalance(Stops!Trailed(b))
<1> DEFINE c == Stops!Trailed(b)
           extreme == IF Stops!Long THEN b.position.high ELSE b.position.low
           proposed == Stops!BelowBy(plan.terms.percent, extreme, plan.direction)
           old == b.position.stop
           stop == CASE old = Stops!NoPrice -> proposed
                     [] old # Stops!NoPrice /\ Stops!Long -> IF proposed > old THEN proposed ELSE old
                     [] old # Stops!NoPrice /\ ~Stops!Long -> IF proposed < old THEN proposed ELSE old
<1>1. /\ StopBook(c) /\ Account(c) = Account(b) /\ Stops!Holds(c) = Stops!Holds(b)
      /\ Stops!Holds(b) => Position(c.position) = Position(b.position)
  BY StopTrails DEF StopBalance
<1>2. c = b \/ (Stops!Holds(b) /\ c = [b EXCEPT !.position.stop = stop])
  BY DEF Stops!Trailed
<1>3. Stops!Holds(b) => stop \in Int
  <2> SUFFICES ASSUME Stops!Holds(b) PROVE stop \in Int
    OBVIOUS
  <2>1. extreme \in Int /\ old \in Int
    BY DEF StopBalance
  <2> HIDE DEF extreme
  <2>2. proposed \in Int
    <3>1. 1000 - Stops!Multiplier(plan.direction) * plan.terms.percent \in Int
      BY StopSide DEF StopPlan
    <3>2. QED BY <2>1, <3>1, StopPortion DEF Stops!BelowBy
  <2> HIDE DEF old, proposed
  <2>3. QED BY <2>1, <2>2
<1> HIDE DEF stop, c
<1>4. Stops!Holds(b) =>
        /\ c.position.stop \in Int /\ c.position.target \in Int
        /\ c.position.high \in Int /\ c.position.low \in Int
  BY <1>2, <1>3 DEF StopBalance, StopBook, Record, StopFields, PositionFields
<1>5. QED BY <1>1, <1>4, StopSame DEF c

LEMMA StopFollowsBalance ==
  ASSUME NEW b, StopBalance(b), NEW bar
  PROVE  StopBalance(Stops!Followed(b, bar))
<1> DEFINE c == Stops!Followed(b, bar)
           ladder == [k \in Stops!Ladder |-> Stops!NextStop(k, plan.terms, b.position.ladder[k], bar, plan.direction)]
           sar == Stops!SarNext(plan.terms, b.position.sar, bar, plan.direction)
           steady == b.position.steady /\ bar.atr = b.position.atr
<1>1. /\ StopBook(c) /\ Account(c) = Account(b) /\ Stops!Holds(c) = Stops!Holds(b)
      /\ Stops!Holds(b) => Position(c.position) = Position(b.position)
  BY StopFollows DEF StopBalance
<1>2. Stops!Holds(b) => c = [b EXCEPT !.position.ladder = ladder, !.position.sar = sar,
                                      !.position.steady = steady, !.position.atr = bar.atr]
  BY DEF Stops!Followed, StopBalance, StopBook, Record, StopFields, PositionFields
<1> HIDE DEF ladder, sar, steady, c
<1>3. Stops!Holds(b) =>
        /\ c.position.stop \in Int /\ c.position.target \in Int
        /\ c.position.high \in Int /\ c.position.low \in Int
  <2> SUFFICES ASSUME Stops!Holds(b)
               PROVE  /\ c.position.stop \in Int /\ c.position.target \in Int
                      /\ c.position.high \in Int /\ c.position.low \in Int
    OBVIOUS
  <2> DEFINE p == [b.position EXCEPT !.ladder = ladder, !.sar = sar, !.steady = steady, !.atr = bar.atr]
  <2>1. c.position = p
    BY <1>2 DEF StopBalance, StopBook, Record, StopFields
  <2>2. p.stop = b.position.stop /\ p.target = b.position.target /\ p.high = b.position.high /\ p.low = b.position.low
    BY DEF StopBalance, StopBook, Record, PositionFields
  <2> HIDE DEF p
  <2>3. QED BY <2>1, <2>2 DEF StopBalance
<1>4. QED BY <1>1, <1>3, StopSame DEF c

LEMMA StopExitsBalance ==
  ASSUME StopPlan, NEW b, StopBalance(b), NEW bar, StopBar(bar), NEW signal
  PROVE  StopBalance(Stops!Exited(b, bar, signal))
<1> DEFINE buys == Stops!Buys(plan.direction, FALSE)
<1>1. buys \in BOOLEAN
  BY DEF Stops!Buys
<1> HIDE DEF buys
<1>2. ASSUME NEW raw \in Int, NEW why, Stops!Holds(b)
      PROVE  StopBalance(Stops!Closed(b, raw, bar.volume, why))
  BY <1>2, StopSells DEF StopBar
<1>3. Stops!Holds(b) => StopBalance(AtTarget(b, bar)) /\ StopBalance(AtStop(b, bar)) /\ StopBalance(AtMarket(b, bar))
  <2> SUFFICES ASSUME Stops!Holds(b)
               PROVE  StopBalance(AtTarget(b, bar)) /\ StopBalance(AtStop(b, bar)) /\ StopBalance(AtMarket(b, bar))
    OBVIOUS
  <2> DEFINE limit == Stops!LimitFill(b.position.target, bar, buys, plan.limitSlip)
             stop == Stops!StopFill(b.position.stop, bar, buys)
             market == Stops!PriceOf(plan.fill, bar, buys)
  <2>1. limit \in Int
    BY <1>1, StopLimits DEF StopBalance
  <2>2. stop \in Int
    BY <1>1, StopLimits DEF StopBalance
  <2>3. market \in Int
    BY StopPrices
  <2>4. /\ AtTarget(b, bar) = Stops!Closed(b, limit, bar.volume, "TakeProfit")
        /\ AtStop(b, bar) = Stops!Closed(b, stop, bar.volume, "StopLoss")
        /\ AtMarket(b, bar) = Stops!Closed(b, market, bar.volume, "Signal")
    BY DEF AtTarget, AtStop, AtMarket, buys
  <2> HIDE DEF limit, stop, market
  <2>5. QED BY <1>2, <2>1, <2>2, <2>3, <2>4
<1>4. \/ Stops!Exited(b, bar, signal) = b
      \/ Stops!Holds(b) /\ Stops!Exited(b, bar, signal) \in {AtTarget(b, bar), AtStop(b, bar), AtMarket(b, bar)}
  BY ExitWays
<1>5. QED BY <1>3, <1>4

LEMMA StopManagesBalance ==
  ASSUME StopPlan, NEW b, StopBalance(b), NEW bar, StopBar(bar), NEW signal
  PROVE  StopBalance(Stops!Managed(b, bar, signal))
<1> DEFINE s == Stops!Seen(b, bar)
           d == Stops!Exited(s, bar, signal)
           t == Stops!Trailed(d)
<1>1. StopBalance(s)
  BY StopSeesBalance
<1> HIDE DEF s
<1>2. StopBalance(d)
  BY <1>1, StopExitsBalance
<1> HIDE DEF d
<1>3. StopBalance(t)
  BY <1>2, StopTrailsBalance
<1> HIDE DEF t
<1>4. StopBalance(Stops!Followed(t, bar))
  BY <1>3, StopFollowsBalance
<1>5. QED BY <1>4 DEF Stops!Managed, s, d, t

StopIntent(intent) == intent.atr \in Int /\ intent.at \in Int

LEMMA StopEntersBalance ==
  ASSUME StopPlan, NEW b, StopBalance(b), NEW bar, StopBar(bar), NEW intent, StopIntent(intent)
  PROVE  StopBalance(Stops!Entered(b, bar, intent))
<1> DEFINE raw == Stops!PriceOf(plan.fill, bar, Stops!Buys(plan.direction, TRUE))
<1>1. raw \in Int
  BY StopPrices
<1>2. Stops!Entered(b, bar, intent) = b
      \/ (~Stops!Holds(b) /\ Stops!Entered(b, bar, intent) = Stops!Opened(b, raw, bar.volume, intent))
  BY DEF Stops!Entered
<1> HIDE DEF raw
<1>3. ~Stops!Holds(b) => StopBalance(Stops!Opened(b, raw, bar.volume, intent))
  BY <1>1, StopBuysIn DEF StopIntent, StopBar
<1>4. QED BY <1>2, <1>3

LEMMA StopFillsBalance ==
  ASSUME StopPlan, NEW b, StopBalance(b), StopIntent(b.due), NEW bar, StopBar(bar)
  PROVE  StopBalance(Stops!DueFilled(b, bar))
<1> DEFINE raw == Stops!PriceOf(plan.fill, bar, Stops!Buys(plan.direction, FALSE))
           l == Stops!Left(b, bar)
<1>1. raw \in Int
  BY StopPrices
<1>2. l = b \/ (Stops!Holds(b) /\ l = Stops!Closed(b, raw, bar.volume, "Signal"))
  BY DEF Stops!Left
<1> HIDE DEF raw, l
<1>3. Stops!Holds(b) => StopBalance(Stops!Closed(b, raw, bar.volume, "Signal"))
  BY <1>1, StopSells DEF StopBar
<1>4. StopBalance(l)
  BY <1>2, <1>3
<1>5. StopBalance(Stops!Entered(l, bar, b.due))
  BY <1>4, StopEntersBalance
<1>6. QED BY <1>5 DEF Stops!DueFilled, l

\* A bar keeps the account, and the intents it leaves are of numbers.
LEMMA StopBarBalance ==
  ASSUME StopPlan, NEW b, StopBalance(b), StopIntent(b.due), NEW bar, StopBar(bar)
  PROVE  StopBalance(Stops!OnBar(b, bar)) /\ StopIntent(Stops!OnBar(b, bar).due)
<1> DEFINE intent == Stops!Intent(bar)
           c == Stops!Passed(b, bar)
           now == c.bar + 1
           o == [c EXCEPT !.bar = now]
<1>1. StopIntent(intent)
  BY DEF Stops!Intent, StopIntent, StopBar, Stops!NoPrice
<1> HIDE DEF intent
<1>2. StopBalance(c) /\ StopIntent(c.due)
  <2>1. CASE plan.nextOpen
    <3> DEFINE f == Stops!DueFilled(b, bar)
               m == Stops!Managed(f, bar, FALSE)
    <3>1. StopBalance(f)
      BY StopFillsBalance
    <3> HIDE DEF f
    <3>2. StopBalance(m)
      <4>1. ASSUME NEW signal PROVE StopBalance(Stops!Managed(f, bar, signal))
        BY <3>1, StopManagesBalance
      <4>2. QED BY <4>1
    <3>3. c = [m EXCEPT !.due = intent]
      BY <2>1 DEF Stops!Passed, intent, f
    <3> HIDE DEF m, c
    <3>4. /\ Record(c, StopFields) /\ c.cash = m.cash /\ c.booked = m.booked /\ c.position = m.position
          /\ c.due = intent
      BY <3>2, <3>3 DEF StopBalance, StopBook, Record, StopFields
    <3>5. QED BY <1>1, <3>2, <3>4 DEF StopBalance, StopBook, Stops!Holds
  <2>2. CASE ~plan.nextOpen
    <3> DEFINE m == Stops!Managed(b, bar, bar.exit)
    <3>1. StopBalance(m) /\ m.due = b.due
      BY StopManagesBalance, StopManages DEF StopBalance
    <3>2. c = Stops!Entered(m, bar, intent)
      BY <2>2 DEF Stops!Passed, intent
    <3> HIDE DEF m, c
    <3>3. StopBalance(c)
      BY <1>1, <3>1, <3>2, StopEntersBalance
    <3>4. c.due = m.due
      BY <3>1, <3>2, StopEnters DEF StopBalance
    <3>5. QED BY <3>1, <3>3, <3>4
  <2>3. QED BY <2>1, <2>2
<1> HIDE DEF c, now
<1>3. Record(o, StopFields) /\ o.cash = c.cash /\ o.booked = c.booked /\ o.position = c.position /\ o.due = c.due
  BY <1>2 DEF StopBalance, StopBook, Record, StopFields
<1> HIDE DEF o
<1>4. StopBalance(o) /\ StopIntent(o.due)
  BY <1>2, <1>3 DEF StopBalance, StopBook, Stops!Holds
<1>5. QED BY <1>4 DEF Stops!OnBar, o, now, c

StopHeld == plan \in StopPlans /\ (StopPlan => StopBalance(book) /\ StopIntent(book.due))

LEMMA StopStarts ==
  ASSUME Stops!Init
  PROVE  StopHeld
<1>1. StopPlan => StopBalance(book) /\ StopIntent(book.due)
  BY DEF Stops!Init, StopPlan, StopBalance, StopBook, Record, StopFields, StopIntent, Stops!NoIntent, Stops!NoPrice,
         Stops!Holds, Stops!None
<1>2. QED BY <1>1 DEF Stops!Init, StopHeld

LEMMA StopStep ==
  ASSUME StopHeld, NEW bar \in StopBars, Stops!Bar(bar)
  PROVE  StopHeld'
<1>1. book' = Stops!OnBar(book, bar) /\ plan' = plan /\ StopBar(bar)
  BY StopAssumption DEF Stops!Bar, StopBar
<1>2. StopPlan => StopBalance(book') /\ StopIntent(book'.due)
  BY <1>1, StopBarBalance DEF StopHeld
<1>3. StopPlan => StopBalance(book)' /\ StopIntent(book.due)'
  BY <1>1, <1>2 DEF StopBalance, StopIntent, StopBook, Stops!Holds
<1>4. StopPlan' = StopPlan
  BY <1>1 DEF StopPlan
<1>5. QED BY <1>1, <1>3, <1>4 DEF StopHeld

LEMMA StopBalances ==
  ASSUME StopHeld
  PROVE  Stops!BooksBalance
<1> SUFFICES ASSUME plan.margin > 0 \/ Stops!Long PROVE Stops!BooksBalance
  BY DEF Stops!BooksBalance
<1>1. StopPlan
  BY StopAssumption DEF StopHeld, StopPlan, Stops!Long
<1>2. StopBalance(book) /\ plan.cash \in Int
  BY <1>1 DEF StopHeld, StopPlan
<1>3. QED BY <1>2 DEF StopBalance, Stops!BooksBalance, Stops!Value

-----------------------------------------------------------------------------
(* Spreads. *)

Contracts == DOMAIN plan.legs
LegType == [quantity : Int, lot : Int, entry : Int, premium : Int, settled : BOOLEAN]

SpreadPlan ==
  /\ plan.fees \in FeeModels /\ plan.cash \in Int /\ IsFiniteSet(Contracts)
  /\ \A k \in Contracts : plan.legs[k].quantity \in Int /\ plan.legs[k].lot \in Int

Structure(s) ==
  /\ Record(s, {"legs", "realized", "fees"}) /\ s.legs \in [Contracts -> LegType]
  /\ s.realized \in Int /\ s.fees \in Int

SpreadBalance(b) ==
  /\ SpreadBook(b) /\ b.cash \in Int /\ b.booked \in Int
  /\ ~Spreads!Holds(b) => b.cash = plan.cash + b.booked
  /\ Spreads!Holds(b) => Structure(b.spread) /\ b.cash = plan.cash + b.booked + b.spread.realized - b.spread.fees

PremiumsQuoted(premiums) == \A k \in Contracts : premiums[k] \in Int

LEMMA LegSum ==
  ASSUME SpreadPlan, NEW S \in SUBSET Contracts, NEW f \in [S -> Int]
  PROVE  Spreads!SumFunction(f) \in Int
<1>1. Spreads!SumFunction(f) = SumFunction(f)
  BY DEF Spreads!SumFunction, Spreads!SumFunctionOnSet, Spreads!FoldFunctionOnSet, Spreads!MapThenFoldSet,
         SumFunction, SumFunctionOnSet, FoldFunctionOnSet, MapThenFoldSet
<1>2. IsFiniteSet(S)
  BY FS_Subset DEF SpreadPlan
<1>3. QED BY <1>1, <1>2, SumIsInt

LEMMA StructureIsHeld ==
  ASSUME NEW s, Structure(s)
  PROVE  s # Spreads!None
<1>1. DOMAIN s = {"legs", "realized", "fees"}
  BY DEF Structure, Record
<1>2. DOMAIN Spreads!None = {"legs"}
  BY DEF Spreads!None
<1>3. QED BY <1>1, <1>2

LEMMA LegGains ==
  ASSUME NEW leg \in LegType
  PROVE  Spreads!Units(leg) \in Int /\ Spreads!LegPnL(leg) \in Int /\ Spreads!OpenPnL(leg) \in Int
BY DEF LegType, Spreads!Units, Spreads!LegPnL, Spreads!OpenPnL

LEMMA StructureGains ==
  ASSUME SpreadPlan, NEW s, Structure(s)
  PROVE  Spreads!Unrealized(s) \in Int
<1> DEFINE f == [k \in DOMAIN s.legs |-> Spreads!OpenPnL(s.legs[k])]
<1>1. Spreads!Unrealized(s) = Spreads!SumFunction(f)
  BY DEF Spreads!Unrealized, Spreads!OverLegs
<1>2. f \in [Contracts -> Int]
  <2>1. DOMAIN s.legs = Contracts /\ \A k \in Contracts : s.legs[k] \in LegType
    BY DEF Structure
  <2>2. QED BY <2>1, LegGains
<1> HIDE DEF f
<1>3. QED BY <1>1, <1>2, LegSum

SpreadLegFee(leg, isEntry) ==
  Spreads!FeeOfSide(plan.fees, Spreads!Size(IF isEntry THEN leg.entry ELSE leg.premium), Spreads!Units(leg),
                    IF leg.quantity > 0 THEN "Long" ELSE "Short", isEntry)

LEMMA LegFee ==
  ASSUME SpreadPlan, NEW leg \in LegType, NEW isEntry \in BOOLEAN
  PROVE  SpreadLegFee(leg, isEntry) \in Int
<1> DEFINE price == IF isEntry THEN leg.entry ELSE leg.premium
           size == Spreads!Units(leg)
           side == IF leg.quantity > 0 THEN "Long" ELSE "Short"
<1>1. Spreads!Size(price) \in Int /\ size \in Int
  BY LegGains DEF Spreads!Size, LegType
<1>2. \A p, z : Spreads!FeeOfSide(plan.fees, p, z, side, isEntry) = FeeOfSide(plan.fees, p, z, side, isEntry)
  BY DEF Spreads!FeeOfSide, FeeOfSide, Spreads!Size, Size, Spreads!Portion, Portion, Spreads!TierRate, TierRate,
         Spreads!Total, Total, Spreads!Charges, Charges, Spreads!Buys, Buys, Spreads!Brokerage, Brokerage,
         Spreads!LesserOf, LesserOf, Spreads!Cardinality, Cardinality
<1>3. SpreadLegFee(leg, isEntry) = Spreads!FeeOfSide(plan.fees, Spreads!Size(price), size, side, isEntry)
  BY DEF SpreadLegFee
<1> HIDE DEF price, size, side
<1>4. QED BY <1>1, <1>2, <1>3, FeeIsInt DEF SpreadPlan

LEMMA StructureFee ==
  ASSUME SpreadPlan, NEW s, Structure(s), NEW isEntry \in BOOLEAN
  PROVE  Spreads!SideFee(s, isEntry) \in Int
<1> DEFINE trades(leg) == leg.quantity # 0 /\ (isEntry \/ ~leg.settled)
           f == [k \in DOMAIN s.legs |-> IF trades(s.legs[k]) THEN SpreadLegFee(s.legs[k], isEntry) ELSE 0]
<1>1. Spreads!SideFee(s, isEntry) = Spreads!SumFunction(f)
  BY DEF Spreads!SideFee, Spreads!OverLegs, SpreadLegFee
<1>2. f \in [Contracts -> Int]
  <2>1. DOMAIN s.legs = Contracts /\ \A k \in Contracts : s.legs[k] \in LegType
    BY DEF Structure
  <2>2. QED BY <2>1, LegFee
<1> HIDE DEF f
<1>3. QED BY <1>1, <1>2, LegSum

LEMMA StructureReprices ==
  ASSUME NEW s, Structure(s), NEW premiums, PremiumsQuoted(premiums)
  PROVE  /\ Structure(Spreads!Repriced(s, premiums))
         /\ Spreads!Repriced(s, premiums).realized = s.realized
         /\ Spreads!Repriced(s, premiums).fees = s.fees
<1> DEFINE legs == [k \in DOMAIN s.legs |->
                     IF s.legs[k].settled THEN s.legs[k] ELSE [s.legs[k] EXCEPT !.premium = premiums[k]]]
<1>1. legs \in [Contracts -> LegType]
  <2>1. \A leg \in LegType, p \in Int : [leg EXCEPT !.premium = p] \in LegType
    BY DEF LegType
  <2>2. QED BY <2>1 DEF Structure, PremiumsQuoted
<1>2. Spreads!Repriced(s, premiums) = [s EXCEPT !.legs = legs]
  BY DEF Spreads!Repriced, Structure, Record
<1> HIDE DEF legs
<1>3. QED BY <1>1, <1>2 DEF Structure, Record

LEMMA SpreadReprices ==
  ASSUME NEW b, SpreadBalance(b), Spreads!Holds(b), NEW premiums, PremiumsQuoted(premiums)
  PROVE  LET c == [b EXCEPT !.spread = Spreads!Repriced(@, premiums)] IN SpreadBalance(c) /\ Spreads!Holds(c)
<1> DEFINE s == Spreads!Repriced(b.spread, premiums)
           c == [b EXCEPT !.spread = s]
<1>1. Structure(s) /\ s.realized = b.spread.realized /\ s.fees = b.spread.fees /\ s # Spreads!None
  BY StructureReprices, StructureIsHeld DEF SpreadBalance
<1> HIDE DEF s
<1>2. SpreadBook(c) /\ c.cash = b.cash /\ c.booked = b.booked /\ c.spread = s
  BY DEF SpreadBalance, SpreadBook, Record
<1> HIDE DEF c
<1>3. SpreadBalance(c) /\ Spreads!Holds(c)
  BY <1>1, <1>2 DEF SpreadBalance, Spreads!Holds
<1>4. QED BY <1>3 DEF c, s

LEMMA SpreadSettles ==
  ASSUME SpreadPlan, NEW b, SpreadBalance(b), Spreads!Holds(b), NEW now
  PROVE  SpreadBalance(Spreads!Settled(b, now)) /\ Spreads!Holds(Spreads!Settled(b, now))
<1> DEFINE due == Spreads!Due(b.spread, now)
           f == [k \in due |-> Spreads!LegPnL(b.spread.legs[k])]
           credit == Spreads!SumFunction(f)
           legs == [k \in DOMAIN b.spread.legs |-> [b.spread.legs[k] EXCEPT !.settled = @ \/ k \in due]]
           realized == b.spread.realized + credit
           cash == b.cash + credit
           s == [b.spread EXCEPT !.realized = realized, !.legs = legs]
           c == [b EXCEPT !.cash = cash, !.spread = s]
<1>1. Structure(b.spread)
  BY DEF SpreadBalance
<1>2. due \in SUBSET Contracts
  BY <1>1 DEF Spreads!Due, Structure
<1>3. credit \in Int
  <2>1. f \in [due -> Int]
    BY <1>1, <1>2, LegGains DEF Structure
  <2> HIDE DEF f, due
  <2>2. QED BY <1>2, <2>1, LegSum
<1>4. legs \in [Contracts -> LegType]
  <2>1. \A leg \in LegType, e \in BOOLEAN : [leg EXCEPT !.settled = @ \/ e] \in LegType
    BY DEF LegType
  <2> HIDE DEF due
  <2>2. QED BY <1>1, <2>1 DEF Structure
<1>5. Spreads!Settled(b, now) = c
  <2>1. SpreadBook(b) /\ Structure(b.spread)
    BY <1>1 DEF SpreadBalance
  <2>2. Spreads!Settled(b, now) = [b EXCEPT !.cash = cash, !.spread.realized = realized, !.spread.legs = legs]
    <3> HIDE DEF due
    <3>1. Spreads!Settled(b, now) = [b EXCEPT !.cash = @ + credit, !.spread.realized = @ + credit, !.spread.legs = legs]
      BY DEF Spreads!Settled, due
    <3> HIDE DEF credit, legs
    <3>2. QED BY <2>1, <3>1 DEF SpreadBook, Structure, Record
  <2> HIDE DEF cash, realized, legs
  <2>3. QED BY <2>1, <2>2 DEF SpreadBook, Structure, Record
<1>a. realized \in Int /\ cash \in Int
  <2> HIDE DEF credit
  <2>1. QED BY <1>1, <1>3 DEF SpreadBalance, Structure
<1> HIDE DEF legs, realized
<1>6. Structure(s) /\ s.realized = realized /\ s.fees = b.spread.fees
  BY <1>1, <1>a, <1>4 DEF Structure, Record
<1>7. s # Spreads!None
  BY <1>6, StructureIsHeld
<1> HIDE DEF s, cash
<1>8. SpreadBook(c) /\ c.cash = cash /\ c.booked = b.booked /\ c.spread = s
  BY DEF SpreadBalance, SpreadBook, Record
<1> HIDE DEF c
<1>9. SpreadBalance(c) /\ Spreads!Holds(c)
  <2>1. c.cash = plan.cash + c.booked + c.spread.realized - c.spread.fees /\ c.cash \in Int /\ c.booked \in Int
    <3> HIDE DEF credit
    <3>1. QED BY <1>1, <1>a, <1>3, <1>6, <1>8 DEF SpreadBalance, Structure, SpreadPlan, realized, cash
  <2>2. QED BY <1>6, <1>7, <1>8, <2>1 DEF SpreadBalance, Spreads!Holds
<1>10. QED BY <1>5, <1>9

LEMMA SpreadRecords ==
  ASSUME SpreadPlan, NEW b, SpreadBalance(b), Spreads!Holds(b), NEW s, Structure(s),
         s.realized = b.spread.realized, s.fees = b.spread.fees, NEW reason
  PROVE  SpreadBalance(Spreads!Recorded(b, s, reason))
<1> DEFINE exit == Spreads!SideFee(s, FALSE)
           fees == IF reason = "Settlement" THEN 0 ELSE exit
           gain == Spreads!Unrealized(s)
           cash == b.cash + gain - fees
           booked == b.booked + s.realized + gain - s.fees - fees
           c == Spreads!Recorded(b, s, reason)
<1>1. fees \in Int
  <2>1. \A e \in BOOLEAN : Spreads!SideFee(s, e) \in Int
    BY StructureFee
  <2>2. exit \in Int
    BY <2>1, Zenon
  <2> HIDE DEF exit
  <2>3. QED BY <2>2
<1>2. gain \in Int
  BY StructureGains
<1>3. c = [b EXCEPT !.cash = cash, !.booked = booked, !.reasons = @ \cup {reason}, !.spread = Spreads!None]
  BY DEF Spreads!Recorded
<1> HIDE DEF exit, fees, gain
<1>4. cash \in Int /\ booked \in Int /\ cash = plan.cash + booked
  BY <1>1, <1>2 DEF SpreadBalance, Structure, SpreadPlan
<1> HIDE DEF cash, booked, c
<1>5. SpreadBook(c) /\ c.cash = cash /\ c.booked = booked /\ c.spread = Spreads!None
  BY <1>3 DEF SpreadBalance, SpreadBook, Record
<1>6. QED BY <1>4, <1>5 DEF SpreadBalance, Spreads!Holds, c

LEMMA SpreadExits ==
  ASSUME SpreadPlan, NEW b, SpreadBalance(b), Spreads!Holds(b), NEW exit, NEW now, NEW opens, PremiumsQuoted(opens)
  PROVE  SpreadBalance(Spreads!Exited(b, exit, now, opens))
<1>1. Structure(b.spread)
  BY DEF SpreadBalance
<1>2. ASSUME NEW reason
      PROVE  /\ SpreadBalance(Spreads!Recorded(b, b.spread, reason))
             /\ SpreadBalance(Spreads!Recorded(b, Spreads!Repriced(b.spread, opens), reason))
  <2>1. SpreadBalance(Spreads!Recorded(b, b.spread, reason))
    BY <1>1, SpreadRecords
  <2> DEFINE s == Spreads!Repriced(b.spread, opens)
  <2>2. Structure(s) /\ s.realized = b.spread.realized /\ s.fees = b.spread.fees
    BY <1>1, StructureReprices
  <2> HIDE DEF s
  <2>3. SpreadBalance(Spreads!Recorded(b, s, reason))
    BY <2>2, SpreadRecords
  <2>4. QED BY <2>1, <2>3 DEF s
<1>3. QED BY <1>2 DEF Spreads!Exited

LEMMA SpreadOpens ==
  ASSUME SpreadPlan, NEW b, SpreadBalance(b), ~Spreads!Holds(b), NEW premiums, PremiumsQuoted(premiums)
  PROVE  SpreadBalance(Spreads!Opened(b, premiums))
<1> DEFINE legs == [k \in Contracts |->
                     [quantity |-> plan.legs[k].quantity, lot |-> plan.legs[k].lot,
                      entry |-> premiums[k], premium |-> premiums[k], settled |-> FALSE]]
           fresh == [legs |-> legs, realized |-> 0, fees |-> 0]
           fees == Spreads!SideFee(fresh, TRUE)
           s == [fresh EXCEPT !.fees = fees]
           c == [b EXCEPT !.cash = @ - fees, !.spread = s]
<1>1. legs \in [Contracts -> LegType]
  BY DEF SpreadPlan, LegType, PremiumsQuoted
<1>2. Spreads!Opened(b, premiums) = c
  BY DEF Spreads!Opened, Contracts
<1> HIDE DEF legs
<1>3. Structure(fresh)
  BY <1>1 DEF Structure, Record
<1>4. fees \in Int
  <2> HIDE DEF fresh
  <2>1. \A e \in BOOLEAN : Spreads!SideFee(fresh, e) \in Int
    BY <1>3, StructureFee
  <2>2. QED BY <2>1, Zenon
<1> HIDE DEF fees
<1>5. Structure(s) /\ s.realized = 0 /\ s.fees = fees
  BY <1>1, <1>4 DEF Structure, Record
<1>6. s # Spreads!None
  BY <1>5, StructureIsHeld
<1> HIDE DEF s
<1>7. SpreadBook(c) /\ c.cash = b.cash - fees /\ c.booked = b.booked /\ c.spread = s
  BY DEF SpreadBalance, SpreadBook, Record
<1>8. QED BY <1>2, <1>4, <1>5, <1>6, <1>7 DEF SpreadBalance, Spreads!Holds, SpreadPlan

SpreadHeld == SpreadBalance(book) /\ SpreadPlan /\ plan \in SpreadPlans

LEMMA SpreadStarts ==
  ASSUME Spreads!Init
  PROVE  SpreadHeld
<1>1. plan \in SpreadPlans /\ SpreadPlan
  BY SpreadAssumption DEF Spreads!Init, SpreadPlan, Contracts
<1>2. SpreadBook(book) /\ book.cash = plan.cash /\ book.booked = 0 /\ book.spread = Spreads!None
  BY DEF Spreads!Init, SpreadBook, Record
<1>3. QED BY <1>1, <1>2 DEF Spreads!Holds, SpreadHeld, SpreadPlan, SpreadBalance, SpreadBook, Record

LEMMA SpreadBar ==
  ASSUME SpreadHeld, NEW bar \in SpreadBars, Spreads!Bar(bar)
  PROVE  SpreadHeld'
<1> DEFINE now == book.bar + 1
           l == Spreads!Left(book, bar, now)
           enters == Spreads!Acts(book, bar).enter
           e == Spreads!Entered(l, bar, enters, now)
<1>1. SpreadPlan /\ SpreadBalance(book)
  BY DEF SpreadHeld
<1>2. PremiumsQuoted(bar.open) /\ PremiumsQuoted(bar.value) /\ PremiumsQuoted(Spreads!FillPremiums(bar))
  BY SpreadAssumption DEF Spreads!FillPremiums, PremiumsQuoted, Contracts, SpreadHeld
<1>3. SpreadBalance(l)
  <2>1. ASSUME Spreads!Holds(book), NEW exit
        PROVE  SpreadBalance(Spreads!Exited(Spreads!Settled([book EXCEPT !.spread = Spreads!Repriced(@, bar.value)], now), exit, now, bar.open))
    <3> DEFINE b == [book EXCEPT !.spread = Spreads!Repriced(@, bar.value)]
               c == Spreads!Settled(b, now)
    <3>1. SpreadBalance(b) /\ Spreads!Holds(b)
      BY <1>1, <1>2, <2>1, SpreadReprices
    <3> HIDE DEF b
    <3>2. SpreadBalance(c) /\ Spreads!Holds(c)
      BY <1>1, <3>1, SpreadSettles
    <3> HIDE DEF c
    <3>3. SpreadBalance(Spreads!Exited(c, exit, now, bar.open))
      BY <1>1, <1>2, <3>2, SpreadExits
    <3>4. QED BY <3>3 DEF b, c
  <2>2. QED BY <1>1, <2>1 DEF Spreads!Left
<1>4. book' = Spreads!Seen(e, bar, now) /\ plan' = plan
  BY DEF Spreads!Bar, Spreads!OnBar
<1> HIDE DEF l, enters
<1>5. SpreadBalance(e)
  <2>1. ~Spreads!Holds(l) => SpreadBalance(Spreads!Opened(l, Spreads!FillPremiums(bar)))
    BY <1>1, <1>2, <1>3, SpreadOpens
  <2>2. QED BY <1>3, <2>1 DEF Spreads!Entered
<1> HIDE DEF e
<1>6. SpreadBook(book') /\ book'.cash = e.cash /\ book'.booked = e.booked /\ book'.spread = e.spread
  BY <1>4, <1>5 DEF Spreads!Seen, SpreadBalance, SpreadBook, Record
<1>7. SpreadBalance(book')
  BY <1>5, <1>6 DEF SpreadBalance, Spreads!Holds
<1>8. QED BY <1>1, <1>4, <1>7 DEF SpreadHeld, SpreadBalance, SpreadPlan, Structure, Contracts, Spreads!Holds

LEMMA SpreadFinish ==
  ASSUME SpreadHeld, Spreads!Finish
  PROVE  SpreadHeld'
<1> DEFINE c == IF Spreads!Holds(book) THEN Spreads!Recorded(book, book.spread, "EndOfData") ELSE book
<1>1. book' = [c EXCEPT !.ended = TRUE] /\ plan' = plan
  BY DEF Spreads!Finish
<1>2. SpreadPlan /\ SpreadBalance(c)
  <2>1. SpreadPlan /\ SpreadBalance(book)
    BY DEF SpreadHeld
  <2>2. Spreads!Holds(book) => \A r : SpreadBalance(Spreads!Recorded(book, book.spread, r))
    BY <2>1, SpreadRecords DEF SpreadBalance
  <2>3. QED BY <2>1, <2>2
<1> HIDE DEF c
<1>3. SpreadBook(book') /\ book'.cash = c.cash /\ book'.booked = c.booked /\ book'.spread = c.spread
  BY <1>1, <1>2 DEF SpreadBalance, SpreadBook, Record
<1>4. SpreadBalance(book')
  BY <1>2, <1>3 DEF SpreadBalance, Spreads!Holds
<1>5. QED BY <1>1, <1>2, <1>4 DEF SpreadHeld, SpreadBalance, SpreadPlan, Structure, Contracts, Spreads!Holds

LEMMA SpreadBalances ==
  ASSUME SpreadHeld
  PROVE  Spreads!BooksBalance
BY DEF SpreadHeld, SpreadBalance, Spreads!BooksBalance

-----------------------------------------------------------------------------
(* Baskets. *)

LEMMA SumOfBoth ==
  ASSUME NEW D, IsFiniteSet(D), NEW f \in [D -> Int], NEW g \in [D -> Int], NEW h \in [D -> Int],
         \A x \in D : f[x] = g[x] + h[x]
  PROVE  SumFunction(f) = SumFunction(g) + SumFunction(h)
<1>1. f = [x \in D |-> g[x] + h[x]]
  OBVIOUS
<1>2. QED BY <1>1, SumAdds

Holding == [size : Nat, price : Int]

BasketPlan ==
  /\ plan.fees \in FeeModels /\ plan.cash \in Int /\ plan.direction = "Long" /\ IsFiniteSet(Basket!Legs)
  /\ \A i \in Basket!Legs : plan.weights[i] \in Nat /\ plan.caps[i] \in Nat /\ plan.lots[i] \in Nat

Worth(held, at) == SumFunction([i \in Basket!Legs |-> held[i].size * at[i]])
Cost(held) == SumFunction([i \in Basket!Legs |-> held[i].size * held[i].price])

BasketBalance(b) ==
  /\ BasketBook(b) /\ b.cash \in Int /\ b.booked \in Int /\ b.paid \in Int /\ b.held \in [Basket!Legs -> Holding]
  /\ b.cash = plan.cash + b.booked - b.paid - Cost(b.held)

Priced(at) == \A i \in Basket!Legs : at[i] \in Int

LEMMA BasketSum ==
  ASSUME NEW f
  PROVE  Basket!SumFunction(f) = SumFunction(f)
BY DEF Basket!SumFunction, Basket!SumFunctionOnSet, Basket!FoldFunctionOnSet, Basket!MapThenFoldSet,
       SumFunction, SumFunctionOnSet, FoldFunctionOnSet, MapThenFoldSet

LEMMA BasketFee ==
  ASSUME BasketPlan, NEW price \in Int, NEW size \in Int
  PROVE  Basket!FeeOn(price, size) \in Int
<1>1. \A e : Basket!FeeOfSide(plan.fees, price, size, plan.direction, e) = FeeOfSide(plan.fees, price, size, plan.direction, e)
  BY DEF Basket!FeeOfSide, FeeOfSide, Basket!Size, Size, Basket!Portion, Portion, Basket!TierRate, TierRate,
         Basket!Total, Total, Basket!Charges, Charges, Basket!Buys, Buys, Basket!Brokerage, Brokerage,
         Basket!LesserOf, LesserOf, Basket!Cardinality, Cardinality
<1>2. \A e : FeeOfSide(plan.fees, price, size, plan.direction, e) \in Int
  BY FeeIsInt DEF BasketPlan
<1>3. \A e : Basket!FeeOfSide(plan.fees, price, size, plan.direction, e) \in Int
  BY <1>1, <1>2
<1>4. Basket!FeeOfSide(plan.fees, price, size, plan.direction, TRUE) \in Int
  BY <1>3, Zenon
<1>5. QED BY <1>4 DEF Basket!FeeOn, Basket!Fee

\* What is not held is worth nothing.
LEMMA OpenIsAll ==
  ASSUME BasketPlan, NEW held \in [Basket!Legs -> Holding], NEW S, S = {i \in Basket!Legs : held[i].size > 0}
  PROVE  /\ IsFiniteSet(S) /\ S \subseteq Basket!Legs
         /\ Cost(held) \in Int /\ Cost(held) = SumFunction([i \in S |-> held[i].size * held[i].price])
         /\ \A at : Priced(at) =>
              Worth(held, at) \in Int /\ Worth(held, at) = SumFunction([i \in S |-> held[i].size * at[i]])
<1>1. IsFiniteSet(S) /\ S \subseteq Basket!Legs /\ IsFiniteSet(Basket!Legs)
  BY FS_Subset DEF BasketPlan
<1>2. ASSUME NEW at, Priced(at)
      PROVE  SumFunction([i \in Basket!Legs |-> held[i].size * at[i]]) \in Int
             /\ SumFunction([i \in Basket!Legs |-> held[i].size * at[i]]) = SumFunction([i \in S |-> held[i].size * at[i]])
  <2> DEFINE f == [i \in Basket!Legs |-> held[i].size * at[i]]
  <2>1. f \in [Basket!Legs -> Int]
    BY <1>2 DEF Priced, Holding
  <2>2. \A i \in Basket!Legs \ S : f[i] = 0
    <3>1. \A i \in Basket!Legs \ S : held[i].size = 0
      BY DEF Holding
    <3>2. QED BY <1>2, <3>1 DEF Priced
  <2>3. [i \in S |-> f[i]] = [i \in S |-> held[i].size * at[i]]
    BY <1>1
  <2> HIDE DEF f
  <2>4. SumFunction(f) \in Int /\ SumFunction(f) = SumFunction([i \in S |-> f[i]])
    BY <1>1, <2>1, <2>2, SumIsInt, SumOnPart
  <2>5. QED BY <2>3, <2>4 DEF f
<1> DEFINE cost == [i \in Basket!Legs |-> held[i].price]
<1>3. Priced(cost)
  BY DEF Priced, Holding
<1>4. [i \in Basket!Legs |-> held[i].size * cost[i]] = [i \in Basket!Legs |-> held[i].size * held[i].price]
      /\ [i \in S |-> held[i].size * cost[i]] = [i \in S |-> held[i].size * held[i].price]
  BY <1>1
<1> HIDE DEF cost
<1>5. QED BY <1>1, <1>2, <1>3, <1>4 DEF Worth, Cost

\* Closing at these prices: what the records report is what comes back, less the
\* cost and the fees.
LEMMA BasketGains ==
  ASSUME BasketPlan, NEW held \in [Basket!Legs -> Holding], NEW at, Priced(at),
         NEW S, S = {i \in Basket!Legs : held[i].size > 0}
  PROVE  LET gains == SumFunction([i \in S |-> Basket!PnL(held[i], at[i])])
             fees == SumFunction([i \in S |-> Basket!FeeOn(at[i], held[i].size)])
             back == SumFunction([i \in S |-> at[i] * held[i].size - Basket!FeeOn(at[i], held[i].size)])
         IN /\ gains \in Int /\ fees \in Int /\ back \in Int
            /\ back = gains + Cost(held) /\ Worth(held, at) = back + fees
<1> DEFINE g == [i \in S |-> Basket!PnL(held[i], at[i])]
           f == [i \in S |-> Basket!FeeOn(at[i], held[i].size)]
           k == [i \in S |-> at[i] * held[i].size - Basket!FeeOn(at[i], held[i].size)]
           c == [i \in S |-> held[i].size * held[i].price]
           w == [i \in S |-> held[i].size * at[i]]
<1>1. /\ IsFiniteSet(S) /\ S \subseteq Basket!Legs
      /\ Cost(held) = SumFunction(c) /\ Worth(held, at) = SumFunction(w)
  BY OpenIsAll
<1>2. \A i \in S : held[i].size \in Int /\ held[i].price \in Int /\ at[i] \in Int
  BY <1>1 DEF Holding, Priced
<1>3. \A i \in S : Basket!FeeOn(at[i], held[i].size) \in Int
  BY <1>2, BasketFee
<1>4. \A i \in S : Basket!PnL(held[i], at[i]) = (at[i] - held[i].price) * held[i].size - Basket!FeeOn(at[i], held[i].size)
  <2>1. Basket!Multiplier(plan.direction) = 1
    BY DEF BasketPlan, Basket!Multiplier
  <2>2. \A i \in S : (at[i] - held[i].price) * held[i].size * 1 = (at[i] - held[i].price) * held[i].size
    BY <1>2
  <2>3. QED BY <2>1, <2>2 DEF Basket!PnL
<1>5. ASSUME NEW i \in S
      PROVE  /\ g[i] \in Int /\ f[i] \in Int /\ k[i] \in Int /\ c[i] \in Int /\ w[i] \in Int
             /\ k[i] = g[i] + c[i] /\ w[i] = k[i] + f[i]
  <2> DEFINE fee == Basket!FeeOn(at[i], held[i].size)
             size == held[i].size
             price == held[i].price
             now == at[i]
  <2>1. fee \in Int /\ size \in Int /\ price \in Int /\ now \in Int
    BY <1>2, <1>3
  <2>2. g[i] = (now - price) * size - fee /\ f[i] = fee /\ k[i] = now * size - fee /\ c[i] = size * price /\ w[i] = size * now
    BY <1>4
  <2> HIDE DEF fee, size, price, now, g, f, k, c, w
  <2>3. (now - price) * size = now * size - size * price /\ size * now = now * size
    BY <2>1
  <2>4. QED BY <2>1, <2>2, <2>3
<1>6. g \in [S -> Int] /\ f \in [S -> Int] /\ k \in [S -> Int] /\ c \in [S -> Int] /\ w \in [S -> Int]
  <2>1. DOMAIN g = S /\ DOMAIN f = S /\ DOMAIN k = S /\ DOMAIN c = S /\ DOMAIN w = S
        /\ g = [i \in S |-> g[i]] /\ f = [i \in S |-> f[i]] /\ k = [i \in S |-> k[i]]
        /\ c = [i \in S |-> c[i]] /\ w = [i \in S |-> w[i]]
    OBVIOUS
  <2> HIDE DEF g, f, k, c, w
  <2>2. QED BY <1>5, <2>1
<1> HIDE DEF g, f, k, c, w
<1>7. SumFunction(k) = SumFunction(g) + SumFunction(c) /\ SumFunction(w) = SumFunction(k) + SumFunction(f)
  BY <1>1, <1>5, <1>6, SumOfBoth
<1>8. SumFunction(g) \in Int /\ SumFunction(f) \in Int /\ SumFunction(k) \in Int
  BY <1>1, <1>6, SumIsInt
<1>9. QED BY <1>1, <1>7, <1>8 DEF g, f, k

LEMMA FlatCosts ==
  ASSUME BasketPlan, NEW held \in [Basket!Legs -> Holding], \A i \in Basket!Legs : held[i].size = 0
  PROVE  Cost(held) = 0
<1> DEFINE f == [i \in {} |-> held[i].size * held[i].price]
<1>1. {} = {i \in Basket!Legs : held[i].size > 0}
  OBVIOUS
<1>2. Cost(held) = SumFunction(f)
  BY <1>1, OpenIsAll
<1>3. f \in [{} -> Int]
  OBVIOUS
<1> HIDE DEF f
<1>4. QED BY <1>2, <1>3, SumOfNone

LEMMA BasketCloses ==
  ASSUME BasketPlan, NEW b, BasketBalance(b), NEW at, Priced(at)
  PROVE  BasketBalance(Basket!Closed(b, at))
<1> DEFINE S == Basket!Open(b)
           gains == SumFunction([i \in S |-> Basket!PnL(b.held[i], at[i])])
           back == SumFunction([i \in S |-> at[i] * b.held[i].size - Basket!FeeOn(at[i], b.held[i].size)])
           cash == b.cash + back
           booked == b.booked + gains
           held == [i \in Basket!Legs |-> Basket!Flat]
           c == Basket!Closed(b, at)
<1>1. S = {i \in Basket!Legs : b.held[i].size > 0} /\ b.held \in [Basket!Legs -> Holding]
  BY DEF Basket!Open, BasketBalance
<1>2. c = [b EXCEPT !.cash = cash, !.booked = booked, !.held = held]
  BY BasketSum DEF Basket!Closed, Basket!Over
<1>3. gains \in Int /\ back \in Int /\ back = gains + Cost(b.held)
  BY <1>1, BasketGains
<1>4. held \in [Basket!Legs -> Holding] /\ \A i \in Basket!Legs : held[i].size = 0
  BY DEF Holding, Basket!Flat
<1> HIDE DEF held
<1>5. Cost(held) = 0 /\ Cost(b.held) \in Int
  BY <1>1, <1>4, FlatCosts, OpenIsAll
<1> HIDE DEF gains, back
<1>6. cash \in Int /\ booked \in Int /\ cash = plan.cash + booked - b.paid - Cost(held)
  BY <1>3, <1>5 DEF BasketBalance, BasketPlan
<1> HIDE DEF cash, booked, c
<1>7. BasketBook(c) /\ c.cash = cash /\ c.booked = booked /\ c.held = held /\ c.paid = b.paid
  BY <1>2 DEF BasketBalance, BasketBook, Record
<1>8. QED BY <1>4, <1>6, <1>7 DEF BasketBalance, c

LEMMA BasketSizes ==
  ASSUME BasketPlan, NEW cash \in Int, NEW price \in Int, NEW i \in Basket!Legs
  PROVE  Basket!SizeOf(cash, price, i) \in Int
<1> DEFINE f == [j \in Basket!Legs |-> plan.weights[j]]
           weights == SumFunction(f)
           share == (cash * plan.weights[i]) \div weights
           allotted == IF plan.caps[i] > 0 THEN Basket!LesserOf(plan.caps[i], share) ELSE share
           raw == allotted \div price
<1>1. weights \in Nat
  <2>1. f \in [Basket!Legs -> Nat]
    BY DEF BasketPlan
  <2> HIDE DEF f
  <2>2. QED BY <2>1, SumIsNat DEF BasketPlan
<1>2. Basket!SizeOf(cash, price, i) = IF weights = 0 \/ price <= 0 THEN 0 ELSE Basket!Lots(raw, plan.lots[i])
  BY BasketSum DEF Basket!SizeOf, Basket!Over
<1> HIDE DEF weights
<1>3. CASE weights = 0 \/ price <= 0
  BY <1>2, <1>3
<1>4. CASE ~(weights = 0 \/ price <= 0)
  <2>1. cash * plan.weights[i] \in Int /\ plan.caps[i] \in Int /\ plan.lots[i] \in Nat
    BY DEF BasketPlan
  <2>2. share \in Int
    BY <1>1, <1>4, <2>1
  <2> HIDE DEF share
  <2>3. allotted \in Int
    BY <2>1, <2>2 DEF Basket!LesserOf
  <2> HIDE DEF allotted
  <2>4. raw \in Int
    BY <1>4, <2>3
  <2> HIDE DEF raw
  <2>5. Basket!Lots(raw, plan.lots[i]) \in Int
    BY <2>1, <2>4 DEF Basket!Lots
  <2>6. QED BY <1>2, <1>4, <2>5
<1>5. QED BY <1>3, <1>4

LEMMA BasketOpens ==
  ASSUME BasketPlan, NEW b, BasketBalance(b), Basket!Open(b) = {}, NEW at, Priced(at)
  PROVE  BasketBalance(Basket!Opened(b, at))
<1> DEFINE bought == [i \in Basket!Legs |-> Basket!SizeOf(b.cash, at[i], i)]
           S == {i \in Basket!Legs : bought[i] > 0}
           f == [i \in S |-> Basket!FeeOn(at[i], bought[i])]
           k == [i \in S |-> at[i] * bought[i] + Basket!FeeOn(at[i], bought[i])]
           held == [i \in Basket!Legs |-> IF i \in S THEN [size |-> bought[i], price |-> at[i]] ELSE Basket!Flat]
           w == [i \in S |-> held[i].size * held[i].price]
           spent == SumFunction(k)
           fees == SumFunction(f)
           cash == b.cash - spent
           paid == b.paid + fees
           c == Basket!Opened(b, at)
<1>1. \A i \in Basket!Legs : bought[i] \in Int /\ at[i] \in Int
  BY BasketSizes DEF BasketBalance, Priced
<1>2. c = [b EXCEPT !.cash = cash, !.paid = paid, !.held = held]
  <2>1. S = {i \in Basket!Legs : Basket!SizeOf(b.cash, at[i], i) > 0}
    OBVIOUS
  <2>2. k = [i \in S |-> at[i] * Basket!SizeOf(b.cash, at[i], i) + Basket!FeeOn(at[i], Basket!SizeOf(b.cash, at[i], i))]
    OBVIOUS
  <2>3. f = [i \in S |-> Basket!FeeOn(at[i], Basket!SizeOf(b.cash, at[i], i))]
    OBVIOUS
  <2>4. held = [i \in Basket!Legs |-> IF i \in S THEN [size |-> Basket!SizeOf(b.cash, at[i], i), price |-> at[i]] ELSE Basket!Flat]
    OBVIOUS
  <2> HIDE DEF S, k, f, held
  <2>5. QED BY <2>1, <2>2, <2>3, <2>4, BasketSum DEF Basket!Opened, Basket!Over
<1> HIDE DEF bought
<1>3. held \in [Basket!Legs -> Holding] /\ S = {i \in Basket!Legs : held[i].size > 0}
  BY <1>1 DEF Holding, Basket!Flat
<1>4. IsFiniteSet(S) /\ S \subseteq Basket!Legs /\ Cost(held) \in Int /\ Cost(held) = SumFunction(w)
  <2> HIDE DEF held, S
  <2>1. QED BY <1>3, OpenIsAll
<1>5. ASSUME NEW i \in S PROVE f[i] \in Int /\ w[i] \in Int /\ k[i] \in Int /\ k[i] = w[i] + f[i]
  <2> DEFINE size == bought[i]
             price == at[i]
             fee == Basket!FeeOn(price, size)
  <2>1. size \in Int /\ price \in Int /\ fee \in Int
    BY <1>1, BasketFee
  <2>2. f[i] = fee /\ k[i] = price * size + fee /\ w[i] = size * price
    BY <1>3
  <2> HIDE DEF f, k, w, size, price, fee
  <2>3. price * size = size * price
    BY <2>1
  <2>4. QED BY <2>1, <2>2, <2>3
<1>6. f \in [S -> Int] /\ k \in [S -> Int] /\ w \in [S -> Int]
  <2>1. f = [i \in S |-> f[i]] /\ k = [i \in S |-> k[i]] /\ w = [i \in S |-> w[i]]
    OBVIOUS
  <2> HIDE DEF S, f, k, w
  <2>2. QED BY <1>5, <2>1
<1> HIDE DEF S, f, k, w, held
<1>7. spent = Cost(held) + fees /\ fees \in Int /\ spent \in Int
  <2>1. SumFunction(k) = SumFunction(w) + SumFunction(f)
    BY <1>4, <1>5, <1>6, SumOfBoth
  <2>2. QED BY <1>4, <1>6, <2>1, SumIsInt
<1>8. Cost(b.held) = 0
  <2>1. b.held \in [Basket!Legs -> Holding] /\ \A i \in Basket!Legs : b.held[i].size = 0
    BY DEF Basket!Open, BasketBalance, Holding
  <2>2. QED BY <2>1, FlatCosts
<1> HIDE DEF spent, fees
<1>9. cash \in Int /\ paid \in Int /\ cash = plan.cash + b.booked - paid - Cost(held)
  BY <1>4, <1>7, <1>8 DEF BasketBalance, BasketPlan
<1> HIDE DEF cash, paid, c
<1>10. BasketBook(c) /\ c.cash = cash /\ c.booked = b.booked /\ c.held = held /\ c.paid = paid
  BY <1>2 DEF BasketBalance, BasketBook, Record
<1>11. QED BY <1>3, <1>9, <1>10 DEF BasketBalance, c

\* The curve is the cash and what is held, at the last closes; after the last bar
\* it also lacks the fees owed.
BasketHeld ==
  /\ plan \in BasketPlans
  /\ plan.direction = "Long" =>
       /\ BasketPlan
       /\ ~book.ended =>
            BasketBalance(book) /\ Priced(book.last) /\ book.curve = book.cash + Worth(book.held, book.last)
       /\ book.ended => book.curve = plan.cash + book.booked - book.paid + book.owed

LEMMA BasketStays ==
  ASSUME plan' = plan, plan \in BasketPlans,
         plan.direction = "Long" =>
           /\ BasketPlan
           /\ ~book'.ended =>
                BasketBalance(book') /\ Priced(book'.last) /\ book'.curve = book'.cash + Worth(book'.held, book'.last)
           /\ book'.ended => book'.curve = plan.cash + book'.booked - book'.paid + book'.owed
  PROVE  BasketHeld'
<1>1. BasketPlan => BasketPlan'
  BY DEF BasketPlan, Basket!Legs
<1>2. BasketBalance(book') => BasketBalance(book)'
  BY DEF BasketBalance, Basket!Legs, Cost
<1>3. Priced(book'.last) => Priced(book.last)'
  BY DEF Priced, Basket!Legs
<1>4. Worth(book.held, book.last)' = Worth(book'.held, book'.last)
  BY DEF Worth, Basket!Legs
<1>5. QED BY <1>1, <1>2, <1>3, <1>4 DEF BasketHeld

LEMMA BasketStarts ==
  ASSUME Basket!Init
  PROVE  BasketHeld
<1>1. plan \in BasketPlans
  BY DEF Basket!Init
<1> SUFFICES ASSUME plan.direction = "Long"
             PROVE  /\ BasketPlan /\ BasketBalance(book) /\ Priced(book.last) /\ ~book.ended
                    /\ book.curve = book.cash + Worth(book.held, book.last)
  BY <1>1 DEF BasketHeld
<1>2. BasketPlan
  BY <1>1, BasketAssumption DEF BasketPlan, Basket!Legs
<1>3. /\ BasketBook(book) /\ book.cash = plan.cash /\ book.curve = plan.cash /\ book.booked = 0 /\ book.paid = 0
      /\ ~book.ended /\ book.held = [i \in Basket!Legs |-> Basket!Flat] /\ book.last = [i \in Basket!Legs |-> 0]
  BY DEF Basket!Init, BasketBook, Record
<1>4. book.held \in [Basket!Legs -> Holding] /\ Priced(book.last) /\ \A i \in Basket!Legs : book.held[i].size = 0
  BY <1>3 DEF Holding, Basket!Flat, Priced
<1>5. Cost(book.held) = 0
  BY <1>2, <1>4, FlatCosts
<1>6. Worth(book.held, book.last) = 0
  <2>1. [i \in Basket!Legs |-> book.held[i].size * book.last[i]] = [i \in Basket!Legs |-> book.held[i].size * book.held[i].price]
    BY <1>3, <1>4 DEF Basket!Flat
  <2>2. QED BY <1>5, <2>1 DEF Worth, Cost
<1>7. QED BY <1>2, <1>3, <1>4, <1>5, <1>6 DEF BasketBalance, BasketPlan

LEMMA BasketBar ==
  ASSUME BasketHeld, NEW bar \in BasketBars, Basket!Bar(bar)
  PROVE  BasketHeld'
<1>0. plan' = plan /\ plan \in BasketPlans
  BY DEF Basket!Bar, BasketHeld
<1> SUFFICES ASSUME plan.direction = "Long"
             PROVE  /\ BasketPlan /\ BasketBalance(book') /\ Priced(book'.last) /\ ~book'.ended
                    /\ book'.curve = book'.cash + Worth(book'.held, book'.last)
  BY <1>0, BasketStays
<1> DEFINE l == Basket!Left(book, bar)
           enters == Basket!Acts(book, bar).enter
           e == Basket!Entered(l, bar, enters)
           decided == Basket!Decided(book, bar)
           m == Basket!Marked(e, bar)
           mark == SumFunction([i \in Basket!Open(e) |-> e.held[i].size * bar.close[i]])
<1>1. BasketPlan /\ BasketBalance(book) /\ ~book.ended
  BY DEF Basket!Bar, BasketHeld
<1>2. Priced(bar.open) /\ Priced(bar.close) /\ Priced(Basket!FillPrices(bar))
  BY <1>0, BasketAssumption DEF Basket!FillPrices, Priced, Basket!Legs
<1>3. BasketBalance(l)
  <2>1. BasketBalance(Basket!Closed(book, Basket!FillPrices(bar)))
    BY <1>1, <1>2, BasketCloses
  <2>2. QED BY <1>1, <2>1 DEF Basket!Left
<1>a. l.ended = book.ended
  BY <1>1 DEF Basket!Left, Basket!Closed, BasketBalance, BasketBook, Record
<1>4. book' = Basket!Seen(m, bar, decided)
  BY DEF Basket!Bar, Basket!OnBar
<1> HIDE DEF l, enters, decided
<1>5. BasketBalance(e)
  <2>1. Basket!Open(l) = {} => BasketBalance(Basket!Opened(l, Basket!FillPrices(bar)))
    BY <1>1, <1>2, <1>3, BasketOpens
  <2>2. QED BY <1>3, <2>1 DEF Basket!Entered
<1>b. e.ended = l.ended
  BY <1>3 DEF Basket!Entered, Basket!Opened, BasketBalance, BasketBook, Record
<1> HIDE DEF e
<1>6. m = [e EXCEPT !.curve = e.cash + mark]
  BY BasketSum DEF Basket!Marked, Basket!Over
<1>7. mark = Worth(e.held, bar.close)
  <2>1. e.held \in [Basket!Legs -> Holding] /\ Basket!Open(e) = {i \in Basket!Legs : e.held[i].size > 0}
    BY <1>5 DEF BasketBalance, Basket!Open
  <2>2. QED BY <1>1, <1>2, <2>1, OpenIsAll
<1> DEFINE curve == e.cash + mark
<1> HIDE DEF mark
<1>8. /\ BasketBook(m) /\ m.cash = e.cash /\ m.booked = e.booked /\ m.held = e.held /\ m.paid = e.paid
      /\ m.curve = curve /\ m.ended = e.ended
  <2> HIDE DEF curve, m
  <2>1. QED BY <1>5, <1>6 DEF BasketBalance, BasketBook, Record, curve
<1> HIDE DEF m, curve
<1>9. /\ BasketBook(book') /\ book'.cash = m.cash /\ book'.booked = m.booked /\ book'.held = m.held /\ book'.paid = m.paid
      /\ book'.curve = m.curve /\ book'.ended = m.ended /\ book'.last = bar.close
  BY <1>4, <1>8 DEF Basket!Seen, BasketBook, Record
<1>10. BasketBalance(book')
  BY <1>5, <1>8, <1>9 DEF BasketBalance
<1>11. QED
  BY <1>1, <1>2, <1>7, <1>8, <1>9, <1>10, <1>a, <1>b DEF curve

LEMMA BasketFinish ==
  ASSUME BasketHeld, Basket!Finish
  PROVE  BasketHeld'
<1>0. plan' = plan /\ plan \in BasketPlans
  BY DEF Basket!Finish, BasketHeld
<1> DEFINE S == Basket!Open(book)
           gains == SumFunction([i \in S |-> Basket!PnL(book.held[i], book.last[i])])
           owed == SumFunction([i \in S |-> Basket!FeeOn(book.last[i], book.held[i].size)])
           booked == book.booked + gains
           held == [i \in Basket!Legs |-> Basket!Flat]
<1>1. book' = [book EXCEPT !.booked = booked, !.owed = owed, !.held = held, !.ended = TRUE] /\ ~book.ended
  BY BasketSum DEF Basket!Finish, Basket!Over
<1> SUFFICES ASSUME plan.direction = "Long"
             PROVE  /\ BasketPlan /\ book'.ended
                    /\ book'.curve = plan.cash + book'.booked - book'.paid + book'.owed
  BY <1>0, BasketStays
<1>2. /\ BasketPlan /\ BasketBalance(book) /\ Priced(book.last)
      /\ book.curve = book.cash + Worth(book.held, book.last)
  BY <1>1 DEF BasketHeld
<1>3. S = {i \in Basket!Legs : book.held[i].size > 0} /\ book.held \in [Basket!Legs -> Holding]
  BY <1>2 DEF Basket!Open, BasketBalance
<1>4. gains \in Int /\ owed \in Int /\ Worth(book.held, book.last) = gains + Cost(book.held) + owed
  BY <1>2, <1>3, BasketGains
<1>5. Cost(book.held) \in Int
  BY <1>2, <1>3, OpenIsAll
<1> HIDE DEF gains, owed
<1>6. book.curve = plan.cash + booked - book.paid + owed
  BY <1>2, <1>4, <1>5 DEF BasketBalance, BasketPlan
<1> HIDE DEF booked, held
<1>7. book'.booked = booked /\ book'.owed = owed /\ book'.ended /\ book'.curve = book.curve /\ book'.paid = book.paid
  BY <1>1, <1>2 DEF BasketBalance, BasketBook, Record
<1>8. QED BY <1>2, <1>6, <1>7

LEMMA BasketBalances ==
  ASSUME BasketHeld
  PROVE  Basket!BooksBalance
<1> SUFFICES ASSUME plan.direction = "Long", ~book.ended
             PROVE  book.cash = plan.cash + book.booked - book.paid
                                - Basket!Over(Basket!Open(book), LAMBDA i : book.held[i].size * book.held[i].price)
  BY DEF Basket!BooksBalance, BasketHeld
<1>1. BasketPlan /\ BasketBalance(book)
  BY DEF BasketHeld
<1>2. Basket!Open(book) = {i \in Basket!Legs : book.held[i].size > 0} /\ book.held \in [Basket!Legs -> Holding]
  BY <1>1 DEF Basket!Open, BasketBalance
<1>3. Cost(book.held) = SumFunction([i \in Basket!Open(book) |-> book.held[i].size * book.held[i].price])
  BY <1>1, <1>2, OpenIsAll
<1>4. QED BY <1>1, <1>3, BasketSum DEF BasketBalance, Basket!Over

-----------------------------------------------------------------------------
(* The pool. *)

PoolPlan ==
  /\ ~plan.nextOpen /\ plan.names \in Nat /\ plan.rate \in Nat /\ plan.maxPositions \in Nat
  /\ plan.cash \in Int /\ plan.stop \in Int /\ plan.allocation \in {"Full", "EqualWeight"}

Quoted(bar) == \A n \in Pool!Names : bar[n].open \in Int /\ bar[n].low \in Int /\ bar[n].close \in Nat \ {0}

\* What a kernel's position cost, its fees included.
Carry(k) == k.size * k.price + k.fees
Carried(ks) == SumFunction([n \in Pool!Names |-> Carry(ks[n])])
Owned(k) == k.size \in Nat /\ k.price \in Int /\ k.fees \in Int /\ (k.size = 0 => k.fees = 0)

\* A step's books: what it hands back and what it carries is what it was lent,
\* what it carried and what it made.
Settles(s, value) ==
  /\ StepState(s) /\ Owned(s.kernel) /\ s.cash \in Int /\ s.booked \in Int
  /\ s.cash + Carry(s.kernel) = value + s.booked

LEMMA PoolSum ==
  ASSUME NEW f
  PROVE  Pool!SumFunction(f) = SumFunction(f)
BY DEF Pool!SumFunction, Pool!SumFunctionOnSet, Pool!FoldFunctionOnSet, Pool!MapThenFoldSet,
       SumFunction, SumFunctionOnSet, FoldFunctionOnSet, MapThenFoldSet

LEMMA PoolNames ==
  ASSUME PoolPlan
  PROVE  IsFiniteSet(Pool!Names)
<1>1. \A n \in Nat : IsFiniteSet(1..n)
  BY FS_Interval
<1>2. QED BY <1>1 DEF PoolPlan, Pool!Names

LEMMA PoolFee ==
  ASSUME PoolPlan, NEW price \in Int, NEW size \in Int
  PROVE  Pool!FeeOn(price, size) \in Int
<1>1. \A m, e : Pool!FeeOfSide(m, price, size, "Long", e) = FeeOfSide(m, price, size, "Long", e)
  BY DEF Pool!FeeOfSide, FeeOfSide, Pool!Size, Size, Pool!Portion, Portion, Pool!TierRate, TierRate,
         Pool!Total, Total, Pool!Charges, Charges, Pool!Buys, Buys, Pool!Brokerage, Brokerage,
         Pool!LesserOf, LesserOf, Pool!Cardinality, Cardinality
<1>2. Pool!Fees \in FeeModels
  <2>1. CASE plan.rate = 0
    BY <2>1 DEF Pool!Fees, FeeModels
  <2>2. CASE plan.rate # 0
    <3>1. [kind |-> "Percentage", rate |-> plan.rate] \in [kind : {"Percentage"}, rate : Int]
      BY DEF PoolPlan
    <3>2. QED BY <2>2, <3>1 DEF Pool!Fees, FeeModels
  <2>3. QED BY <2>1, <2>2
<1>3. \A e, d : FeeOfSide(Pool!Fees, price, size, d, e) \in Int
  BY <1>2, FeeIsInt
<1>4. \A e : Pool!FeeOfSide(Pool!Fees, price, size, "Long", e) \in Int
  BY <1>1, <1>3
<1>5. Pool!FeeOfSide(Pool!Fees, price, size, "Long", TRUE) \in Int
  BY <1>4, Zenon
<1>6. QED BY <1>5 DEF Pool!FeeOn, Pool!Fee

LEMMA SaleSettles ==
  ASSUME PoolPlan, NEW s, NEW value \in Int, Settles(s, value), NEW price \in Int
  PROVE  Settles(Pool!Sold(s, price), value)
<1> DEFINE size == s.kernel.size
           old == s.kernel.price
           paid == s.kernel.fees
           fee == Pool!FeeOn(price, size)
           cash == s.cash + price * size - fee
           booked == s.booked + (price - old) * size - paid - fee
           flat == [s.kernel EXCEPT !.size = 0, !.price = 0, !.fees = 0, !.since = 0]
           t == [s EXCEPT !.cash = cash, !.booked = booked, !.kernel = flat]
<1>1. Pool!Sold(s, price) = t
  BY DEF Pool!Sold
<1>2. size \in Int /\ old \in Int /\ paid \in Int /\ fee \in Int
  <2>1. size \in Int /\ old \in Int /\ paid \in Int
    BY DEF Settles, Owned
  <2> HIDE DEF size, old, paid
  <2>2. fee \in Int
    BY <2>1, PoolFee
  <2>3. QED BY <2>1, <2>2
<1>3. s.cash + (size * old + paid) = value + s.booked /\ s.cash \in Int /\ s.booked \in Int
  BY DEF Settles, Carry
<1> HIDE DEF size, old, paid, fee
<1>4. cash \in Int /\ booked \in Int /\ cash = value + booked
  <2>1. (price - old) * size = price * size - size * old
    BY <1>2
  <2>2. QED BY <1>2, <1>3, <2>1
<1> HIDE DEF cash, booked
<1>5. /\ StepState(t) /\ t.cash = cash /\ t.booked = booked
      /\ t.kernel.size = 0 /\ t.kernel.price = 0 /\ t.kernel.fees = 0
  BY DEF Settles, StepState, Record, StepFields, KernelFields
<1> HIDE DEF t
<1>6. Carry(t.kernel) = 0 /\ Owned(t.kernel)
  BY <1>5 DEF Carry, Owned
<1>7. QED BY <1>1, <1>4, <1>5, <1>6 DEF Settles

LEMMA PurchaseSettles ==
  ASSUME PoolPlan, NEW s, NEW value \in Int, Settles(s, value), s.kernel.size = 0, s.cash \in Nat,
         NEW price \in Nat \ {0}, NEW decided
  PROVE  Settles(Pool!Bought(s, price, decided), value) /\ Pool!Bought(s, price, decided).booked = s.booked
<1> DEFINE unit == price * (1000 + plan.rate)
           pot == 1000 * s.cash
           size == pot \div unit
           fee == Pool!FeeOn(price, size)
           cash == s.cash - price * size - fee
           held == [s.kernel EXCEPT !.size = size, !.price = price, !.fees = fee, !.since = decided]
           t == [s EXCEPT !.cash = cash, !.entered = TRUE, !.kernel = held]
<1>1. Pool!Bought(s, price, decided) = IF size = 0 THEN s ELSE t
  BY DEF Pool!Bought
<1>2. size \in Nat
  <2>1. unit \in Nat \ {0} /\ pot \in Nat
    BY DEF PoolPlan
  <2> HIDE DEF unit, pot
  <2>2. QED BY <2>1, DivBounds
<1>3. fee \in Int
  <2> HIDE DEF size
  <2>1. QED BY <1>2, PoolFee
<1>4. s.cash = value + s.booked /\ s.cash \in Int /\ s.booked \in Int
  <2>1. Carry(s.kernel) = 0
    BY DEF Settles, Owned, Carry
  <2>2. QED BY <2>1 DEF Settles
<1> HIDE DEF size, fee
<1>5. cash \in Int /\ cash + (size * price + fee) = value + s.booked
  <2>1. size * price = price * size
    BY <1>2
  <2>2. QED BY <1>2, <1>3, <1>4, <2>1
<1> HIDE DEF cash
<1>6. /\ StepState(t) /\ t.cash = cash /\ t.booked = s.booked
      /\ t.kernel.size = size /\ t.kernel.price = price /\ t.kernel.fees = fee
  BY DEF Settles, StepState, Record, StepFields, KernelFields
<1> HIDE DEF t
<1>7. size # 0 => Carry(t.kernel) = size * price + fee /\ Owned(t.kernel)
  BY <1>2, <1>3, <1>6 DEF Carry, Owned
<1>8. QED BY <1>1, <1>4, <1>5, <1>6, <1>7 DEF Settles

\* A step that may only leave, and one of a flat kernel that may only enter.
LEMMA LeavingSettles ==
  ASSUME PoolPlan, NEW k, Kernel(k), Owned(k), NEW lent \in Int, NEW x,
         x.open \in Int, x.low \in Int, x.close \in Nat \ {0}, NEW leave, NEW now
  PROVE  Settles(Pool!KernelStep(k, lent, x, FALSE, leave, now), lent + Carry(k))
<1> DEFINE s == [kernel |-> k, cash |-> lent, booked |-> 0, entered |-> FALSE]
           value == lent + Carry(k)
           t == Pool!Exits(s, x, leave)
<1>1. value \in Int
  BY DEF Carry, Owned
<1>2. Settles(s, value)
  <2>1. Carry(k) \in Int
    BY DEF Carry, Owned
  <2>2. StepState(s) /\ s.kernel = k /\ s.cash = lent /\ s.booked = 0
    BY DEF StepState, Record, StepFields, Kernel
  <2> HIDE DEF s
  <2>3. QED BY <2>1, <2>2 DEF Settles
<1>3. Pool!KernelStep(k, lent, x, FALSE, leave, now) = Pool!Entries(t, x, FALSE, now)
  BY DEF Pool!KernelStep, PoolPlan
<1>4. Pool!Entries(t, x, FALSE, now) = t
  BY DEF Pool!Entries
<1> DEFINE stop == Pool!Under(k.price)
           low == Pool!LesserOf(x.open, stop)
           stopped == plan.stop > 0 /\ x.low <= stop
<1>5. low \in Int
  <2>1. plan.stop * k.price \in Int
    BY DEF PoolPlan, Owned
  <2>2. QED BY <2>1 DEF Pool!LesserOf, Pool!Under, Pool!Portion, Owned
<1>6. t = s \/ t = Pool!Sold(s, low) \/ t = Pool!Sold(s, x.close)
  <2>0. s.kernel = k
    OBVIOUS
  <2> HIDE DEF s
  <2>1. CASE Pool!InPosition(k) /\ stopped
    BY <2>0, <2>1 DEF Pool!Exits
  <2>2. CASE Pool!InPosition(k) /\ ~stopped /\ leave /\ ~plan.nextOpen
    BY <2>0, <2>2 DEF Pool!Exits
  <2>3. CASE ~(Pool!InPosition(k) /\ stopped) /\ ~(Pool!InPosition(k) /\ ~stopped /\ leave /\ ~plan.nextOpen)
    BY <2>0, <2>3 DEF Pool!Exits
  <2>4. QED BY <2>1, <2>2, <2>3
<1> HIDE DEF s, value, low
<1>7. Settles(t, value)
  <2>1. \A price \in Int : Settles(Pool!Sold(s, price), value)
    BY <1>1, <1>2, SaleSettles
  <2> HIDE DEF t
  <2>2. QED BY <1>2, <1>5, <1>6, <2>1
<1> HIDE DEF t
<1>8. QED BY <1>3, <1>4, <1>7 DEF value

LEMMA EnteringSettles ==
  ASSUME PoolPlan, NEW k, Kernel(k), Owned(k), ~Pool!InPosition(k), NEW lent \in Nat, NEW x,
         x.close \in Nat \ {0}, NEW now
  PROVE  LET s == Pool!KernelStep(k, lent, x, TRUE, FALSE, now) IN Settles(s, lent + Carry(k)) /\ s.booked = 0
<1> DEFINE s == [kernel |-> k, cash |-> lent, booked |-> 0, entered |-> FALSE]
           value == lent + Carry(k)
           price == x.close
           t == Pool!Bought(s, price, now)
<1>1. value \in Int
  BY DEF Carry, Owned
<1>2. Settles(s, value) /\ s.kernel = k /\ s.cash = lent /\ s.booked = 0
  <2>1. Carry(k) \in Int
    BY DEF Carry, Owned
  <2>2. StepState(s) /\ s.kernel = k /\ s.cash = lent /\ s.booked = 0
    BY DEF StepState, Record, StepFields, Kernel
  <2> HIDE DEF s
  <2>3. QED BY <2>1, <2>2 DEF Settles
<1>3. Pool!Exits(s, x, FALSE) = s
  <2> HIDE DEF s
  <2>1. QED BY <1>2 DEF Pool!Exits
<1>4. Pool!Entries(s, x, TRUE, now) = t
  <2> HIDE DEF s
  <2>1. QED BY <1>2 DEF Pool!Entries, PoolPlan
<1>5. Pool!KernelStep(k, lent, x, TRUE, FALSE, now) = t
  BY <1>3, <1>4 DEF Pool!KernelStep, PoolPlan
<1>6. price \in Nat \ {0} /\ s.kernel.size = 0
  BY <1>2 DEF Owned, Pool!InPosition
<1> HIDE DEF s, value, price
<1>7. Settles(t, value) /\ t.booked = s.booked
  BY <1>1, <1>2, <1>6, PurchaseSettles
<1> HIDE DEF t
<1>8. QED BY <1>2, <1>5, <1>7 DEF value

-----------------------------------------------------------------------------
PoolBalance(b) ==
  /\ PoolBook(b) /\ b.cash \in Int /\ b.booked \in Int
  /\ \A n \in Pool!Names : Owned(b.kernels[n])
  /\ b.cash = plan.cash + b.booked - Carried(b.kernels)

LEMMA CarriedIsInt ==
  ASSUME PoolPlan, NEW ks, \A n \in Pool!Names : Owned(ks[n])
  PROVE  /\ Carried(ks) \in Int /\ [n \in Pool!Names |-> Carry(ks[n])] \in [Pool!Names -> Int]
         /\ \A S : S = {n \in Pool!Names : Pool!InPosition(ks[n])} =>
              Carried(ks) = SumFunction([n \in S |-> Carry(ks[n])])
<1> DEFINE f == [n \in Pool!Names |-> Carry(ks[n])]
<1>1. f \in [Pool!Names -> Int]
  BY DEF Owned, Carry
<1>2. ASSUME NEW S, S = {n \in Pool!Names : Pool!InPosition(ks[n])}
      PROVE  SumFunction(f) = SumFunction([n \in S |-> Carry(ks[n])])
  <2>1. \A n \in Pool!Names \ S : f[n] = 0
    BY <1>2 DEF Owned, Carry, Pool!InPosition
  <2>2. [n \in S |-> f[n]] = [n \in S |-> Carry(ks[n])]
    BY <1>2
  <2>3. S \in SUBSET Pool!Names
    BY <1>2
  <2> HIDE DEF f
  <2>4. SumFunction(f) = SumFunction([n \in S |-> f[n]])
    BY <1>1, <2>1, <2>3, PoolNames, SumOnPart
  <2>5. QED BY <2>2, <2>4
<1> HIDE DEF f
<1>3. SumFunction(f) \in Int
  BY <1>1, PoolNames, SumIsInt
<1>4. QED BY <1>1, <1>2, <1>3 DEF Carried, f

\* What the sales of a bar free.
LEMMA ExitsSettle ==
  ASSUME PoolPlan, NEW b, PoolBalance(b), NEW bar, Quoted(bar)
  PROVE  PoolBalance(Pool!ExitPhase(b, bar))
<1> DEFINE S == Pool!Held(b)
           left == [n \in Pool!Names |-> Pool!Left(b, bar, n)]
           p == [n \in S |-> left[n].cash]
           q == [n \in S |-> left[n].booked]
           after == [n \in Pool!Names |-> IF n \in S THEN left[n].kernel ELSE b.kernels[n]]
           old == [n \in Pool!Names |-> Carry(b.kernels[n])]
           new == [n \in Pool!Names |-> Carry(after[n])]
           all == [n \in Pool!Names |-> IF n \in S THEN left[n].cash ELSE 0]
           made == [n \in Pool!Names |-> IF n \in S THEN left[n].booked ELSE 0]
           cash == b.cash + SumFunction(p)
           booked == b.booked + SumFunction(q)
           c == Pool!ExitPhase(b, bar)
<1>1. IsFiniteSet(Pool!Names) /\ S \in SUBSET Pool!Names
  BY PoolNames DEF Pool!Held
<1>2. c = [b EXCEPT !.kernels = after, !.cash = cash, !.booked = booked]
  <2>1. after = [n \in Pool!Names |-> IF n \in S THEN Pool!Left(b, bar, n).kernel ELSE b.kernels[n]]
    OBVIOUS
  <2>2. p = [n \in S |-> Pool!Left(b, bar, n).cash] /\ q = [n \in S |-> Pool!Left(b, bar, n).booked]
    BY <1>1
  <2> HIDE DEF after, p, q
  <2>3. QED BY <2>1, <2>2, PoolSum DEF Pool!ExitPhase, Pool!Over
<1>3. ASSUME NEW n \in S
      PROVE  Settles(left[n], Carry(b.kernels[n])) /\ Carry(b.kernels[n]) \in Int
  <2> DEFINE k == b.kernels[n]
             own == bar[n]
             leave == Pool!CleanedAt(b, bar, n).leave
             now == b.bar
             lent == 0
  <2>1. Kernel(k) /\ Owned(k) /\ n \in Pool!Names
    BY <1>1 DEF PoolBalance, PoolBook
  <2>2. left[n] = Pool!KernelStep(k, lent, own, FALSE, leave, now)
    BY <2>1 DEF Pool!Left
  <2>3. own.open \in Int /\ own.low \in Int /\ own.close \in Nat \ {0}
    BY <2>1 DEF Quoted
  <2>4. lent \in Int /\ Carry(k) \in Int /\ lent + Carry(k) = Carry(k)
    BY <2>1 DEF Carry, Owned
  <2> HIDE DEF left, k, own, leave, now, lent
  <2>5. Settles(Pool!KernelStep(k, lent, own, FALSE, leave, now), lent + Carry(k))
    BY <2>1, <2>3, <2>4, LeavingSettles
  <2>6. QED BY <2>2, <2>4, <2>5 DEF k
<1> HIDE DEF left
<1>4. \A n \in Pool!Names : Owned(after[n])
  BY <1>3 DEF Settles, PoolBalance
<1>5. old \in [Pool!Names -> Int] /\ new \in [Pool!Names -> Int]
  <2> HIDE DEF after
  <2>1. QED BY <1>4, CarriedIsInt DEF PoolBalance
<1>6. all \in [Pool!Names -> Int] /\ made \in [Pool!Names -> Int]
  BY <1>3 DEF Settles
<1>7. SumFunction(all) = SumFunction(p) /\ SumFunction(made) = SumFunction(q)
      /\ SumFunction(p) \in Int /\ SumFunction(q) \in Int
  <2>1. \A n \in Pool!Names \ S : all[n] = 0 /\ made[n] = 0
    OBVIOUS
  <2>2. [n \in S |-> all[n]] = p /\ [n \in S |-> made[n]] = q
    BY <1>1
  <2> HIDE DEF all, made, p, q
  <2>3. SumFunction(all) = SumFunction([n \in S |-> all[n]]) /\ SumFunction(made) = SumFunction([n \in S |-> made[n]])
    BY <1>1, <1>6, <2>1, SumOnPart
  <2>4. QED BY <1>1, <1>6, <2>2, <2>3, SumIsInt
<1>8. ASSUME NEW n \in Pool!Names PROVE all[n] + new[n] = made[n] + old[n]
  <2>1. CASE n \in S
    <3>1. left[n].cash + Carry(left[n].kernel) = Carry(b.kernels[n]) + left[n].booked
          /\ left[n].cash \in Int /\ left[n].booked \in Int /\ Carry(b.kernels[n]) \in Int
      BY <1>3, <2>1 DEF Settles
    <3>2. all[n] = left[n].cash /\ made[n] = left[n].booked /\ new[n] = Carry(left[n].kernel) /\ old[n] = Carry(b.kernels[n])
      BY <2>1
    <3> HIDE DEF all, made, new, old
    <3>3. QED BY <3>1, <3>2
  <2>2. CASE n \notin S
    BY <2>2
  <2>3. QED BY <2>1, <2>2
<1>9. SumFunction(all) + SumFunction(new) = SumFunction(made) + SumFunction(old)
  <2> DEFINE x == [n \in Pool!Names |-> all[n] + new[n]]
             y == [n \in Pool!Names |-> made[n] + old[n]]
  <2> HIDE DEF all, new, made, old
  <2>1. x = y
    BY <1>8
  <2>2. SumFunction(x) = SumFunction(all) + SumFunction(new) /\ SumFunction(y) = SumFunction(made) + SumFunction(old)
    BY <1>1, <1>5, <1>6, SumAdds
  <2>3. QED BY <2>1, <2>2
<1>10. Carried(after) = SumFunction(new) /\ Carried(b.kernels) = SumFunction(old)
       /\ Carried(after) \in Int /\ Carried(b.kernels) \in Int
  <2>1. Carried(after) = SumFunction(new) /\ Carried(b.kernels) = SumFunction(old)
    BY DEF Carried
  <2> HIDE DEF after, new, old
  <2>2. QED BY <1>1, <1>5, <2>1, SumIsInt
<1> HIDE DEF all, new, made, old, after, p, q
<1>11. cash \in Int /\ booked \in Int /\ cash = plan.cash + booked - Carried(after)
  BY <1>7, <1>9, <1>10 DEF PoolBalance, PoolPlan
<1>12. PoolBook(c)
  BY PoolExitsKeep DEF PoolBalance
<1> HIDE DEF c, cash, booked
<1>13. c.cash = cash /\ c.booked = booked /\ c.kernels = after
  BY <1>2 DEF PoolBalance, PoolBook, Record, PoolFields
<1>14. PoolBalance(c)
  BY <1>4, <1>11, <1>12, <1>13 DEF PoolBalance
<1>15. QED BY <1>14 DEF c

\* A turn lends, and takes back what is left.
LEMMA TurnSettles ==
  ASSUME PoolPlan, NEW acc, PoolBalance(acc.b), acc.open \in Int, NEW bar, Quoted(bar), NEW n \in Pool!Names
  PROVE  PoolBalance(Pool!Turn(acc, bar, n).b) /\ Pool!Turn(acc, bar, n).open \in Int
<1> DEFINE lent == Pool!Lent(acc)
           k == acc.b.kernels[n]
           own == bar[n]
           now == acc.b.bar
           s == Pool!Lends(acc, bar, n)
           cash == acc.b.cash - (lent - s.cash)
           ks == [acc.b.kernels EXCEPT ![n] = s.kernel]
           d == [acc.b EXCEPT !.kernels[n] = s.kernel, !.cash = cash]
           e == [acc EXCEPT !.b.rejected = @ + 1]
           f == [b |-> d, open |-> acc.open + (IF s.entered THEN 1 ELSE 0)]
           t == Pool!Turn(acc, bar, n)
<1>0. lent \in Int
  <2>1. plan.names \in Int /\ plan.maxPositions \in Int /\ acc.b.cash \in Int
    BY DEF PoolPlan, PoolBalance
  <2>2. Pool!Ceiling \in Int
    BY <2>1 DEF Pool!Ceiling
  <2> DEFINE places == Pool!Ceiling - acc.open
  <2>3. places \in Int /\ (Pool!Ceiling > acc.open => places > 0)
    BY <2>2
  <2>4. lent \in {acc.b.cash, 0} \/ (Pool!Ceiling > acc.open /\ lent = acc.b.cash \div places)
    BY <2>2 DEF Pool!Lent, Pool!Budget, PoolPlan
  <2> HIDE DEF places, lent
  <2>5. QED BY <2>1, <2>3, <2>4
<1>1. \/ (t.b = acc.b \/ t.b = [acc.b EXCEPT !.rejected = @ + 1]) /\ t.open = acc.open
      \/ ~Pool!InPosition(k) /\ lent > 0 /\ t = f
  <2>1. CASE ~Pool!Calls(acc, bar, n)
    BY <2>1 DEF Pool!Turn
  <2>2. CASE Pool!Calls(acc, bar, n) /\ ~Pool!Admitted(acc.b, acc.open)
    <3>1. t = e
      BY <2>2 DEF Pool!Turn
    <3> HIDE DEF t
    <3>2. QED BY <3>1
  <2>3. CASE Pool!Calls(acc, bar, n) /\ Pool!Admitted(acc.b, acc.open)
    <3>1. t = IF lent <= 0 THEN acc ELSE f
      BY <2>3 DEF Pool!Turn
    <3>3. ~Pool!InPosition(k)
      BY <2>3 DEF Pool!Calls
    <3> HIDE DEF t, f, lent, k
    <3>4. QED BY <1>0, <3>1, <3>3
  <2>4. QED BY <2>1, <2>2, <2>3
<1>2. CASE (t.b = acc.b \/ t.b = [acc.b EXCEPT !.rejected = @ + 1]) /\ t.open = acc.open
  <2>1. PoolBalance([acc.b EXCEPT !.rejected = @ + 1])
    <3> DEFINE c == [acc.b EXCEPT !.rejected = @ + 1]
    <3>1. PoolBook(c) /\ c.cash = acc.b.cash /\ c.booked = acc.b.booked /\ c.kernels = acc.b.kernels
      BY DEF PoolBalance, PoolBook, Record, PoolFields
    <3> HIDE DEF c
    <3>2. PoolBalance(c)
      BY <3>1 DEF PoolBalance
    <3>3. QED BY <3>2 DEF c
  <2> HIDE DEF t
  <2>2. QED BY <1>2, <2>1 DEF t
<1>3. CASE ~Pool!InPosition(k) /\ lent > 0 /\ t = f
  <2>1. lent \in Nat /\ Kernel(k) /\ Owned(k) /\ own.close \in Nat \ {0}
    <3>1. Kernel(k) /\ Owned(k) /\ own.close \in Nat \ {0}
      BY DEF PoolBalance, PoolBook, Quoted
    <3>2. QED BY <1>0, <1>3, <3>1
  <2>2. s = Pool!KernelStep(k, lent, own, TRUE, FALSE, now)
    BY DEF Pool!Lends
  <2>3. Settles(s, lent + Carry(k)) /\ s.booked = 0
    <3> HIDE DEF s, k, lent, own, now
    <3>1. QED BY <1>3, <2>1, <2>2, EnteringSettles
  <2> DEFINE l == s.kernel
  <2>4. /\ Owned(l) /\ s.cash \in Int /\ Carry(k) \in Int /\ Carry(l) \in Int
        /\ s.cash + Carry(l) = lent + Carry(k)
    <3>1. Carry(k) \in Int
      BY <2>1 DEF Owned, Carry
    <3>2. Carry(l) \in Int /\ Owned(l)
      BY <2>3 DEF Settles, Owned, Carry
    <3> HIDE DEF s, k, lent
    <3>3. QED BY <2>1, <2>3, <3>1, <3>2 DEF Settles
  <2> DEFINE g == [m \in Pool!Names |-> Carry(acc.b.kernels[m])]
             h == [m \in Pool!Names |-> Carry(ks[m])]
  <2>5. ks = [m \in Pool!Names |-> IF m = n THEN l ELSE acc.b.kernels[m]]
    <3> HIDE DEF s
    <3>1. QED BY DEF PoolBalance, PoolBook
  <2>6. \A m \in Pool!Names : Owned(ks[m])
    <3> HIDE DEF s, ks
    <3>1. QED BY <2>4, <2>5 DEF PoolBalance
  <2> HIDE DEF s, l, ks
  <2>7. Carried(ks) = Carried(acc.b.kernels) + (Carry(l) - Carry(k)) /\ Carried(acc.b.kernels) \in Int
    <3>1. g \in [Pool!Names -> Int] /\ h \in [Pool!Names -> Int] /\ Carried(acc.b.kernels) \in Int
      BY <2>6, CarriedIsInt DEF PoolBalance
    <3>2. \A m \in Pool!Names \ {n} : h[m] = g[m]
      BY <2>5
    <3>3. h[n] = Carry(l) /\ g[n] = Carry(k)
      BY <2>5
    <3>4. Carried(ks) = SumFunction(h) /\ Carried(acc.b.kernels) = SumFunction(g)
      BY DEF Carried
    <3> HIDE DEF g, h, k
    <3>5. SumFunction(h) = SumFunction(g) + (h[n] - g[n])
      BY <3>1, <3>2, PoolNames, SumChanges
    <3>6. QED BY <3>1, <3>3, <3>4, <3>5
  <2> HIDE DEF k, lent, own, now
  <2>8. cash \in Int /\ cash = plan.cash + acc.b.booked - Carried(ks)
    BY <2>1, <2>4, <2>7 DEF PoolBalance, PoolPlan
  <2> HIDE DEF cash
  <2>9. d = [acc.b EXCEPT !.kernels = ks, !.cash = cash]
    BY DEF PoolBalance, PoolBook, Record, PoolFields, ks, l
  <2>10. Kernel(l)
    <3>1. Kernel(s.kernel)
      BY <2>1, <2>2, PoolStepEnters
    <3>2. QED BY <3>1 DEF l
  <2> HIDE DEF d
  <2>11. Record(d, PoolFields) /\ d.cash = cash /\ d.booked = acc.b.booked /\ d.kernels = ks
    BY <2>9 DEF PoolBalance, PoolBook, Record, PoolFields
  <2>12. PoolBook(d)
    <3>1. ks = [m \in Pool!Names |-> ks[m]] /\ \A m \in Pool!Names : Kernel(ks[m])
      BY <2>5, <2>10 DEF PoolBalance, PoolBook
    <3>2. QED BY <2>11, <3>1 DEF PoolBook
  <2>13. PoolBalance(d)
    BY <2>6, <2>8, <2>11, <2>12 DEF PoolBalance
  <2>14. f.b = d /\ f.open \in Int
    OBVIOUS
  <2> HIDE DEF f, t
  <2>15. QED BY <1>3, <2>13, <2>14 DEF t
<1>4. QED BY <1>1, <1>2, <1>3

LEMMA EntriesSettle ==
  ASSUME PoolPlan, NEW b, PoolBalance(b), NEW bar, Quoted(bar)
  PROVE  PoolBalance(Pool!EntryPhase(b, bar))
<1>0. plan.names \in Nat
  BY DEF PoolPlan
<1>1. PICK g : Takes(g, b, bar) /\ Pool!EntryPhase(b, bar) = g[plan.names].b
  BY <1>0, EntryPhaseTakes
<1> DEFINE S == {n \in 0..plan.names : PoolBalance(g[n].b) /\ g[n].open \in Int}
<1>2. 0 \in S
  <2>1. g[0] = Begins(b)
    BY <1>0, <1>1 DEF Takes, After
  <2>2. Pool!Cardinality(Pool!Held(b)) \in Int
    <3>1. IsFiniteSet(Pool!Held(b))
      BY PoolNames, FS_Subset DEF Pool!Held
    <3>2. Cardinality(Pool!Held(b)) \in Nat
      BY <3>1, FS_CardinalityType
    <3>3. QED BY <3>2 DEF Pool!Cardinality, Cardinality
  <2>3. QED BY <1>0, <2>1, <2>2 DEF Begins
<1>3. ASSUME NEW n \in 1..plan.names, n - 1 \in S PROVE n \in S
  <2>1. g[n] = Pool!Turn(g[n - 1], bar, n)
    BY <1>0, <1>1 DEF Takes, After
  <2> DEFINE acc == g[n - 1]
  <2>2. PoolBalance(acc.b) /\ acc.open \in Int /\ n \in Pool!Names
    BY <1>3 DEF Pool!Names
  <2>3. g[n] = Pool!Turn(acc, bar, n)
    BY <2>1
  <2> HIDE DEF acc
  <2>4. PoolBalance(g[n].b) /\ g[n].open \in Int
    BY <2>2, <2>3, TurnSettles
  <2>5. QED BY <2>4
<1> HIDE DEF S
<1>4. \A n \in 0..plan.names : n \in S
  BY <1>0, <1>2, <1>3, UpTo
<1>5. plan.names \in S
  BY <1>0, <1>4
<1>6. QED BY <1>1, <1>5 DEF S

PoolHeld ==
  /\ plan \in PoolPlans
  /\ ~plan.nextOpen => PoolPlan /\ PoolBalance(book) /\ \A n \in Pool!Names : book.last[n] \in Int

LEMMA PoolStays ==
  ASSUME plan' = plan, plan \in PoolPlans,
         ~plan.nextOpen => PoolPlan /\ PoolBalance(book') /\ \A n \in Pool!Names : book'.last[n] \in Int
  PROVE  PoolHeld'
<1>1. PoolPlan => PoolPlan'
  BY DEF PoolPlan
<1>2. PoolBalance(book') => PoolBalance(book)'
  BY DEF PoolBalance, PoolBook, Carried, Pool!Names
<1>3. (\A n \in Pool!Names : book'.last[n] \in Int) => (\A n \in Pool!Names : book.last[n] \in Int)'
  BY DEF Pool!Names
<1>4. QED BY <1>1, <1>2, <1>3 DEF PoolHeld

LEMMA IdleCarries ==
  ASSUME PoolPlan, NEW ks, ks = [n \in Pool!Names |-> Pool!Idle]
  PROVE  /\ \A n \in Pool!Names : Owned(ks[n]) /\ Kernel(ks[n])
         /\ Carried(ks) = 0
<1>1. \A n \in Pool!Names : Owned(ks[n]) /\ ~Pool!InPosition(ks[n]) /\ Kernel(ks[n])
  BY DEF Owned, Pool!InPosition, Pool!Idle, Kernel, Record, KernelFields
<1> DEFINE S == {n \in Pool!Names : Pool!InPosition(ks[n])}
<1>2. S = {}
  BY <1>1
<1>3. Carried(ks) = SumFunction([n \in {} |-> Carry(ks[n])])
  <2>1. Carried(ks) = SumFunction([n \in S |-> Carry(ks[n])])
    BY <1>1, CarriedIsInt
  <2>2. QED BY <1>2, <2>1
<1>4. [n \in {} |-> Carry(ks[n])] \in [{} -> Int]
  OBVIOUS
<1>5. QED BY <1>1, <1>3, <1>4, SumOfNone

LEMMA PoolStarts ==
  ASSUME Pool!Init
  PROVE  PoolHeld
<1>1. plan \in PoolPlans
  BY DEF Pool!Init
<1> SUFFICES ASSUME ~plan.nextOpen
             PROVE  PoolPlan /\ PoolBalance(book) /\ \A n \in Pool!Names : book.last[n] \in Int
  BY <1>1 DEF PoolHeld
<1>2. PoolPlan
  BY <1>1, PoolAssumption DEF PoolPlan
<1>3. /\ Record(book, PoolFields) /\ book.kernels = [n \in Pool!Names |-> Pool!Idle] /\ book.cash = plan.cash
      /\ book.booked = 0 /\ book.last = [n \in Pool!Names |-> 0]
  BY DEF Pool!Init, Record, PoolFields
<1>4. /\ \A n \in Pool!Names : Owned(book.kernels[n]) /\ Kernel(book.kernels[n])
      /\ Carried(book.kernels) = 0
  BY <1>2, <1>3, IdleCarries
<1>5. book.kernels = [n \in Pool!Names |-> book.kernels[n]]
  BY <1>3
<1>6. QED BY <1>2, <1>3, <1>4, <1>5 DEF PoolBalance, PoolBook, PoolPlan

LEMMA PoolBar ==
  ASSUME PoolHeld, NEW bar \in PoolBars, Pool!Bar(bar)
  PROVE  PoolHeld'
<1>0. plan' = plan /\ plan \in PoolPlans
  BY DEF Pool!Bar, PoolHeld
<1> SUFFICES ASSUME ~plan.nextOpen
             PROVE  PoolPlan /\ PoolBalance(book') /\ \A n \in Pool!Names : book'.last[n] \in Int
  BY <1>0, PoolStays
<1> DEFINE a == [book EXCEPT !.bar = @ + 1]
           x == Pool!ExitPhase(a, bar)
           y == Pool!EntryPhase(x, bar)
           z == Pool!Marked(y, bar)
           counts == [n \in Pool!Names |-> Pool!CountAfter(book.counts[n], 1, Pool!CleanedAt(book, bar, n))]
           last == [n \in Pool!Names |-> bar[n].close]
<1>1. book' = [z EXCEPT !.counts = counts, !.last = last]
  BY DEF Pool!Bar, Pool!OnBar
<1>2. PoolPlan /\ PoolBalance(book)
  BY DEF PoolHeld
<1>3. Quoted(bar)
  BY <1>0, PoolAssumption DEF Quoted, Pool!Names
<1>4. PoolBalance(a)
  <2>1. PoolBook(a) /\ a.cash = book.cash /\ a.booked = book.booked /\ a.kernels = book.kernels
    BY <1>2 DEF PoolBalance, PoolBook, Record, PoolFields
  <2> HIDE DEF a
  <2>2. QED BY <1>2, <2>1 DEF PoolBalance
<1> HIDE DEF a
<1>5. PoolBalance(x)
  BY <1>2, <1>3, <1>4, ExitsSettle
<1> HIDE DEF x
<1>6. PoolBalance(y)
  BY <1>2, <1>3, <1>5, EntriesSettle
<1> HIDE DEF y
<1>7. PoolBook(z) /\ z.cash = y.cash /\ z.booked = y.booked /\ z.kernels = y.kernels
  <2> DEFINE equity == y.cash + Pool!Over(Pool!Names, LAMBDA n : y.kernels[n].size * bar[n].close)
             peak == Pool!GreaterOf(y.peak, equity)
             halted == y.halted \/ (plan.maxDrawdown > 0 /\ (peak - equity) * 100 >= plan.maxDrawdown * peak)
  <2>1. z = [y EXCEPT !.curve = equity, !.peak = peak, !.halted = halted]
    BY DEF Pool!Marked
  <2> HIDE DEF z, equity, peak, halted
  <2>2. QED BY <1>6, <2>1 DEF PoolBalance, PoolBook, Record, PoolFields
<1>8. \A n \in Pool!Names : last[n] \in Int
  BY <1>3 DEF Quoted
<1> HIDE DEF z, counts, last
<1>9. PoolBook(book') /\ book'.cash = y.cash /\ book'.booked = y.booked /\ book'.kernels = y.kernels /\ book'.last = last
  BY <1>1, <1>7 DEF PoolBook, Record, PoolFields
<1>10. PoolBalance(book')
  BY <1>6, <1>9 DEF PoolBalance
<1>11. QED BY <1>2, <1>8, <1>9, <1>10

LEMMA PoolFinish ==
  ASSUME PoolHeld, Pool!Finish
  PROVE  PoolHeld'
<1>0. plan' = plan /\ plan \in PoolPlans
  BY DEF Pool!Finish, PoolHeld
<1> SUFFICES ASSUME ~plan.nextOpen
             PROVE  PoolPlan /\ PoolBalance(book') /\ \A n \in Pool!Names : book'.last[n] \in Int
  BY <1>0, PoolStays
<1> DEFINE S == Pool!Held(book)
           ks == book.kernels
           last == book.last
           paid == [n \in S |-> ks[n].size * last[n]]
           gain == [n \in S |-> (last[n] - ks[n].price) * ks[n].size - ks[n].fees]
           cost == [n \in S |-> Carry(ks[n])]
           cash == book.cash + SumFunction(paid)
           booked == book.booked + SumFunction(gain)
           idle == [n \in Pool!Names |-> Pool!Idle]
<1>1. book' = [book EXCEPT !.cash = cash, !.curve = cash, !.ended = TRUE, !.booked = booked, !.kernels = idle]
  BY PoolSum DEF Pool!Finish, Pool!Over
<1>2. PoolPlan /\ PoolBalance(book) /\ \A n \in Pool!Names : last[n] \in Int
  BY DEF PoolHeld
<1>3. S = {n \in Pool!Names : Pool!InPosition(ks[n])} /\ IsFiniteSet(S)
  BY <1>2, PoolNames, FS_Subset DEF Pool!Held
<1>4. ASSUME NEW n \in S
      PROVE  paid[n] \in Int /\ gain[n] \in Int /\ cost[n] \in Int /\ paid[n] = gain[n] + cost[n]
  <2> DEFINE size == ks[n].size
             price == ks[n].price
             fees == ks[n].fees
             now == last[n]
  <2>1. size \in Int /\ price \in Int /\ fees \in Int /\ now \in Int
    BY <1>2, <1>3 DEF PoolBalance, Owned
  <2>2. paid[n] = size * now /\ gain[n] = (now - price) * size - fees /\ cost[n] = size * price + fees
    BY DEF Carry
  <2> HIDE DEF size, price, fees, now, paid, gain, cost
  <2>3. (now - price) * size = size * now - size * price
    BY <2>1
  <2>4. QED BY <2>1, <2>2, <2>3
<1>5. paid \in [S -> Int] /\ gain \in [S -> Int] /\ cost \in [S -> Int]
  <2>1. paid = [n \in S |-> paid[n]] /\ gain = [n \in S |-> gain[n]] /\ cost = [n \in S |-> cost[n]]
    OBVIOUS
  <2> HIDE DEF paid, gain, cost, S
  <2>2. QED BY <1>4, <2>1
<1>6. Carried(ks) = SumFunction(cost)
  BY <1>2, <1>3, CarriedIsInt DEF PoolBalance
<1> HIDE DEF paid, gain, cost
<1>7. SumFunction(paid) = SumFunction(gain) + SumFunction(cost)
      /\ SumFunction(paid) \in Int /\ SumFunction(gain) \in Int /\ SumFunction(cost) \in Int
  BY <1>3, <1>4, <1>5, SumOfBoth, SumIsInt
<1>8. /\ \A n \in Pool!Names : Owned(idle[n]) /\ Kernel(idle[n])
      /\ Carried(idle) = 0 /\ idle = [n \in Pool!Names |-> idle[n]]
  BY <1>2, IdleCarries
<1> HIDE DEF idle
<1>9. cash \in Int /\ booked \in Int /\ cash = plan.cash + booked - Carried(idle)
  BY <1>2, <1>6, <1>7, <1>8 DEF PoolBalance, PoolPlan
<1> HIDE DEF cash, booked
<1>10. Record(book', PoolFields) /\ book'.cash = cash /\ book'.booked = booked /\ book'.kernels = idle /\ book'.last = last
  BY <1>1, <1>2 DEF PoolBalance, PoolBook, Record, PoolFields
<1>11. PoolBalance(book')
  BY <1>8, <1>9, <1>10 DEF PoolBalance, PoolBook
<1>12. QED BY <1>2, <1>10, <1>11

LEMMA PoolBalances ==
  ASSUME PoolHeld
  PROVE  Pool!BooksBalance
<1> SUFFICES ASSUME ~plan.nextOpen
             PROVE  book.cash = plan.cash + book.booked
                      - Pool!Over(Pool!Held(book), LAMBDA n : book.kernels[n].size * book.kernels[n].price + book.kernels[n].fees)
  BY DEF Pool!BooksBalance
<1>1. PoolPlan /\ PoolBalance(book)
  BY DEF PoolHeld
<1>2. Carried(book.kernels) = SumFunction([n \in Pool!Held(book) |-> Carry(book.kernels[n])])
  BY <1>1, CarriedIsInt DEF PoolBalance, Pool!Held
<1>3. QED BY <1>1, <1>2, PoolSum DEF PoolBalance, Pool!Over, Carry

-----------------------------------------------------------------------------
(* Rebalancing. *)

BothAssets == 1..2

RebalancePlan == plan.schedule \in Rates /\ plan.cash \in Int /\ plan.minTrade \in Int /\ plan.dp \in Int

RebalanceFields ==
  {"units", "cash", "prices", "equity", "gains", "dp", "regulatory", "brokerage", "turnover", "costs", "trades",
   "rebalances", "date"}

Marks(units, prices) == SumFunction([a \in BothAssets |-> units[a] * prices[a]])

LEMMA RebalanceSum ==
  ASSUME NEW f
  PROVE  Rebalance!SumFunction(f) = SumFunction(f)
BY DEF Rebalance!SumFunction, Rebalance!SumFunctionOnSet, Rebalance!FoldFunctionOnSet, Rebalance!MapThenFoldSet,
       SumFunction, SumFunctionOnSet, FoldFunctionOnSet, MapThenFoldSet

LEMMA TwoAssets == IsFiniteSet(BothAssets)
<1>1. \A n \in Nat : IsFiniteSet(1..n)
  BY FS_Interval
<1>2. QED BY <1>1 DEF BothAssets

LEMMA MarksAreInt ==
  ASSUME NEW units \in [BothAssets -> Int], NEW prices, \A a \in BothAssets : prices[a] \in Int
  PROVE  Marks(units, prices) \in Int
<1> DEFINE f == [a \in BothAssets |-> units[a] * prices[a]]
<1>1. f \in [BothAssets -> Int]
  OBVIOUS
<1> HIDE DEF f
<1>2. SumFunction(f) \in Int
  BY <1>1, TwoAssets, SumIsInt
<1>3. QED BY <1>2 DEF f, Marks

\* The units change by the trades, and the mark by what the trades are worth.
LEMMA TradesMark ==
  ASSUME NEW units \in [BothAssets -> Int], NEW trades \in [BothAssets -> Int], NEW prices, \A a \in BothAssets : prices[a] \in Int,
         NEW after, after = [a \in BothAssets |-> units[a] + trades[a]]
  PROVE  after \in [BothAssets -> Int] /\ Marks(after, prices) = Marks(units, prices) + Marks(trades, prices)
<1> DEFINE f == [a \in BothAssets |-> after[a] * prices[a]]
           g == [a \in BothAssets |-> units[a] * prices[a]]
           h == [a \in BothAssets |-> trades[a] * prices[a]]
<1>1. after \in [BothAssets -> Int]
  OBVIOUS
<1>2. f \in [BothAssets -> Int] /\ g \in [BothAssets -> Int] /\ h \in [BothAssets -> Int]
  BY <1>1
<1>3. ASSUME NEW a \in BothAssets PROVE f[a] = g[a] + h[a]
  <2> DEFINE u == units[a]
             t == trades[a]
             p == prices[a]
  <2>1. u \in Int /\ t \in Int /\ p \in Int /\ f[a] = (u + t) * p /\ g[a] = u * p /\ h[a] = t * p
    OBVIOUS
  <2> HIDE DEF u, t, p, f, g, h
  <2>2. QED BY <2>1
<1> HIDE DEF f, g, h
<1>4. SumFunction(f) = SumFunction(g) + SumFunction(h)
  BY <1>2, <1>3, TwoAssets, SumOfBoth
<1>5. QED BY <1>1, <1>4 DEF Marks, f, g, h

LEMMA PricesMark ==
  ASSUME NEW units \in [BothAssets -> Int], NEW old, NEW new, \A a \in BothAssets : old[a] \in Int /\ new[a] \in Int
  PROVE  LET gain == SumFunction([a \in BothAssets |-> units[a] * (new[a] - old[a])]) IN
         gain \in Int /\ Marks(units, new) = Marks(units, old) + gain
<1> DEFINE f == [a \in BothAssets |-> units[a] * new[a]]
           g == [a \in BothAssets |-> units[a] * old[a]]
           h == [a \in BothAssets |-> units[a] * (new[a] - old[a])]
<1>2. f \in [BothAssets -> Int] /\ g \in [BothAssets -> Int] /\ h \in [BothAssets -> Int]
  OBVIOUS
<1>3. ASSUME NEW a \in BothAssets PROVE f[a] = g[a] + h[a]
  <2> DEFINE u == units[a]
             o == old[a]
             n == new[a]
  <2>1. u \in Int /\ o \in Int /\ n \in Int /\ f[a] = u * n /\ g[a] = u * o /\ h[a] = u * (n - o)
    OBVIOUS
  <2> HIDE DEF u, o, n, f, g, h
  <2>2. QED BY <2>1
<1> HIDE DEF f, g, h
<1>4. SumFunction(f) = SumFunction(g) + SumFunction(h) /\ SumFunction(h) \in Int
  BY <1>2, <1>3, TwoAssets, SumOfBoth, SumIsInt
<1>5. QED BY <1>4 DEF Marks, f, g, h

\* The book between two dates.
RebalanceBook(b) ==
  /\ Record(b, RebalanceFields) /\ b.units \in [BothAssets -> Int]
  /\ b.cash \in Int /\ b.gains \in Int /\ b.costs \in Int

RebalanceHeld ==
  /\ RebalancePlan /\ RebalanceBook(book) /\ book.equity \in Int
  /\ \A a \in BothAssets : book.prices[a] \in Int
  /\ book.equity = book.cash + Marks(book.units, book.prices)
  /\ book.equity = plan.cash + book.gains - book.costs

LEMMA RebalanceStarts ==
  ASSUME Rebalance!Init
  PROVE  RebalanceHeld
<1>1. RebalancePlan
  BY RebalanceAssumption DEF Rebalance!Init, RebalancePlan
<1>2. /\ Record(book, RebalanceFields) /\ book.units = <<0, 0>> /\ book.cash = plan.cash /\ book.gains = 0
      /\ book.costs = 0 /\ book.prices = <<0, 0>> /\ book.equity = plan.cash
  BY DEF Rebalance!Init, Record, RebalanceFields
<1>3. <<0, 0>> \in [BothAssets -> Int] /\ \A a \in BothAssets : <<0, 0>>[a] = 0
  BY DEF BothAssets
<1>4. Marks(book.units, book.prices) = 0
  <2> DEFINE f == [a \in BothAssets |-> book.units[a] * book.prices[a]]
  <2>1. f \in [BothAssets -> Int] /\ \A a \in BothAssets : f[a] = 0
    BY <1>2, <1>3
  <2> HIDE DEF f
  <2>2. SumFunction(f) = SumFunction([x \in {} |-> f[x]])
    <3>1. \A S \in SUBSET BothAssets : (\A x \in BothAssets \ S : f[x] = 0) => SumFunction(f) = SumFunction([x \in S |-> f[x]])
      BY <2>1, TwoAssets, SumOnPart
    <3>2. QED BY <2>1, <3>1
  <2>3. [x \in {} |-> f[x]] \in [{} -> Int]
    OBVIOUS
  <2>4. QED BY <2>2, <2>3, SumOfNone DEF Marks, f
<1>5. QED BY <1>1, <1>2, <1>3, <1>4 DEF RebalanceHeld, RebalanceBook, RebalancePlan

RebalanceDate(date) == \A a \in BothAssets : date.prices[a] \in Nat \ {0} /\ date.targets[a] \in Int

LEMMA RebalanceCharges ==
  ASSUME RebalancePlan, NEW value \in Int
  PROVE  Rebalance!Leg(value).brokerage \in Int /\ Rebalance!Leg(value).regulatory \in Int
<1> DEFINE size == Rebalance!Size(value)
           Rated(buys) == Rebalance!Charges(plan.schedule, size, "Long", buys)
           c == Rated(value > 0)
<1>1. size \in Int
  BY DEF Rebalance!Size
<1> HIDE DEF size
<1>2. \A e : Rated(e) = Charges(plan.schedule, size, "Long", e) /\ Rebalance!Total(Rated(e)) = Total(Rated(e))
  BY DEF Rebalance!Portion, Portion, Rebalance!Total, Total, Rebalance!Charges, Charges, Rebalance!Buys, Buys,
         Rebalance!Brokerage, Brokerage, Rebalance!LesserOf, LesserOf
<1>3. \A e, d : Charges(plan.schedule, size, d, e).brokerage \in Int /\ Total(Charges(plan.schedule, size, d, e)) \in Int
  BY <1>1, ChargesAreInt DEF RebalancePlan
<1> HIDE DEF Rated
<1>4. c.brokerage \in Int /\ Rebalance!Total(c) \in Int
  BY <1>2, <1>3
<1>5. Rebalance!Leg(value) = [traded |-> Rebalance!Size(value), brokerage |-> c.brokerage,
                              regulatory |-> Rebalance!Total(c) - c.brokerage, sold |-> value < 0]
  BY DEF Rebalance!Leg, Rated, size
<1> HIDE DEF c
<1>6. QED BY <1>4, <1>5

LEMMA RebalanceSettles ==
  ASSUME RebalancePlan, RebalanceBook(book), NEW b, RebalanceBook(b), NEW date, RebalanceDate(date),
         NEW trades \in [BothAssets -> Int]
  PROVE  LET c == Rebalance!Rebalanced(b, date, trades) IN
         /\ RebalanceBook(c) /\ c.gains = b.gains
         /\ c.cash + c.costs + Marks(trades, date.prices) = b.cash + b.costs
         /\ Marks(c.units, date.prices) = Marks(b.units, date.prices) + Marks(trades, date.prices)
<1> DEFINE legs == [a \in BothAssets |-> Rebalance!Leg(trades[a] * date.prices[a])]
           traded == {a \in BothAssets : trades[a] # 0}
           sold == {a \in traded : legs[a].sold}
           dp == plan.dp * Cardinality(sold)
           regulatory == SumFunction([a \in traded |-> legs[a].regulatory])
           brokerage == SumFunction([a \in traded |-> legs[a].brokerage])
           spent == Marks(trades, date.prices)
           units == [a \in BothAssets |-> b.units[a] + trades[a]]
           cash == b.cash - spent - dp - regulatory - brokerage
           costs == b.costs + dp + regulatory + brokerage
           c == Rebalance!Rebalanced(b, date, trades)
<1>1. Rebalance!Assets = BothAssets
  BY DEF Rebalance!Assets, RebalanceBook
<1>2. IsFiniteSet(traded) /\ traded \subseteq BothAssets /\ Cardinality(sold) \in Nat
  BY TwoAssets, FS_Subset, FS_CardinalityType
<1>3. \A a \in BothAssets : legs[a].regulatory \in Int /\ legs[a].brokerage \in Int
  <2>1. \A a \in BothAssets : trades[a] * date.prices[a] \in Int
    BY DEF RebalanceDate
  <2>2. QED BY <2>1, RebalanceCharges
<1>4. dp \in Int /\ regulatory \in Int /\ brokerage \in Int
  <2> HIDE DEF legs, sold, traded
  <2>1. [a \in traded |-> legs[a].regulatory] \in [traded -> Int] /\ [a \in traded |-> legs[a].brokerage] \in [traded -> Int]
    BY <1>2, <1>3
  <2>2. regulatory \in Int /\ brokerage \in Int
    BY <1>2, <2>1, SumIsInt
  <2>3. dp \in Int
    BY <1>2 DEF RebalancePlan
  <2>4. QED BY <2>2, <2>3
<1>5. c = [b EXCEPT !.units = units, !.cash = cash,
                    !.dp = dp, !.regulatory = regulatory, !.brokerage = brokerage,
                    !.turnover = SumFunction([a \in traded |-> legs[a].traded]),
                    !.costs = costs,
                    !.trades = @ + Cardinality(traded),
                    !.rebalances = @ + (IF traded = {} THEN 0 ELSE 1)]
  <2>1. \A S : Rebalance!Cardinality(S) = Cardinality(S)
    BY DEF Rebalance!Cardinality, Cardinality
  <2>2. QED BY <1>1, <2>1, RebalanceSum, ZenonT(40) DEF Rebalance!Rebalanced, Rebalance!Settled, Rebalance!SumOver, Rebalance!SumOf, Marks
<1>6. spent \in Int
  BY MarksAreInt DEF RebalanceDate
<1>7. units \in [BothAssets -> Int] /\ Marks(units, date.prices) = Marks(b.units, date.prices) + spent
  BY TradesMark DEF RebalanceBook, RebalanceDate
<1> HIDE DEF legs, traded, sold, dp, regulatory, brokerage, spent, units
<1>8. cash \in Int /\ costs \in Int /\ cash + costs + spent = b.cash + b.costs
  BY <1>4, <1>6 DEF RebalanceBook
<1> HIDE DEF cash, costs, c
<1>9. Record(c, RebalanceFields) /\ c.units = units /\ c.cash = cash /\ c.costs = costs /\ c.gains = b.gains
  BY <1>5 DEF RebalanceBook, Record, RebalanceFields
<1>10. RebalanceBook(c)
  BY <1>7, <1>8, <1>9 DEF RebalanceBook
<1>11. QED BY <1>7, <1>8, <1>9, <1>10 DEF c, spent

LEMMA RebalanceTrades ==
  ASSUME RebalancePlan, NEW b, RebalanceBook(b), NEW date, RebalanceDate(date), NEW equity \in Int, NEW a \in BothAssets
  PROVE  Rebalance!Trade(b, date, a, Rebalance!Lacks(b, date, a, equity)) \in Int
<1> DEFINE target == (date.targets[a] * equity) \div 100
           held == b.units[a] * date.prices[a]
           lacks == target - held
           price == date.prices[a]
           up == lacks \div price
           down == -((-lacks) \div price)
<1>1. date.targets[a] * equity \in Int /\ held \in Int /\ price \in Nat \ {0}
  BY DEF RebalanceDate, RebalanceBook
<1>2. target \in Int
  BY <1>1
<1> HIDE DEF target, held
<1>3. lacks \in Int
  BY <1>1, <1>2
<1>4. Rebalance!Lacks(b, date, a, equity) = lacks
  BY DEF Rebalance!Lacks, target, held
<1> HIDE DEF lacks, price
<1>5. up \in Int /\ down \in Int
  BY <1>1, <1>3
<1>6. Rebalance!Trade(b, date, a, lacks) \in {0, up, down}
  BY DEF Rebalance!Trade, Rebalance!Whole, price
<1> HIDE DEF up, down
<1>7. QED BY <1>4, <1>5, <1>6

LEMMA RebalanceStep ==
  ASSUME RebalanceHeld, Rebalance!Next
  PROVE  RebalanceHeld'
<1> PICK date \in RebalanceDates : book' = Rebalance!OnDate(book, date)
  BY DEF Rebalance!Next
<1>1. plan' = plan /\ RebalancePlan /\ RebalanceBook(book)
  BY DEF Rebalance!Next, RebalanceHeld
<1>2. RebalanceDate(date)
  BY RebalanceAssumption DEF RebalanceDate, BothAssets
<1> DEFINE q == Rebalance!Quiet(book)
           equity == Rebalance!EquityOf(book, date.prices)
           t == Rebalance!Traded(q, date, equity)
           c == IF Rebalance!Due(book, date) THEN t ELSE q
           gain == SumFunction([a \in BothAssets |-> book.units[a] * (date.prices[a] - book.prices[a])])
           mark == Marks(c.units, date.prices)
           gains == c.gains + gain
           total == c.cash + mark
<1>3. RebalanceBook(q) /\ q.cash = book.cash /\ q.costs = book.costs /\ q.units = book.units /\ q.gains = book.gains
  BY <1>1 DEF Rebalance!Quiet, RebalanceBook, Record, RebalanceFields
<1>4. Rebalance!Assets = BothAssets
  BY <1>1 DEF Rebalance!Assets, RebalanceBook
<1>5. \A b : Rebalance!Value(b, date.prices) = Marks(b.units, date.prices)
  BY <1>4, RebalanceSum DEF Rebalance!Value, Rebalance!SumOf, Rebalance!SumOver, Marks
<1>6. equity \in Int
  <2>1. Marks(book.units, date.prices) \in Int
    BY <1>1, <1>2, MarksAreInt DEF RebalanceBook, RebalanceDate
  <2>2. QED BY <1>1, <1>5, <2>1 DEF Rebalance!EquityOf, RebalanceBook
<1> HIDE DEF q, equity
<1>7. /\ RebalanceBook(t) /\ t.gains = q.gains /\ t.cash + t.costs + Marks(t.units, date.prices)
                                                     = q.cash + q.costs + Marks(q.units, date.prices)
  <2> DEFINE trades == [a \in BothAssets |-> Rebalance!Trade(q, date, a, Rebalance!Lacks(q, date, a, equity))]
             r == Rebalance!Rebalanced(q, date, trades)
  <2>1. trades \in [BothAssets -> Int]
    BY <1>1, <1>2, <1>3, <1>6, RebalanceTrades
  <2>2. t = r
    BY <1>4 DEF Rebalance!Traded
  <2> HIDE DEF trades
  <2>3. /\ RebalanceBook(r) /\ r.gains = q.gains
        /\ r.cash + r.costs + Marks(trades, date.prices) = q.cash + q.costs
        /\ Marks(r.units, date.prices) = Marks(q.units, date.prices) + Marks(trades, date.prices)
    BY <1>1, <1>2, <1>3, <2>1, RebalanceSettles
  <2>4. Marks(trades, date.prices) \in Int /\ Marks(q.units, date.prices) \in Int
    BY <1>2, <1>3, <2>1, MarksAreInt DEF RebalanceBook, RebalanceDate
  <2> HIDE DEF r, t
  <2>5. QED BY <1>3, <2>2, <2>3, <2>4 DEF RebalanceBook
<1> HIDE DEF t
<1>8. /\ RebalanceBook(c) /\ c.gains = book.gains
      /\ c.cash + c.costs + mark = book.cash + book.costs + Marks(book.units, date.prices)
  BY <1>3, <1>7
<1>9. book' = Rebalance!Marked(c, book, date)
  BY DEF Rebalance!OnDate, q, equity, t
<1> HIDE DEF c
<1>10. book' = [c EXCEPT !.gains = gains, !.equity = total, !.prices = date.prices, !.date = @ + 1]
  <2>1. Rebalance!EquityOf(c, date.prices) = total
    BY <1>5 DEF Rebalance!EquityOf
  <2> HIDE DEF total
  <2>2. QED BY <1>4, <1>9, <2>1, RebalanceSum DEF Rebalance!Marked, Rebalance!SumOf, Rebalance!SumOver
<1>11. gain \in Int /\ Marks(book.units, date.prices) = Marks(book.units, book.prices) + gain
  <2> DEFINE old == book.prices
             new == date.prices
             units == book.units
  <2>1. units \in [BothAssets -> Int] /\ \A a \in BothAssets : old[a] \in Int /\ new[a] \in Int
    BY <1>1, <1>2 DEF RebalanceHeld, RebalanceBook, RebalanceDate
  <2>2. gain = SumFunction([a \in BothAssets |-> units[a] * (new[a] - old[a])])
    OBVIOUS
  <2> HIDE DEF old, new, units, gain
  <2>3. gain \in Int /\ Marks(units, new) = Marks(units, old) + gain
    BY <2>1, <2>2, PricesMark
  <2>4. QED BY <2>3 DEF old, new, units
<1>12. mark \in Int /\ Marks(book.units, book.prices) \in Int
  BY <1>1, <1>2, <1>8, MarksAreInt DEF RebalanceHeld, RebalanceBook, RebalanceDate
<1> HIDE DEF gain, mark
<1>13. gains \in Int /\ total \in Int /\ total = plan.cash + gains - c.costs
  <2>1. /\ c.cash \in Int /\ c.costs \in Int /\ book.cash \in Int /\ book.costs \in Int /\ book.gains \in Int
        /\ plan.cash \in Int
    BY <1>1, <1>8 DEF RebalanceBook, RebalancePlan
  <2>2. book.cash + Marks(book.units, book.prices) = plan.cash + book.gains - book.costs
    BY DEF RebalanceHeld
  <2>3. QED BY <1>8, <1>11, <1>12, <2>1, <2>2
<1> DEFINE Due1 == total = c.cash + mark
<1>14. Due1
  OBVIOUS
<1> HIDE DEF gains, total
<1>15. /\ Record(book', RebalanceFields) /\ book'.units = c.units /\ book'.cash = c.cash /\ book'.costs = c.costs
       /\ book'.gains = gains /\ book'.equity = total /\ book'.prices = date.prices
  BY <1>8, <1>10 DEF RebalanceBook, Record, RebalanceFields
<1>16. /\ RebalanceBook(book') /\ book'.equity = book'.cash + Marks(book'.units, book'.prices)
  BY <1>8, <1>13, <1>14, <1>15 DEF RebalanceBook, mark
<1>17. RebalanceBook(book)' /\ Marks(book.units, book.prices)' = Marks(book'.units, book'.prices) /\ RebalancePlan'
  BY <1>1, <1>16 DEF RebalanceBook, Marks, RebalancePlan
<1>18. QED BY <1>1, <1>2, <1>13, <1>15, <1>16, <1>17 DEF RebalanceHeld, RebalanceDate

LEMMA RebalanceBalances ==
  ASSUME RebalanceHeld
  PROVE  Rebalance!BooksBalance
BY DEF RebalanceHeld, Rebalance!BooksBalance

-----------------------------------------------------------------------------
(* Pairs. *)

\* What a regression divides by is a sum of squares and never negative.
LEMMA SquaresSpread ==
  ASSUME NEW N \in Nat, NEW x \in [1..N -> Int]
  PROVE  LET n == N
             sum == SumFunction(x)
             squares == SumFunction([k \in 1..N |-> x[k] * x[k]])
         IN sum \in Int /\ squares \in Int /\ N * squares - sum * sum >= 0
<1> DEFINE first(n) == SumFunction([k \in 1..n |-> x[k]])
           second(n) == SumFunction([k \in 1..n |-> x[k] * x[k]])
           Apart == {n \in 0..N : \A t \in Int : second(n) + n * (t * t) - 2 * (t * first(n)) >= 0}
           Spread == {n \in 0..N : n * second(n) - first(n) * first(n) >= 0}
<1>1. \A n \in 0..N : first(n) \in Int /\ second(n) \in Int
  <2> SUFFICES ASSUME NEW n \in 0..N PROVE first(n) \in Int /\ second(n) \in Int
    OBVIOUS
  <2>1. IsFiniteSet(1..n)
    <3>1. \A m \in Nat : IsFiniteSet(1..m)
      BY FS_Interval
    <3>2. QED BY <3>1
  <2>2. [k \in 1..n |-> x[k]] \in [1..n -> Int] /\ [k \in 1..n |-> x[k] * x[k]] \in [1..n -> Int]
    OBVIOUS
  <2>3. QED BY <2>1, <2>2, SumIsInt
<1>2. first(0) = 0 /\ second(0) = 0
  <2> DEFINE f == [k \in 1..0 |-> x[k]]
             g == [k \in 1..0 |-> x[k] * x[k]]
  <2>1. f \in [{} -> Int] /\ g \in [{} -> Int]
    OBVIOUS
  <2> HIDE DEF f, g
  <2>2. SumFunction(f) = 0 /\ SumFunction(g) = 0
    BY <2>1, SumOfNone
  <2>3. QED BY <2>2 DEF f, g
<1>3. \A n \in 1..N : first(n) = first(n - 1) + x[n] /\ second(n) = second(n - 1) + x[n] * x[n]
  <2> SUFFICES ASSUME NEW n \in 1..N PROVE first(n) = first(n - 1) + x[n] /\ second(n) = second(n - 1) + x[n] * x[n]
    OBVIOUS
  <2> DEFINE f == [k \in 1..n |-> x[k]]
             g == [k \in 1..n |-> x[k] * x[k]]
  <2>1. f \in [1..n -> Int] /\ g \in [1..n -> Int] /\ 1 <= n /\ n \in Int
    OBVIOUS
  <2>2. f[n] = x[n] /\ g[n] = x[n] * x[n]
    OBVIOUS
  <2>3. [k \in 1..(n - 1) |-> f[k]] = [k \in 1..(n - 1) |-> x[k]]
    OBVIOUS
  <2>4. [k \in 1..(n - 1) |-> g[k]] = [k \in 1..(n - 1) |-> x[k] * x[k]]
    OBVIOUS
  <2> HIDE DEF f, g
  <2>7. PICK lo \in Int : lo = 1
    OBVIOUS
  <2>8. f \in [lo..n -> Int] /\ g \in [lo..n -> Int] /\ lo <= n
    BY <2>1, <2>7
  <2>9. /\ SumFunction(f) = SumFunction([k \in lo..(n - 1) |-> f[k]]) + f[n]
        /\ SumFunction(g) = SumFunction([k \in lo..(n - 1) |-> g[k]]) + g[n]
    BY <2>1, <2>8, SumOfStretch
  <2>5. SumFunction(f) = SumFunction([k \in 1..(n - 1) |-> f[k]]) + f[n]
    BY <2>9, <2>7
  <2>6. SumFunction(g) = SumFunction([k \in 1..(n - 1) |-> g[k]]) + g[n]
    BY <2>9, <2>7
  <2>10. QED BY <2>2, <2>3, <2>4, <2>5, <2>6 DEF f, g
<1> HIDE DEF first, second
<1>4. \A n \in 0..N : n \in Apart
  <2>1. 0 \in Apart
    BY <1>1, <1>2
  <2>2. ASSUME NEW n \in 1..N, n - 1 \in Apart PROVE n \in Apart
    <3> SUFFICES ASSUME NEW t \in Int PROVE second(n) + n * (t * t) - 2 * (t * first(n)) >= 0
      OBVIOUS
    <3> DEFINE a == second(n - 1)
               b == first(n - 1)
               y == x[n]
               s == t * t
               m == n - 1
    <3>1. a \in Int /\ b \in Int /\ y \in Int /\ s \in Int /\ m \in Int /\ n = m + 1
      BY <1>1
    <3>2. a + m * s - 2 * (t * b) >= 0
      BY <2>2
    <3>3. second(n) = a + y * y /\ first(n) = b + y
      BY <1>3
    <3>4. (y - t) * (y - t) >= 0
      <4>1. \A z \in Int : z * z >= 0
        OBVIOUS
      <4>2. y - t \in Int
        BY <3>1
      <4>3. QED BY <4>1, <4>2
    <3>5. (y - t) * (y - t) = y * y - 2 * (t * y) + s
      BY <3>1
    <3>6. n * s = m * s + s /\ t * (b + y) = t * b + t * y
      <4> HIDE DEF a, b, y, s, m
      <4>1. QED BY <3>1
    <3> DEFINE yy == y * y
               ty == t * y
               tb == t * b
               ms == m * s
               tby == t * (b + y)
               ns == n * s
    <3>7. yy \in Int /\ ty \in Int /\ tb \in Int /\ ms \in Int /\ tby \in Int /\ ns \in Int
      BY <3>1
    <3>8. /\ a + ms - 2 * tb >= 0 /\ yy - 2 * ty + s >= 0 /\ ns = ms + s /\ tby = tb + ty
          /\ second(n) + n * (t * t) - 2 * (t * first(n)) = a + yy + ns - 2 * tby
      BY <3>2, <3>3, <3>4, <3>5, <3>6
    <3> HIDE DEF a, b, y, s, m, yy, ty, tb, ms, tby, ns
    <3>9. a + yy + ns - 2 * tby >= 0
      BY <3>1, <3>7, <3>8
    <3>10. QED BY <3>8, <3>9
  <2> HIDE DEF Apart
  <2>3. QED BY <2>1, <2>2, UpTo
<1>5. \A n \in 0..N : n \in Spread
  <2>1. 0 \in Spread
    BY <1>1, <1>2
  <2>2. ASSUME NEW n \in 1..N, n - 1 \in Spread PROVE n \in Spread
    <3> DEFINE a == second(n - 1)
               b == first(n - 1)
               y == x[n]
               m == n - 1
    <3>1. a \in Int /\ b \in Int /\ y \in Int /\ m \in Int /\ n = m + 1
      BY <1>1
    <3>2. m * a - b * b >= 0
      BY <2>2
    <3>3. second(n) = a + y * y /\ first(n) = b + y
      BY <1>3
    <3>4. a + m * (y * y) - 2 * (y * b) >= 0
      <4>1. m \in Apart
        BY <1>4
      <4>2. QED BY <3>1, <4>1
    <3> HIDE DEF a, b, y, m
    <3>5. (m + 1) * (a + y * y) - (b + y) * (b + y) = (m * a - b * b) + (a + m * (y * y) - 2 * (y * b))
      BY <3>1
    <3>6. n * second(n) - first(n) * first(n) >= 0
      <4> DEFINE u == m * a - b * b
                 v == a + m * (y * y) - 2 * (y * b)
      <4>1. u \in Int /\ v \in Int /\ u >= 0 /\ v >= 0
        BY <3>1, <3>2, <3>4
      <4>2. n * second(n) - first(n) * first(n) = u + v
        BY <3>1, <3>3, <3>5
      <4> HIDE DEF u, v
      <4>3. QED BY <4>1, <4>2
    <3>7. QED BY <3>6
  <2> HIDE DEF Spread
  <2>3. QED BY <2>1, <2>2, UpTo
<1>6. first(N) = SumFunction(x) /\ second(N) = SumFunction([k \in 1..N |-> x[k] * x[k]])
  <2>1. [k \in 1..N |-> x[k]] = x
    OBVIOUS
  <2>2. QED BY <2>1 DEF first, second
<1>7. QED
  <2>1. N \in 0..N
    OBVIOUS
  <2>2. QED BY <2>1, <1>1, <1>5, <1>6

Quotes == [1..2 -> Nat \ {0}]
Ratios == [n : Int, d : Nat \ {0}]

PairPlan == plan.fees \in FeeModels /\ plan.cash \in Int /\ plan.lookback \in Nat /\ plan.hedge \in Ratios

LEMMA PairSum ==
  ASSUME NEW f
  PROVE  Pairs!SumFunction(f) = SumFunction(f)
BY DEF Pairs!SumFunction, Pairs!SumFunctionOnSet, Pairs!FoldFunctionOnSet, Pairs!MapThenFoldSet,
       SumFunction, SumFunctionOnSet, FoldFunctionOnSet, MapThenFoldSet

LEMMA PairRegresses ==
  ASSUME PairPlan, NEW closes \in Seq(Quotes)
  PROVE  Pairs!Regressed(closes) \in Ratios
<1> DEFINE n == Len(closes)
           xs == [k \in 1..n |-> closes[k][2]]
           ys == [k \in 1..n |-> closes[k][1]]
           xys == [k \in 1..n |-> closes[k][2] * closes[k][1]]
           squares == [k \in 1..n |-> closes[k][2] * closes[k][2]]
           num == n * SumFunction(xys) - SumFunction(xs) * SumFunction(ys)
           den == n * SumFunction(squares) - SumFunction(xs) * SumFunction(xs)
           above == n * Pairs!SumFunction(xys) - Pairs!SumFunction(xs) * Pairs!SumFunction(ys)
           below == n * Pairs!SumFunction(squares) - Pairs!SumFunction(xs) * Pairs!SumFunction(xs)
<1>0. Pairs!Regressed(closes) =
         IF n < 2 \/ below = 0 THEN plan.hedge
         ELSE CASE 10 * above < below -> [n |-> 1, d |-> 10]
                [] above > 10 * below -> [n |-> 10, d |-> 1]
                [] OTHER              -> [n |-> above, d |-> below]
  BY Zenon DEF Pairs!Regressed
<1>10. above = num /\ below = den
  BY PairSum
<1> HIDE DEF above, below
<1>1. Pairs!Regressed(closes) =
         IF n < 2 \/ den = 0 THEN plan.hedge
         ELSE CASE 10 * num < den -> [n |-> 1, d |-> 10]
                [] num > 10 * den -> [n |-> 10, d |-> 1]
                [] OTHER          -> [n |-> num, d |-> den]
  BY <1>0, <1>10
<1>2. n \in Nat /\ \A k \in 1..n : closes[k][1] \in Int /\ closes[k][2] \in Int
  BY DEF Quotes
<1>3. IsFiniteSet(1..n)
  <2>1. \A m \in Nat : IsFiniteSet(1..m)
    BY FS_Interval
  <2>2. QED BY <1>2, <2>1
<1>4. SumFunction(xys) \in Int /\ SumFunction(xs) \in Int /\ SumFunction(ys) \in Int
  <2>1. xys \in [1..n -> Int] /\ xs \in [1..n -> Int] /\ ys \in [1..n -> Int]
    BY <1>2
  <2> HIDE DEF xys, xs, ys, n
  <2>2. QED BY <1>3, <2>1, SumIsInt
<1>5. den \in Int /\ den >= 0
  <2>1. xs \in [1..n -> Int] /\ squares = [k \in 1..n |-> xs[k] * xs[k]]
    BY <1>2
  <2> HIDE DEF xs, squares, n
  <2>2. /\ SumFunction(xs) \in Int /\ SumFunction(squares) \in Int
        /\ n * SumFunction(squares) - SumFunction(xs) * SumFunction(xs) >= 0
    BY <1>2, <2>1, SquaresSpread
  <2>3. QED BY <1>2, <2>2
<1>6. num \in Int
  <2> HIDE DEF n, xys, xs, ys
  <2>1. QED BY <1>2, <1>4
<1> HIDE DEF n, den, num
<1>7. CASE n < 2 \/ den = 0
  BY <1>1, <1>7 DEF PairPlan
<1>8. CASE ~(n < 2 \/ den = 0)
  <2>1. Pairs!Regressed(closes) \in {[n |-> 1, d |-> 10], [n |-> 10, d |-> 1], [n |-> num, d |-> den]}
    BY <1>1, <1>8
  <2>2. QED BY <1>5, <1>6, <1>8, <2>1 DEF Ratios
<1>9. QED BY <1>7, <1>8

LEMMA PairHedges ==
  ASSUME PairPlan, NEW b, b.closes \in Seq(Quotes), NEW bar, bar.close \in Quotes
  PROVE  Pairs!HedgeRatio(b, bar) \in Ratios
<1> DEFINE seen == Pairs!Window(b, bar)
           decided == Len(seen) - 1
           m == decided - plan.lookback + 1
           part2 == SubSeq(seen, m, decided + 1)
<1>1. seen \in Seq(Quotes)
  BY DEF Pairs!Window
<1>2. CASE plan.dynamic /\ decided >= plan.lookback
  <2>1. part2 \in Seq(Quotes)
    <3>1. Len(seen) \in Nat /\ plan.lookback \in Nat
      BY <1>1 DEF PairPlan
    <3> HIDE DEF seen
    <3>2. m \in 1..Len(seen) + 1 /\ decided + 1 = Len(seen)
      BY <1>2, <3>1
    <3> HIDE DEF m, decided
    <3> HIDE DEF Quotes
    <3>3. QED BY <1>1, <3>1, <3>2
  <2>2. Pairs!HedgeRatio(b, bar) = Pairs!Regressed(part2)
    BY <1>2 DEF Pairs!HedgeRatio
  <2> HIDE DEF part2
  <2>3. QED BY <2>1, <2>2, PairRegresses
<1>3. CASE ~(plan.dynamic /\ decided >= plan.lookback)
  BY <1>3 DEF Pairs!HedgeRatio, PairPlan
<1>4. QED BY <1>2, <1>3

PairOwned(p) == p.size[1] \in Int /\ p.size[2] \in Int /\ p.price[1] \in Int /\ p.price[2] \in Int

PairBalance(b) ==
  /\ PairBook(b) /\ b.records \in Nat /\ b.closes \in Seq(Quotes)
  /\ b.records = 0 =>
       /\ b.cash \in Int /\ b.paid \in Int
       /\ ~Pairs!InPair(b) => b.cash = plan.cash /\ b.paid = 0
       /\ Pairs!InPair(b) => PairOwned(b.pair) /\ b.cash = plan.cash - b.paid - Pairs!Value(b.pair, b.pair.price)

PairHeld ==
  /\ plan \in PairPlans
  /\ PairBalance(book)
  /\ Pairs!MarkIsProfit

LEMMA PairFee ==
  ASSUME PairPlan, NEW p, p.size[1] \in Int, p.size[2] \in Int, NEW at, at[1] \in Int, at[2] \in Int
  PROVE  Pairs!FeesOn(p, at) \in Int
<1>1. \A price, size, d, e : Pairs!FeeOfSide(plan.fees, price, size, d, e) = FeeOfSide(plan.fees, price, size, d, e)
  BY DEF Pairs!FeeOfSide, FeeOfSide, Pairs!Size, Size, Pairs!Portion, Portion, Pairs!TierRate, TierRate,
         Pairs!Total, Total, Pairs!Charges, Charges, Pairs!Buys, Buys, Pairs!Brokerage, Brokerage,
         Pairs!LesserOf, LesserOf, Pairs!Cardinality, Cardinality
<1>2. \A price \in Int, size \in Int : \A d, e : FeeOfSide(plan.fees, price, size, d, e) \in Int
  BY FeeIsInt DEF PairPlan
<1>3. \A price \in Int, size \in Int : \A d, e : Pairs!FeeOfSide(plan.fees, price, size, d, e) \in Int
  BY <1>1, <1>2
<1>4. \A price \in Int, size \in Int : \A d : Pairs!FeeOfSide(plan.fees, price, size, d, TRUE) \in Int
  BY <1>3, Zenon
<1>5. \A price \in Int, size \in Int : \A d : Pairs!Fee(plan.fees, price, size, d) \in Int
  BY <1>4 DEF Pairs!Fee
<1> DEFINE one == Pairs!Fee(plan.fees, at[1], p.size[1], Pairs!Directions[1])
           two == Pairs!Fee(plan.fees, at[2], p.size[2], Pairs!Directions[2])
<1>6. one \in Int /\ two \in Int
  BY <1>5
<1>7. Pairs!FeesOn(p, at) = one + two
  BY DEF Pairs!FeesOn, Pairs!BothLegs
<1> HIDE DEF one, two
<1>8. QED BY <1>6, <1>7

LEMMA PairLeaves ==
  ASSUME NEW b, PairBalance(b), NEW bar
  PROVE  PairBalance(Pairs!Left(b, bar))
<1>1. \A at : PairBalance(Pairs!Closed(b, at))
  <2> SUFFICES ASSUME NEW at PROVE PairBalance(Pairs!Closed(b, at))
    OBVIOUS
  <2> DEFINE cash == b.cash + Pairs!Value(b.pair, at) - Pairs!FeesOn(b.pair, at)
             booked == b.booked + Pairs!GrossPnL(b.pair, at) - Pairs!FeesOn(b.pair, at)
             records == b.records + 2
  <2>1. Pairs!Closed(b, at) = [b EXCEPT !.cash = cash, !.booked = booked, !.records = records, !.pair = Pairs!None]
    BY DEF Pairs!Closed
  <2>2. records \in Nat /\ records # 0
    BY DEF PairBalance
  <2> HIDE DEF cash, booked, records
  <2>3. QED BY <2>1, <2>2 DEF PairBalance, PairBook, Record
<1>2. QED BY <1>1 DEF Pairs!Left

LEMMA PairOpens ==
  ASSUME PairPlan, NEW b, PairBalance(b), ~Pairs!InPair(b), NEW at \in Quotes, NEW ratio \in Ratios
  PROVE  PairBalance(Pairs!Opened(b, at, ratio))
<1> DEFINE p == Pairs!Sized(b.cash, at, ratio)
           fees == Pairs!FeesOn(p, at)
           cost == Pairs!Value(p, at)
           cash == b.cash - cost - fees
           paid == b.paid + fees
           c == Pairs!Opened(b, at, ratio)
<1>1. c = [b EXCEPT !.cash = cash, !.paid = paid, !.pair = p]
  BY DEF Pairs!Opened
<1>2. at[1] \in Nat \ {0} /\ at[2] \in Nat \ {0} /\ ratio.n \in Int /\ ratio.d \in Nat \ {0}
  BY DEF Quotes, Ratios
<1>3. p.price = at /\ p # Pairs!None
  <2>1. p.price = at
    BY DEF Pairs!Sized
  <2> HIDE DEF p
  <2>2. QED BY <1>2, <2>1 DEF Pairs!None
<1>4. CASE b.records # 0
  <2> HIDE DEF p, cash, paid, c
  <2>1. PairBook(c) /\ c.records = b.records /\ c.closes = b.closes
    BY <1>1 DEF PairBalance, PairBook, Record
  <2>2. QED BY <1>4, <2>1 DEF PairBalance, c
<1>5. CASE b.records = 0
  <2>1. b.cash \in Int /\ b.cash = plan.cash /\ b.paid = 0
    BY <1>5 DEF PairBalance
  <2>2. p.size[1] \in Int /\ p.size[2] \in Int
    <3> DEFINE half == b.cash \div 2
               first == half \div at[1]
               per == ratio.d * at[2]
               share == half * ratio.n
               second == share \div per
    <3>1. half \in Int
      BY <2>1
    <3>2. p.size = <<first, second>>
      BY DEF Pairs!Sized
    <3> HIDE DEF half
    <3>3. first \in Int
      BY <1>2, <3>1
    <3>4. per \in Nat \ {0}
      <4>1. \A u \in Nat \ {0}, v \in Nat \ {0} : u * v \in Nat \ {0}
        OBVIOUS
      <4>2. QED BY <1>2, <4>1
    <3>5. share \in Int
      BY <1>2, <3>1
    <3> HIDE DEF per, share
    <3>6. second \in Int
      BY <3>4, <3>5
    <3> HIDE DEF first, second, p
    <3>7. QED BY <3>2, <3>3, <3>6
  <2> HIDE DEF p
  <2>3. fees \in Int
    BY <1>2, <2>2, PairFee
  <2>4. cost \in Int
    BY <1>2, <2>2 DEF Pairs!Value, Pairs!BothLegs
  <2> HIDE DEF fees, cost
  <2>5. cash \in Int /\ paid \in Int /\ cash = plan.cash - paid - cost
    BY <2>1, <2>3, <2>4
  <2> HIDE DEF cash, paid, c
  <2>6. /\ PairBook(c) /\ c.records = b.records /\ c.closes = b.closes
        /\ c.cash = cash /\ c.paid = paid /\ c.pair = p
    BY <1>1 DEF PairBalance, PairBook, Record
  <2>7. PairOwned(p) /\ Pairs!Value(p, p.price) = cost
    BY <1>2, <1>3, <2>2 DEF PairOwned, cost
  <2>8. QED BY <1>3, <1>5, <2>5, <2>6, <2>7 DEF PairBalance, Pairs!InPair, c
<1>6. QED BY <1>4, <1>5

LEMMA PairEnters ==
  ASSUME PairPlan, NEW b, PairBalance(b), NEW bar, bar.open \in Quotes, bar.close \in Quotes, NEW enters
  PROVE  PairBalance(Pairs!Entered(b, bar, enters))
<1>1. Pairs!FillPrice(bar) \in Quotes
  BY DEF Pairs!FillPrice
<1>2. Pairs!HedgeRatio(b, bar) \in Ratios
  BY PairHedges DEF PairBalance
<1>3. QED BY <1>1, <1>2, PairOpens DEF Pairs!Entered

LEMMA PairSees ==
  ASSUME plan.cash \in Int, NEW b, PairBalance(b), NEW bar, bar.close \in Quotes, NEW decided
  PROVE  LET c == Pairs!Seen(b, bar, decided) IN
         /\ PairBalance(c)
         /\ Pairs!InPair(c) /\ c.records = 0 =>
              c.curve = plan.cash - c.paid + Pairs!GrossPnL(c.pair, Pairs!Last(c.closes))
<1> DEFINE curve == b.cash + Pairs!Mark(b.pair, bar.close)
           closes == Append(b.closes, bar.close)
           c == Pairs!Seen(b, bar, decided)
<1>1. c = [b EXCEPT !.curve = curve, !.count = decided.count, !.due = decided.clean, !.closes = closes]
  BY DEF Pairs!Seen
<1>2. closes \in Seq(Quotes) /\ Pairs!Last(closes) = bar.close
  <2> HIDE DEF Quotes
  <2>1. closes \in Seq(Quotes) /\ Len(closes) = Len(b.closes) + 1 /\ closes[Len(b.closes) + 1] = bar.close
    BY DEF PairBalance
  <2> HIDE DEF closes
  <2>2. QED BY <2>1 DEF Pairs!Last
<1> HIDE DEF curve, closes, c
<1>3. /\ PairBook(c) /\ c.records = b.records /\ c.closes = closes /\ c.cash = b.cash
      /\ c.paid = b.paid /\ c.pair = b.pair /\ c.curve = curve
  BY <1>1 DEF PairBalance, PairBook, Record
<1>4. PairBalance(c)
  BY <1>2, <1>3 DEF PairBalance, Pairs!InPair
<1>5. ASSUME Pairs!InPair(c), c.records = 0
      PROVE  c.curve = plan.cash - c.paid + Pairs!GrossPnL(c.pair, Pairs!Last(c.closes))
  <2> DEFINE gross == Pairs!GrossPnL(b.pair, bar.close)
             cost == Pairs!Value(b.pair, b.pair.price)
  <2>1. PairOwned(b.pair) /\ b.cash = plan.cash - b.paid - cost /\ b.cash \in Int /\ b.paid \in Int
    BY <1>3, <1>5 DEF PairBalance, Pairs!InPair
  <2>2. cost \in Int
    BY <2>1 DEF PairOwned, Pairs!Value, Pairs!BothLegs
  <2>3. gross \in Int
    <3>1. bar.close[1] \in Int /\ bar.close[2] \in Int
      BY DEF Quotes
    <3>2. \A d : Pairs!Multiplier(d) \in Int
      BY DEF Pairs!Multiplier
    <3> DEFINE m1 == Pairs!Multiplier(Pairs!Directions[1])
               m2 == Pairs!Multiplier(Pairs!Directions[2])
    <3>3. m1 \in Int /\ m2 \in Int
      BY <3>2
    <3>4. gross = (bar.close[1] - b.pair.price[1]) * b.pair.size[1] * m1
                    + (bar.close[2] - b.pair.price[2]) * b.pair.size[2] * m2
      BY DEF Pairs!GrossPnL, Pairs!BothLegs
    <3> HIDE DEF m1, m2, gross
    <3>5. QED BY <2>1, <3>1, <3>3, <3>4 DEF PairOwned
  <2>4. curve = b.cash + (cost + gross)
    BY DEF curve, Pairs!Mark
  <2> HIDE DEF gross, cost
  <2>5. curve = plan.cash - b.paid + gross
    BY <2>1, <2>2, <2>3, <2>4
  <2>6. QED BY <1>2, <1>3, <2>5 DEF gross
<1>6. QED BY <1>4, <1>5 DEF c

LEMMA PairStarts ==
  ASSUME Pairs!Init
  PROVE  PairHeld
<1>1. plan \in PairPlans /\ plan.cash \in Int
  BY PairAssumption DEF Pairs!Init
<1>2. PairBook(book) /\ book.records = 0 /\ book.closes = <<>> /\ book.cash = plan.cash /\ book.paid = 0
      /\ book.pair = Pairs!None
  BY DEF Pairs!Init, PairBook, Record
<1>3. QED BY <1>1, <1>2 DEF PairHeld, PairBalance, Pairs!InPair, Pairs!MarkIsProfit

LEMMA PairBar ==
  ASSUME PairHeld, NEW bar \in PairBars, Pairs!Bar(bar)
  PROVE  PairHeld'
<1>1. book' = Pairs!OnBar(book, bar) /\ plan' = plan /\ bar.open \in Quotes /\ bar.close \in Quotes
  BY PairAssumption DEF Pairs!Bar, Quotes
<1>2. PairPlan /\ plan.cash \in Int
  BY PairAssumption DEF PairHeld, PairPlan, Ratios
<1> DEFINE c == Pairs!OnBar(book, bar)
           enters == Pairs!Acts(book, bar).enter
           l == Pairs!Left(book, bar)
           e == Pairs!Entered(l, bar, enters)
<1>3. PairBalance(l)
  BY PairLeaves DEF PairHeld
<1> HIDE DEF l
<1>4. PairBalance(e)
  BY <1>1, <1>2, <1>3, PairEnters
<1> HIDE DEF e
<1>5. /\ PairBalance(c)
      /\ Pairs!InPair(c) /\ c.records = 0 =>
           c.curve = plan.cash - c.paid + Pairs!GrossPnL(c.pair, Pairs!Last(c.closes))
  <2>1. c = Pairs!Seen(e, bar, Pairs!Decided(book, bar))
    BY DEF Pairs!OnBar, l, e
  <2> HIDE DEF c
  <2>2. QED BY <1>1, <1>2, <1>4, <2>1, PairSees
<1> HIDE DEF c
<1>6. /\ PairBalance(book')
      /\ Pairs!InPair(book') /\ book'.records = 0 =>
           book'.curve = plan.cash - book'.paid + Pairs!GrossPnL(book'.pair, Pairs!Last(book'.closes))
  BY <1>1, <1>5 DEF c
<1>7. \A p, at : Pairs!GrossPnL(p, at)' = Pairs!GrossPnL(p, at)
  BY <1>1 DEF Pairs!GrossPnL, Pairs!BothLegs, Pairs!Multiplier, Pairs!Directions
<1>8. PairBalance(book)'
  BY <1>1, <1>6 DEF PairBalance, PairBook, Pairs!InPair, PairOwned, Pairs!Value, Pairs!BothLegs
<1>9. Pairs!MarkIsProfit'
  BY <1>1, <1>6 DEF Pairs!MarkIsProfit, Pairs!InPair, Pairs!GrossPnL, Pairs!BothLegs, Pairs!Directions, Pairs!Last
<1>10. QED BY <1>1, <1>8, <1>9 DEF PairHeld

LEMMA PairFinish ==
  ASSUME PairHeld, Pairs!Finish
  PROVE  PairHeld'
<1> DEFINE at == Pairs!Last(book.closes)
           booked == book.booked + Pairs!GrossPnL(book.pair, at) - Pairs!FeesOn(book.pair, at)
           records == book.records + 1
           closed == [book EXCEPT !.booked = booked, !.records = records, !.pair = Pairs!None]
           c == IF Pairs!InPair(book) THEN closed ELSE book
<1>1. book' = [c EXCEPT !.ended = TRUE] /\ plan' = plan
  BY DEF Pairs!Finish
<1>2. records \in Nat /\ records # 0
  BY DEF PairHeld, PairBalance
<1> HIDE DEF booked, records
<1>3. PairBook(c) /\ ~Pairs!InPair(c) /\ c.closes = book.closes
      /\ IF Pairs!InPair(book) THEN c.records = records
         ELSE c.records = book.records /\ c.cash = book.cash /\ c.paid = book.paid
  BY DEF PairHeld, PairBalance, PairBook, Record, Pairs!InPair
<1> HIDE DEF c
<1>4. PairBook(book') /\ ~Pairs!InPair(book') /\ book'.closes = c.closes /\ book'.records = c.records
      /\ book'.cash = c.cash /\ book'.paid = c.paid
  BY <1>1, <1>3 DEF PairBook, Record, Pairs!InPair
<1>5. PairBalance(book')
  BY <1>2, <1>3, <1>4 DEF PairHeld, PairBalance
<1>6. PairBalance(book)'
  BY <1>1, <1>5 DEF PairBalance, PairBook, Pairs!InPair, PairOwned, Pairs!Value, Pairs!BothLegs
<1>7. QED BY <1>1, <1>4, <1>6 DEF PairHeld, Pairs!MarkIsProfit, Pairs!InPair

-----------------------------------------------------------------------------
(* The accounts together. *)

Held ==
  /\ In("basket", BasketHeld)
  /\ In("pairs", PairHeld)
  /\ In("options", OptionHeld)
  /\ In("spreads", SpreadHeld)
  /\ In("pool", PoolHeld)
  /\ In("stops", StopHeld)
  /\ In("rebalance", RebalanceHeld)

\* A book nobody touches stays as it is.
LEMMA BooksRest ==
  ASSUME UNCHANGED <<plan, book>>
  PROVE  /\ BasketHeld => BasketHeld'
         /\ PairHeld => PairHeld'
         /\ OptionHeld => OptionHeld'
         /\ SpreadHeld => SpreadHeld'
         /\ PoolHeld => PoolHeld'
         /\ StopHeld => StopHeld'
         /\ RebalanceHeld => RebalanceHeld'
<1>1. BasketHeld => BasketHeld'
  BY BasketStays DEF BasketHeld
<1>2. PairHeld => PairHeld'
  BY DEF PairHeld, PairBalance, PairBook, PairOwned, Pairs!InPair, Pairs!Value, Pairs!BothLegs, Pairs!MarkIsProfit,
         Pairs!GrossPnL, Pairs!Directions, Pairs!Last
<1>3. OptionHeld => OptionHeld'
  BY DEF OptionHeld, OptionBalance, OptionBook, OptionPlan
<1>4. SpreadHeld => SpreadHeld'
  BY DEF SpreadHeld, SpreadBalance, SpreadBook, SpreadPlan, Contracts, Structure, Spreads!Holds
<1>5. PoolHeld => PoolHeld'
  BY PoolStays DEF PoolHeld
<1>6. StopHeld => StopHeld'
  BY DEF StopHeld, StopPlan, StopBalance, StopIntent, StopBook, Stops!Holds
<1>7. RebalanceHeld => RebalanceHeld'
  BY DEF RebalanceHeld, RebalancePlan, RebalanceBook, Marks
<1>8. QED BY <1>1, <1>2, <1>3, <1>4, <1>5, <1>6, <1>7

(* Every simulator with an account, whatever the plan, the bars and the fee  *)
(* model: cash and curve are the capital plus what the records report, less  *)
(* what the positions still open cost.                                     *)
THEOREM AccountsReconcile == Spec => []BooksBalance
<1>1. Init => Held
  BY BasketStarts, PairStarts, OptionStarts, SpreadStarts, PoolStarts, StopStarts, RebalanceStarts DEF Init, Held, In
<1>2. Held /\ [Next]_vars => Held'
  <2> SUFFICES ASSUME Held, [Next]_vars PROVE Held'
    OBVIOUS
  <2>1. CASE UNCHANGED vars
    BY <2>1, BooksRest DEF vars, Held, In
  <2>2. CASE Next
    <3>1. part' = part
      BY <2>2 DEF Next
    <3>2. CASE part = "basket"
      <4>1. BasketHeld /\ Basket!Next
        BY <2>2, <3>2 DEF Next, Held, In
      <4>2. BasketHeld'
        BY <4>1, BasketBar, BasketFinish DEF Basket!Next
      <4>3. QED BY <3>1, <3>2, <4>2 DEF Held, In
    <3>3. CASE part = "pairs"
      <4>1. PairHeld /\ Pairs!Next
        BY <2>2, <3>3 DEF Next, Held, In
      <4>2. PairHeld'
        BY <4>1, PairBar, PairFinish DEF Pairs!Next
      <4>3. QED BY <3>1, <3>3, <4>2 DEF Held, In
    <3>4. CASE part = "options"
      <4>1. OptionHeld /\ Options!Next
        BY <2>2, <3>4 DEF Next, Held, In
      <4>2. OptionHeld'
        BY <4>1, OptionBar, OptionFinish DEF Options!Next
      <4>3. QED BY <3>1, <3>4, <4>2 DEF Held, In
    <3>5. CASE part = "spreads"
      <4>1. SpreadHeld /\ Spreads!Next
        BY <2>2, <3>5 DEF Next, Held, In
      <4>2. SpreadHeld'
        BY <4>1, SpreadBar, SpreadFinish DEF Spreads!Next
      <4>3. QED BY <3>1, <3>5, <4>2 DEF Held, In
    <3>6. CASE part = "pool"
      <4>1. PoolHeld /\ Pool!Next
        BY <2>2, <3>6 DEF Next, Held, In
      <4>2. PoolHeld'
        BY <4>1, PoolBar, PoolFinish DEF Pool!Next
      <4>3. QED BY <3>1, <3>6, <4>2 DEF Held, In
    <3>7. CASE part = "stops"
      <4>1. StopHeld /\ Stops!Next
        BY <2>2, <3>7 DEF Next, Held, In
      <4>2. StopHeld'
        BY <4>1, StopStep DEF Stops!Next
      <4>3. QED BY <3>1, <3>7, <4>2 DEF Held, In
    <3>8. CASE part = "rebalance"
      <4>1. RebalanceHeld /\ Rebalance!Next
        BY <2>2, <3>8 DEF Next, Held, In
      <4>2. RebalanceHeld'
        BY <4>1, RebalanceStep
      <4>3. QED BY <3>1, <3>8, <4>2 DEF Held, In
    <3>9. CASE part \notin {"basket", "pairs", "options", "spreads", "pool", "stops", "rebalance"}
      BY <3>1, <3>9 DEF Held, In
    <3>10. QED BY <3>2, <3>3, <3>4, <3>5, <3>6, <3>7, <3>8, <3>9
  <2>3. QED BY <2>1, <2>2
<1>3. Held => BooksBalance
  BY BasketBalances, OptionBalances, SpreadBalances, PoolBalances, StopBalances, RebalanceBalances
     DEF Held, BooksBalance, In, PairHeld
<1>4. QED
  BY <1>1, <1>2, <1>3, PTL DEF Spec
=============================================================================
