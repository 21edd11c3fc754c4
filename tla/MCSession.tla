----------------------------- MODULE MCSession ------------------------------
(***************************************************************************)
(* Model values for the runs of the session: two instruments whose price   *)
(* halves or doubles, and one configuration per way of funding.  The fee      *)
(* model charges what entries are sized with, more than that, or less.      *)
(***************************************************************************)
EXTENDS Session

TwoInstruments == 1..2
HalfOrDouble == {8, 16}

Base ==
  [leverage |-> 2, capital |-> 20, fee |-> 1, sizedFee |-> 1, hedging |-> FALSE, maxPositions |-> 0,
   drawdown |-> 0, liquidates |-> FALSE, sides |-> {TRUE}, adopts |-> FALSE,
   openUnits |-> {1, 2}, maxUnits |-> 3, maxEvents |-> 3, maxMoves |-> 3]

\* A cash account that holds something before it starts, with a drawdown limit, and
\* sizes its entries as if there were no fees.
Cash == [Base EXCEPT !.leverage = 0, !.capital = 48, !.adopts = TRUE, !.drawdown = 40,
                     !.sizedFee = 0]

\* Both directions on margin; a margin call liquidates.
Leveraged == [Base EXCEPT !.sides = BOOLEAN, !.liquidates = TRUE]

\* Several positions on each instrument, and a call that only halts.
Riding == [Base EXCEPT !.hedging = TRUE, !.openUnits = {1}]

\* A margin account without leverage, adopting, charged more than it sizes with.
Funded == [Base EXCEPT !.leverage = 1, !.capital = 40, !.fee = 2, !.adopts = TRUE, !.drawdown = 40]

\* One position for the portfolio, charged less than it sizes with.
Capped == [Base EXCEPT !.maxPositions = 1, !.openUnits = {1}, !.sizedFee = 2]

Portfolios ==
  [cash |-> Cash, leveraged |-> Leveraged, riding |-> Riding, funded |-> Funded,
   capped |-> Capped]
=============================================================================
