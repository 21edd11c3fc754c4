-------------------------------- MODULE Desk --------------------------------
(***************************************************************************)
(* Several strategies on one instrument (strategies/multi.rs): one account   *)
(* that follows their combined signals, or an account each; beside them the  *)
(* cleaner of long and short signals together and the array operators of     *)
(* signals/processor.rs, synchronizer.rs and tick_signals.rs.  One action is  *)
(* one bar; the operators see the bars so far as the arrays they take.       *)
(***************************************************************************)
EXTENDS Sequences, SequencesExt, Signals

CONSTANTS
  Plans,        \* [mode, names, weights, cash, max, gates]: `gates` are those of the momentum entry
  Bars,         \* [price, votes, leaves, long, short, tick]: votes and leaves by strategy
  MaxBars       \* bound: bars

VARIABLES plan, book

Strategies == 1..plan.names
Sides == {"Long", "Short"}
FlatAccount(cash) == [cash |-> cash, size |-> 0, count |-> 0]

-----------------------------------------------------------------------------
(* run_single, for the default configuration: everything in, at the close.   *)
Dealt(a, clean, price) ==
  CASE clean.enter /\ a.size = 0 -> [a EXCEPT !.cash = @ - (a.cash \div price) * price, !.size = a.cash \div price]
    [] clean.leave -> [a EXCEPT !.cash = @ + a.size * price, !.size = 0]
    [] OTHER -> a
Ran(a, clean, price) == [Dealt(a, clean, price) EXCEPT !.count = CountAfter(a.count, 1, clean)]

\* The account of all strategies, and the accounts of each.
Combined(b, bar) ==
  Ran(b.account, Cleaned(b.account.count, 1, CombinedEntry(plan.mode, bar.votes, plan.weights), CombinedExit(bar.leaves)),
      bar.price)
Independent(b, bar) ==
  [i \in Strategies |->
     Ran(b.accounts[i], Cleaned(b.accounts[i].count, 1, bar.votes[i], bar.leaves[i]), bar.price)]

-----------------------------------------------------------------------------
(* The momentum signals of a tick stream *)

\* tick_momentum_entry's gates; `ret` is "none" in the warmup.
Passes(gates, tick) ==
  /\ tick.spread <= gates.spread
  /\ gates.flow > 0 => tick.flow >= gates.flow
  /\ gates.ret > 0 =>
       /\ tick.warm
       /\ IF gates.up THEN tick.ret >= gates.ret ELSE tick.ret <= -gates.ret

Momentum(gates, until, i, tick) ==
  IF i >= until /\ Passes(gates, tick) THEN [fires |-> TRUE, until |-> i + 1 + gates.cooldown]
  ELSE [fires |-> FALSE, until |-> until]

-----------------------------------------------------------------------------
(* Whole arrays *)

\* shift_signals, align_signals, forward_fill_signals
Shifted(signals, n) == [i \in DOMAIN signals |-> i > n /\ signals[i - n]]
Aligned(signals, source, target, fill) ==
  [i \in DOMAIN target |->
     IF Contains(source, target[i]) THEN signals[SelectLastInSeq(source, LAMBDA t : t = target[i])] ELSE fill]
ForwardFilled(signals) == [i \in DOMAIN signals |-> \E k \in 1..i : signals[k]]

\* position_signals
Positions(cleans) ==
  [i \in DOMAIN cleans |-> FoldLeft(Holding, FALSE, SubSeq(cleans, 1, i))]

\* get_trade_indices, count_trades
Indices(signals) == {i \in DOMAIN signals : signals[i]}
TradesIn(exits) == Cardinality(Indices(exits))

\* exits_from_opposite_entries: each side leaves where the other enters.
OppositeExits(raw) ==
  [d \in Sides |-> [raw[d] EXCEPT !.leave = raw[CHOOSE o \in Sides : o # d].enter]]

\* signal_agreement, in thousandths
Agreement(votes) == (1000 * Votes(votes)) \div Cardinality(DOMAIN votes)

-----------------------------------------------------------------------------
Raw(bar) == [Long |-> bar.long, Short |-> bar.short]
Turned(b, bar) == CleanedBothWays(b.side, Raw(bar))
Switched(b, bar) == CleanedBothWays(b.other, OppositeExits(Raw(bar)))
Pyramid(b, bar) == Cleaned(b.count, plan.max, bar.long.enter, bar.long.leave)
Fired(b, bar) == Momentum(plan.gates, b.until, Len(b.bars), bar.tick)

Seen(b, bar, turned, switched, pyramid, fired) ==
  [bars |-> Append(b.bars, bar), account |-> Combined(b, bar), accounts |-> Independent(b, bar),
   side |-> SideAfter(b.side, turned), turns |-> Append(b.turns, turned),
   other |-> SideAfter(b.other, switched), switches |-> Append(b.switches, switched),
   count |-> CountAfter(b.count, plan.max, pyramid), pyramids |-> Append(b.pyramids, pyramid),
   until |-> fired.until, fires |-> Append(b.fires, fired.fires)]

OnBar(b, bar) == Seen(b, bar, Turned(b, bar), Switched(b, bar), Pyramid(b, bar), Fired(b, bar))

Init ==
  /\ plan \in Plans
  /\ book = [bars |-> <<>>, account |-> FlatAccount(plan.cash),
             accounts |-> [i \in Strategies |-> FlatAccount(plan.cash \div plan.names)],
             side |-> "None", turns |-> <<>>, other |-> "None", switches |-> <<>>,
             count |-> 0, pyramids |-> <<>>, until |-> 0, fires |-> <<>>]

Bar(bar) ==
  /\ Len(book.bars) < MaxBars
  /\ book' = OnBar(book, bar)
  /\ UNCHANGED plan

Next == \E bar \in Bars : Bar(bar)

-----------------------------------------------------------------------------
At(d, turns) == [i \in DOMAIN turns |-> turns[i][d]]
Entries(cleans) == [i \in DOMAIN cleans |-> cleans[i].enter]
Exits(cleans) == [i \in DOMAIN cleans |-> cleans[i].leave]
Doubled(seq) == [i \in DOMAIN seq |-> i \div 2]
Pairwise(seq) == Aligned(seq, Doubled(seq), Doubled(seq), FALSE)
LastOr(seq, default) == IF seq = <<>> THEN default ELSE Last(seq)

(* Cleaned long and short signals never hold both sides: read back from the   *)
(* arrays, each side's position is the cleaner's, and every bar that reverses *)
(* leaves before it enters.                                                *)
OneSideAtATime ==
  \A d \in Sides :
    LET positions == Positions(At(d, book.turns)) IN
      /\ LastOr(positions, FALSE) = (book.side = d)
      /\ \A i \in DOMAIN positions : ~(positions[i] /\ Positions(At(CHOOSE o \in Sides : o # d, book.turns))[i])

(* Exits taken from the opposite entries close, and never reverse: the exit     *)
(* wins the bar, so the opposite entry is spent on it.                        *)
OppositeExitsOnlyClose ==
  \A i \in DOMAIN book.switches : \A d, o \in Sides : ~(book.switches[i][d].leave /\ book.switches[i][o].enter)

(* Entries and exits alternate: the open entries are the difference, at most    *)
(* `max` of them, and without pyramiding the position read back is the open     *)
(* one; a delayed array loses only what is beyond its end, and aligning an      *)
(* array whose clock repeats itself a second time changes nothing.            *)
EntriesAlternate ==
  LET entries == Entries(book.pyramids)
      exits == Exits(book.pyramids)
      late == Shifted(entries, 1)
  IN /\ Cardinality(Indices(entries)) - TradesIn(exits) = book.count
     /\ book.count \in 0..plan.max
     /\ plan.max = 1 => LastOr(Positions(book.pyramids), FALSE) = (book.count = 1)
     /\ {i + 1 : i \in Indices(entries)} \cap DOMAIN entries = Indices(late)
     /\ \A i \in Indices(exits) : ForwardFilled(entries)[i]
     /\ Aligned(Pairwise(entries), Doubled(entries), Doubled(entries), FALSE) = Pairwise(entries)

(* Two momentum entries are always more than the cooldown apart, and a tick     *)
(* that passes the gates stays silent only in the shadow of another.           *)
CooldownKept ==
  \A i \in DOMAIN book.fires :
    LET shadow == {k \in DOMAIN book.fires : k < i /\ i - k <= plan.gates.cooldown /\ book.fires[k]} IN
      book.fires[i] <=> Passes(plan.gates, book.bars[i].tick) /\ shadow = {}

(* When the strategies have always voted alike, the combined account is in a    *)
(* position exactly when each of theirs is, unless the weights are too light   *)
(* to carry any vote.                                                       *)
Alike(f) == \A i, k \in DOMAIN f : f[i] = f[k]
UnanimityCarries ==
  /\ \A n \in DOMAIN book.bars : Alike(book.bars[n].votes) /\ Alike(book.bars[n].leaves)
  /\ CombinedEntry(plan.mode, [i \in Strategies |-> TRUE], plan.weights)
  => \A i \in Strategies : (book.accounts[i].size > 0) = (book.account.size > 0)

(* The synchroniser's modes are ordered by the agreement they ask for.        *)
ModesAreOrdered ==
  \A n \in DOMAIN book.bars :
    LET votes == book.bars[n].votes
        Enters(m) == SyncEntry([mode |-> m, min |-> 0], votes)
    IN /\ Enters("All") => Enters("Majority")
       /\ Enters("Majority") => Enters("Any")
       /\ Enters("All") <=> Agreement(votes) = 1000
       /\ Enters("Majority") <=> Agreement(votes) >= 500
       /\ SyncExit([mode |-> "All", min |-> 0], votes) <=> Agreement(votes) > 0
=============================================================================
