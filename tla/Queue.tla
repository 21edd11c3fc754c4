-------------------------------- MODULE Queue --------------------------------
(***************************************************************************)
(* The queue model of resting limits (execution/queue.rs) over the order   *)
(* book it reads (data/book.rs), as the kernel drives them: quotes and     *)
(* depth snapshots set the book, a print that reaches a limit asks the      *)
(* queue for a verdict, and an order the queue cannot judge is left to the *)
(* fill probability.                                                       *)
(***************************************************************************)
EXTENDS Integers, Sequences, FiniteSets, FiniteSetsExt

CONSTANTS
  Prices,       \* prices quoted and printed
  Sizes,        \* sizes printed and displayed
  Units,        \* order sizes
  BookDepth,    \* BOOK_DEPTH
  Venues,       \* venues to explore: [carries, partialFills], carries a subset of
                \* {"quote", "depth"}
  MaxLimits, MaxFeed,   \* bounds: orders, events
  Unsized,      \* a price known without its size (NaN)
  Unknown       \* None

\* Prices and sizes count ticks and units; what is not known is no size.
ASSUME QueueAssumption ==
  /\ Prices \subseteq Nat /\ Sizes \subseteq Nat /\ Units \subseteq Nat \ {0}
  /\ BookDepth \in Nat /\ MaxLimits \in Nat /\ MaxFeed \in Nat
  /\ Unsized \notin Nat /\ Unknown \notin Nat

VARIABLES
  venue,        \* the venue explored
  book,         \* per side, levels best first: [price, size]
  estimates,    \* QueueTracker::orders: id -> [ahead, traded, price, side]
  limits,       \* resting limit orders: id -> [side, price, left, moved, sliced]
  seen          \* events so far

queueVars == <<venue, book, estimates, limits, seen>>

Sides == {"Bid", "Ask"}
Better(side, p, q) == IF side = "Bid" THEN p > q ELSE p < q
NonNegative(n) == IF n < 0 THEN 0 ELSE n
Live(id) == limits[id].left > 0

-----------------------------------------------------------------------------
(* The book *)

\* BookLevel::l1: a size is kept only when it is a positive number.
TopLevel(price, size) ==
  IF price = 0 THEN <<>>
  ELSE <<[price |-> price, size |-> IF size = Unsized \/ size = 0 THEN Unsized ELSE size]>>

\* A quote leaves nothing below the touch.
QuotedBook(q) == [Bid |-> TopLevel(q.Bid.price, q.Bid.size), Ask |-> TopLevel(q.Ask.price, q.Ask.size)]

\* A snapshot keeps the best BookDepth levels of each side.
Kept(levels) == SubSeq(levels, 1, IF Len(levels) < BookDepth THEN Len(levels) ELSE BookDepth)
DepthBook(d) == [side \in Sides |-> Kept(d[side])]

LevelsAt(side, price) == {k \in DOMAIN book[side] : book[side][k].price = price}

-----------------------------------------------------------------------------
(* The queue *)

\* initial_queue: the displayed size at the price; nothing for an order that
\* improves the touch; unknown when the book does not tell.
InitialQueue(side, price) ==
  LET at == LevelsAt(side, price) IN
  CASE at # {} -> IF book[side][Min(at)].size = Unsized THEN Unknown ELSE book[side][Min(at)].size
    [] at = {} /\ book[side] # <<>> /\ Better(side, price, Head(book[side]).price) -> 0
    [] OTHER -> Unknown

Remaining(e) == NonNegative(e.ahead - e.traded)

MutTightened(e, quote) ==
  LET touch == quote[e.side] IN
  IF touch.price > 0 /\ Better(e.side, e.price, touch.price)
  THEN [e EXCEPT !.ahead = e.traded]
  ELSE e

\* on_quote: a touch short of the order's price leaves nothing ahead; one at
\* its price caps what is ahead at the size displayed.
Tightened(e, quote) ==
  LET touch == quote[e.side] IN
  CASE touch.price > 0 /\ Better(e.side, e.price, touch.price) -> [e EXCEPT !.ahead = e.traded]
    [] touch.price = e.price /\ touch.size # Unsized /\ touch.size < Remaining(e) ->
         [e EXCEPT !.ahead = e.traded + touch.size]
    [] OTHER -> e

\* Estimates are made once and kept while the order keeps its price.
Estimate(id) ==
  LET o == limits[id] IN
  IF id \in DOMAIN estimates /\ estimates[id].price = o.price
  THEN estimates[id]
  ELSE [ahead |-> InitialQueue(o.side, o.price), traded |-> 0, price |-> o.price, side |-> o.side]

Joined(id, size) == [Estimate(id) EXCEPT !.traded = @ + size]

\* observe_print, for an order the print reaches.
Judged(id, price, size) ==
  LET o == limits[id] IN
  CASE price # o.price -> "FilledThrough"
    [] price = o.price /\ Estimate(id).ahead = Unknown -> "Unknown"
    [] OTHER -> IF Joined(id, size).traded > Joined(id, size).ahead THEN "FilledInQueue"
                ELSE "Resting"

Reaches(id, price) == Live(id) /\ ~Better(limits[id].side, price, limits[id].price)

-----------------------------------------------------------------------------
QueueInit ==
  /\ venue \in Venues
  /\ book = [side \in Sides |-> <<>>]
  /\ estimates = [i \in {} |-> i] /\ limits = <<>> /\ seen = 0

MayHappen == seen < MaxFeed /\ seen' = seen + 1

RestLimit(side, price, units) ==
  /\ Len(limits) < MaxLimits
  /\ limits' = Append(limits, [side |-> side, price |-> price, left |-> units,
                               moved |-> FALSE, sliced |-> FALSE])
  /\ UNCHANGED <<venue, book, estimates, seen>>

\* The estimate stays behind: only its price tells that the order moved.
MoveLimit(id, price) ==
  /\ Live(id) /\ limits[id].price # price /\ ~limits[id].moved
  /\ limits' = [limits EXCEPT ![id].price = price, ![id].moved = TRUE]
  /\ UNCHANGED <<venue, book, estimates, seen>>

StepQuote(quote) ==
  /\ "quote" \in venue.carries /\ MayHappen
  /\ book' = QuotedBook(quote)
  /\ estimates' = [id \in DOMAIN estimates |-> Tightened(estimates[id], quote)]
  /\ UNCHANGED <<venue, limits>>

StepDepth(depth) ==
  /\ "depth" \in venue.carries /\ MayHappen
  /\ book' = DepthBook(depth)
  /\ UNCHANGED <<venue, estimates, limits>>

\* A print meets every order it reaches; each counts the whole of it.  What
\* the queue grants fills, up to the print's size under partial fills; what it
\* cannot judge fills or is passed over.
StepPrint(price, size) ==
  /\ MayHappen
  /\ LET reached == {id \in DOMAIN limits : Reaches(id, price)}
         told(verdict) == {id \in reached : Judged(id, price, size) = verdict} IN
     \E lucky \in SUBSET told("Unknown") :
       LET granted == told("FilledThrough") \cup told("FilledInQueue") \cup lucky
           slice(o) == IF venue.partialFills /\ size < o.left THEN size ELSE o.left IN
       /\ limits' = [id \in DOMAIN limits |->
            IF id \in granted
            THEN [limits[id] EXCEPT !.left = @ - slice(limits[id]),
                                    !.sliced = @ \/ (id \notin lucky /\ slice(limits[id]) < limits[id].left)]
            ELSE limits[id]]
       /\ estimates' = [id \in (DOMAIN estimates \cup told("Resting"))
                               \ (told("FilledThrough") \cup told("FilledInQueue")) |->
                          IF id \in told("Resting") THEN Joined(id, size) ELSE estimates[id]]
  /\ UNCHANGED <<venue, book>>

Touch(price, size) == [price |-> price, size |-> size]
Quotes ==
  {[Bid |-> Touch(b, s), Ask |-> Touch(b + 1, s)] :
     b \in Prices \cup {0}, s \in Sizes \cup {Unsized}}
Depths ==
  {[Bid |-> <<Touch(b, s), Touch(b - 1, t)>>, Ask |-> <<>>] :
     b \in {p \in Prices : p - 1 \in Prices}, s \in Sizes, t \in Sizes}

QueueNext ==
  \/ \E side \in Sides, price \in Prices, units \in Units : RestLimit(side, price, units)
  \/ \E id \in DOMAIN limits, price \in Prices : MoveLimit(id, price)
  \/ \E quote \in Quotes : StepQuote(quote)
  \/ \E depth \in Depths : StepDepth(depth)
  \/ \E price \in Prices, size \in Sizes : StepPrint(price, size)

-----------------------------------------------------------------------------
(* Properties *)

Waiting(id) == Live(id) /\ id \in DOMAIN estimates /\ estimates[id].price = limits[id].price

\* Of two orders resting at one price the earlier never has more ahead of it
\* than the later, as long as quotes alone describe the book (QueueTracker).
EarlierIsAhead ==
  "depth" \notin venue.carries =>
    \A i, j \in DOMAIN limits :
      /\ i < j /\ Waiting(i) /\ Waiting(j)
      /\ limits[i].side = limits[j].side /\ limits[i].price = limits[j].price
      /\ ~limits[i].moved /\ ~limits[j].moved /\ ~limits[i].sliced
      => Remaining(estimates[i]) <= Remaining(estimates[j])

\* What is ahead of a resting order only shrinks, whatever the book shows
\* later (queue.rs: progress is monotone).
AheadOnlyShrinks ==
  \A id \in DOMAIN estimates :
    id \in DOMAIN estimates' /\ estimates'[id].price = estimates[id].price =>
      Remaining(estimates'[id]) <= Remaining(estimates[id])

\* An order's place in the queue is never lost, to a later order or in time.
QueuePlaceHolds == [][EarlierIsAhead' /\ AheadOnlyShrinks]_queueVars
=============================================================================
