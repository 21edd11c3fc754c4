------------------------------- MODULE Orders -------------------------------
(***************************************************************************)
(* The typed order of src/execution/orders: its lifecycle (order.rs), the  *)
(* decision the resting book takes about one order against one bar or      *)
(* trade print (matching.rs), and the contingencies of a fill              *)
(* (kernel_orders.rs).  Pure operators; Kernel puts them in actions.       *)
(*                                                                         *)
(* Prices are abstracted: `reach` says where the live price of an order    *)
(* stands against the bar: "away" (not reached), "touch" (inside the bar's *)
(* range) or "cross" (already beyond the open).  Three fields of an order  *)
(* are history, and no action's guard reads them: `faulted` records that   *)
(* Order::transition was asked for an illegal move (the debug_assert),     *)
(* `notices` are the events emitted for the order, in order, and `fillIdx` *)
(* is the ordinal of its first fill (-1 before it).                        *)
(*                                                                         *)
(* A definition named Mut... is a deliberately wrong variant of a later    *)
(* one, used only to show that a property notices the error.               *)
(***************************************************************************)
EXTENDS Integers, Sequences

CONSTANTS
  NoOrder,       \* "no parent", "no group", "no entry order"
  DayLength,     \* NS_PER_DAY, in the model's time unit
  TzOffset       \* session_tz_offset_ns

ASSUME ClockAssumption ==
  /\ DayLength \in Nat \ {0}
  /\ TzOffset \in Nat

ASSUME NoOrderAssumption == NoOrder \notin Nat

-----------------------------------------------------------------------------
(* Order lifecycle: order.rs *)

Working  == {"Submitted", "Accepted", "Triggered", "PartiallyFilled"}
Terminal == {"Filled", "Canceled", "Expired", "Rejected"}
Statuses == Working \cup Terminal

LegalMoves ==
  ({"Submitted"} \X {"Accepted", "Rejected", "Canceled"})
    \cup ({"Accepted", "Triggered", "PartiallyFilled"}
            \X {"Filled", "Canceled", "Expired", "Rejected", "PartiallyFilled"})
    \cup {<<"Accepted", "Triggered">>}

\* Order::transition: an illegal move leaves the status alone.
Move(o, to) ==
  IF <<o.status, to>> \in LegalMoves
  THEN [o EXCEPT !.status = to]
  ELSE [o EXCEPT !.faulted = TRUE]

Note(o, event) == [o EXCEPT !.notices = Append(@, event)]

IsLive(o)     == o.status \in Working
LimitLive(o)  == o.status \in {"Triggered", "PartiallyFilled"}

OneTouch  == {"StopMarket", "MarketIfTouched", "TrailingStopMarket"}
TwoStage  == {"StopLimit", "LimitIfTouched", "TrailingStopLimit"}
Kinds     == {"Market", "MarketToLimit", "Limit"} \cup OneTouch \cup TwoStage
AtPhase   == {"AtOpen", "AtClose"}
OneShot   == {"Ioc", "Fok"}
Tifs      == {"Gtc", "Day", "Gtd"} \cup OneShot \cup AtPhase
Reaches   == {"away", "touch", "cross"}
Verdicts  == {"none", "fill", "trigger", "expire", "cancel", "reject"}

\* What a strategy chooses when it submits (Order::plain and the flags).
Template ==
  [side: {"Buy", "Sell"}, qty: {"Units", "CapitalFrac", "FullPosition"},
   units: Nat, kind: Kinds, tif: Tifs, expire: Nat,
   postOnly: BOOLEAN, reduceOnly: BOOLEAN]

Notices == {"Accepted", "Triggered", "Filled", "Canceled", "Expired", "Rejected"}

\* An order of the book: what was submitted, then what became of it.
Order ==
  [side: {"Buy", "Sell"}, qty: {"Units", "CapitalFrac", "FullPosition"},
   units: Nat, kind: Kinds, tif: Tifs, expire: Nat,
   postOnly: BOOLEAN, reduceOnly: BOOLEAN, status: Statuses,
   submittedIdx: Nat, submittedTs: Nat, arrivalTs: Nat, parent: Nat \cup {NoOrder},
   oco: Nat \cup {NoOrder}, filled: Nat, faulted: BOOLEAN,
   notices: Seq(Notices), fillIdx: Nat \cup {-1}]

\* A market order the kernel's own sweep fills, never the book.
PlainMarket(o) ==
  o.kind = "Market" /\ o.parent = NoOrder /\ o.tif \notin AtPhase

-----------------------------------------------------------------------------
(* The book's verdict on one order: matching.rs, match_events *)

MutVisibleEnded(o, idx, now, mode) == o.submittedIdx < idx

\* Only orders of an earlier event, already at the venue, meet this one
\* (arrivalTs is submitted_ts + order_latency_ns).
Visible(o, idx, now, mode) ==
  /\ IsLive(o)
  /\ o.submittedIdx < idx
  /\ mode = "Trade" => now >= o.arrivalTs

TradingDate(t) == (t + TzOffset) \div DayLength

MutLapsed(o, now) ==
  \/ o.tif = "Gtd" /\ now > o.expire
  \/ o.tif = "Day" /\ TradingDate(now) > TradingDate(o.submittedTs)

Lapsed(o, now) ==
  \/ o.tif = "Gtd" /\ now >= o.expire
  \/ o.tif = "Day" /\ TradingDate(now) > TradingDate(o.submittedTs)

\* What the order's own kind makes of the bar.
KindVerdict(o, idx, mode, reach) ==
  CASE o.kind = "Market" ->
         IF IF o.tif \in AtPhase THEN mode = "Bar" ELSE o.parent # NoOrder
         THEN "fill" ELSE "none"
    [] o.kind = "MarketToLimit" -> "fill"
    [] o.kind = "Limit" /\ o.postOnly /\ o.submittedIdx + 1 = idx
         /\ reach = "cross" -> "reject"
    [] o.kind \in TwoStage /\ ~LimitLive(o) /\ reach # "away" -> "trigger"
    [] OTHER -> IF reach = "away" THEN "none" ELSE "fill"

\* parents[p] is the status of order p before the pass (parent_state).
HeldByParent(o, parents) ==
  o.parent # NoOrder /\ (o.parent \in DOMAIN parents => parents[o.parent] \in Working)

OrphanedByParent(o, parents) ==
  /\ o.parent # NoOrder
  /\ o.parent \in DOMAIN parents
  /\ parents[o.parent] \in Terminal \ {"Filled"}

\* A one-shot order its only evaluation left idle.
Missed(o, byKind) ==
  /\ byKind = "none" /\ o.tif \in OneShot
  /\ ~(o.kind = "Market" /\ o.parent = NoOrder)

Verdict(o, parents, idx, now, mode, reach) ==
  LET byKind == KindVerdict(o, idx, mode, reach) IN
  IF ~Visible(o, idx, now, mode) THEN "none"
  ELSE IF OrphanedByParent(o, parents) THEN "cancel"
  ELSE IF HeldByParent(o, parents) THEN "none"
  ELSE IF Lapsed(o, now) THEN "expire"
  ELSE IF Missed(o, byKind) THEN "cancel"
  ELSE byKind

\* The transition the book applies itself; fills wait for the kernel.
AfterVerdict(o, verdict) ==
  CASE verdict = "trigger" -> Move(o, "Triggered")
    [] verdict = "expire"  -> Move(o, "Expired")
    [] verdict = "cancel"  -> Move(o, "Canceled")
    [] verdict = "reject"  -> Move(o, "Rejected")
    [] OTHER -> o

-----------------------------------------------------------------------------
(* Booking a fill and its contingencies: kernel_orders.rs *)

\* OrderEngine::cancel with the event its callers push.
CancelWorking(o) == IF IsLive(o) THEN Note(Move(o, "Canceled"), "Canceled") ELSE o

\* cancel_remainder: the event only when the transition was legal.
CancelRemainder(o) ==
  IF <<o.status, "Canceled">> \in LegalMoves
  THEN Note(Move(o, "Canceled"), "Canceled")
  ELSE Move(o, "Canceled")

Refused(o) == Note(Move(o, "Rejected"), "Rejected")

Acknowledged(o) == Note(Move(o, "Accepted"), "Accepted")

MutActivateChildren(os, filled) ==
  [j \in DOMAIN os |->
     IF os[j].parent = filled THEN Acknowledged(os[j]) ELSE os[j]]

ActivateChildren(os, filled) ==
  [j \in DOMAIN os |->
     IF os[j].parent = filled /\ os[j].status = "Submitted"
     THEN Acknowledged(os[j]) ELSE os[j]]

CancelSiblings(os, filled) ==
  [j \in DOMAIN os |->
     IF os[j].oco = os[filled].oco /\ os[j].oco # NoOrder /\ j # filled
     THEN CancelWorking(os[j]) ELSE os[j]]

MutAfterFill(os, filled) == ActivateChildren(os, filled)

\* after_fill
AfterFill(os, filled) == CancelSiblings(ActivateChildren(os, filled), filled)

MutRecordFill(os, i, size, requested, idx) ==
  LET filled == os[i].filled + size
      done   == filled >= requested
      booked == [os[i] EXCEPT !.filled = filled,
                              !.fillIdx = IF @ = -1 THEN idx ELSE @]
      moved  == Note(Move(booked, IF done THEN "Filled" ELSE "PartiallyFilled"), "Filled")
      order  == IF ~done /\ moved.tif = "Ioc" THEN CancelRemainder(moved) ELSE moved
  IN  AfterFill([os EXCEPT ![i] = order], i)

\* record_fill: contingencies only on the completing slice.
RecordFill(os, i, size, requested, idx) ==
  LET filled == os[i].filled + size
      done   == filled >= requested
      booked == [os[i] EXCEPT !.filled = filled,
                              !.fillIdx = IF @ = -1 THEN idx ELSE @]
      moved  == Note(Move(booked, IF done THEN "Filled" ELSE "PartiallyFilled"), "Filled")
      order  == IF ~done /\ moved.tif = "Ioc" THEN CancelRemainder(moved) ELSE moved
      now    == [os EXCEPT ![i] = order]
  IN  IF done THEN AfterFill(now, i) ELSE now
=============================================================================
