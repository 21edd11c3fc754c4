---------------------------- MODULE KernelProofs ----------------------------
(***************************************************************************)
(* Proofs about one kernel, and about the execution schedules that trade    *)
(* through it, for every set of configurations and plans.  What the        *)
(* operations on one order keep, and from it the type correctness: what-   *)
(* ever the strategy submits and the market does, every order and position *)
(* stays well formed.  Then the ledger: what it never holds, and when a    *)
(* position may open; what a fill does to its order, and what happens to   *)
(* one order from the match pass to the end of its step.  Last, schedules:  *)
(* their slices keep their pace whatever the pace of the events, a stopped *)
(* schedule never trades again, and the slices cut the plan whole and      *)
(* settle on their step.                                                   *)
(***************************************************************************)
EXTENDS Twap, Sums, FiniteSetTheorems

-----------------------------------------------------------------------------
(* One order *)

\* o and p differ only in what became of the order.
SameTerms(o, p) ==
  /\ p.side = o.side /\ p.qty = o.qty /\ p.units = o.units /\ p.kind = o.kind
  /\ p.tif = o.tif /\ p.expire = o.expire /\ p.postOnly = o.postOnly
  /\ p.reduceOnly = o.reduceOnly /\ p.submittedIdx = o.submittedIdx
  /\ p.submittedTs = o.submittedTs /\ p.arrivalTs = o.arrivalTs
  /\ p.parent = o.parent /\ p.oco = o.oco

\* Nor its record of trades.
SameFills(o, p) == SameTerms(o, p) /\ p.filled = o.filled /\ p.fillIdx = o.fillIdx

LEMMA MoveOrder ==
  ASSUME NEW o \in Order, NEW to \in Statuses
  PROVE  Move(o, to) \in Order /\ SameFills(o, Move(o, to))
BY DEF Move, Order, SameFills, SameTerms

LEMMA NoteOrder ==
  ASSUME NEW o \in Order, NEW event \in Notices
  PROVE  /\ Note(o, event) \in Order /\ SameFills(o, Note(o, event))
         /\ Note(o, event).status = o.status
<1>1. Append(o.notices, event) \in Seq(Notices)
  BY DEF Order
<1>2. QED BY <1>1 DEF Note, Order, SameFills, SameTerms

LEMMA SameFillsTransitive ==
  ASSUME NEW o, NEW p, NEW q, SameFills(o, p), SameFills(p, q)
  PROVE  SameFills(o, q)
BY DEF SameFills, SameTerms

LEMMA SameFillsReflexive == \A o : SameFills(o, o)
BY DEF SameFills, SameTerms

LEMMA MovedAndNoted ==
  ASSUME NEW o \in Order, NEW to \in Statuses, NEW event \in Notices
  PROVE  /\ Note(Move(o, to), event) \in Order
         /\ SameFills(o, Note(Move(o, to), event))
BY MoveOrder, NoteOrder, SameFillsTransitive

LEMMA EndedStatuses ==
  /\ {"Canceled", "Rejected", "Accepted", "Triggered", "Expired", "Filled",
      "PartiallyFilled", "Submitted"} \subseteq Statuses
  /\ {"Canceled", "Rejected", "Accepted", "Filled"} \subseteq Notices
BY DEF Statuses, Working, Terminal, Notices

LEMMA CancelWorkingOrder ==
  ASSUME NEW o \in Order
  PROVE  CancelWorking(o) \in Order /\ SameFills(o, CancelWorking(o))
BY MovedAndNoted, EndedStatuses, SameFillsReflexive DEF CancelWorking

LEMMA CancelRemainderOrder ==
  ASSUME NEW o \in Order
  PROVE  CancelRemainder(o) \in Order /\ SameFills(o, CancelRemainder(o))
BY MovedAndNoted, MoveOrder, EndedStatuses DEF CancelRemainder

LEMMA RefusedOrder ==
  ASSUME NEW o \in Order
  PROVE  Refused(o) \in Order /\ SameFills(o, Refused(o))
BY MovedAndNoted, EndedStatuses DEF Refused

LEMMA AcknowledgedOrder ==
  ASSUME NEW o \in Order
  PROVE  Acknowledged(o) \in Order /\ SameFills(o, Acknowledged(o))
BY MovedAndNoted, EndedStatuses DEF Acknowledged

LEMMA AfterVerdictOrder ==
  ASSUME NEW o \in Order, NEW verdict
  PROVE  AfterVerdict(o, verdict) \in Order /\ SameFills(o, AfterVerdict(o, verdict))
BY MoveOrder, EndedStatuses, SameFillsReflexive DEF AfterVerdict

LEMMA VerdictType ==
  ASSUME NEW o, NEW parents, NEW i, NEW t, NEW mode, NEW reach
  PROVE  Verdict(o, parents, i, t, mode, reach) \in Verdicts
BY DEF Verdict, KindVerdict, Verdicts

-----------------------------------------------------------------------------
(* Books of orders *)

\* after_fill changes statuses only.
LEMMA AfterFillOrders ==
  ASSUME NEW D, NEW os \in [D -> Order], NEW k \in D
  PROVE  /\ AfterFill(os, k) \in [D -> Order]
         /\ \A j \in D : SameFills(os[j], AfterFill(os, k)[j])
<1> DEFINE woken == ActivateChildren(os, k)
<1>1. /\ woken \in [D -> Order]
      /\ \A j \in D : SameFills(os[j], woken[j])
  <2> SUFFICES ASSUME NEW j \in D
               PROVE  woken[j] \in Order /\ SameFills(os[j], woken[j])
      BY DEF ActivateChildren
  <2> QED BY AcknowledgedOrder, SameFillsReflexive DEF ActivateChildren
<1> HIDE DEF woken
<1>2. /\ CancelSiblings(woken, k) \in [D -> Order]
      /\ \A j \in D : SameFills(woken[j], CancelSiblings(woken, k)[j])
  <2> SUFFICES ASSUME NEW j \in D
               PROVE  /\ CancelSiblings(woken, k)[j] \in Order
                      /\ SameFills(woken[j], CancelSiblings(woken, k)[j])
      BY <1>1 DEF CancelSiblings
  <2> QED BY <1>1, CancelWorkingOrder, SameFillsReflexive DEF CancelSiblings
<1>3. QED BY <1>1, <1>2, SameFillsTransitive DEF AfterFill, woken

\* record_fill books the size on the one order and changes no other's fills.
LEMMA RecordFillOrders ==
  ASSUME NEW D, NEW os \in [D -> Order], NEW k \in D,
         NEW size \in Nat, NEW requested, NEW n \in Nat
  PROVE  LET rs == RecordFill(os, k, size, requested, n) IN
         /\ rs \in [D -> Order]
         /\ \A j \in D \ {k} : SameFills(os[j], rs[j])
         /\ SameTerms(os[k], rs[k])
         /\ rs[k].filled = os[k].filled + size
         /\ rs[k].fillIdx = IF os[k].fillIdx = -1 THEN n ELSE os[k].fillIdx
<1> DEFINE filled == os[k].filled + size
           done   == filled >= requested
           booked == [os[k] EXCEPT !.filled = filled,
                                   !.fillIdx = IF @ = -1 THEN n ELSE @]
           moved  == Note(Move(booked, IF done THEN "Filled" ELSE "PartiallyFilled"),
                          "Filled")
           order  == IF ~done /\ moved.tif = "Ioc" THEN CancelRemainder(moved) ELSE moved
           now1   == [os EXCEPT ![k] = order]
           rs     == IF done THEN AfterFill(now1, k) ELSE now1
<1>1. RecordFill(os, k, size, requested, n) = rs
  BY DEF RecordFill
<1>2. /\ booked \in Order /\ SameTerms(os[k], booked)
      /\ booked.filled = filled
      /\ booked.fillIdx = IF os[k].fillIdx = -1 THEN n ELSE os[k].fillIdx
  <2>1. os[k] \in Order
    OBVIOUS
  <2>2. filled \in Nat /\ (IF os[k].fillIdx = -1 THEN n ELSE os[k].fillIdx) \in Nat \cup {-1}
    BY <2>1 DEF Order
  <2>3. QED BY <2>1, <2>2 DEF Order, SameTerms
<1> HIDE DEF booked
<1>3. moved \in Order /\ SameFills(booked, moved)
  BY <1>2, MovedAndNoted, EndedStatuses
<1> HIDE DEF moved
<1>4. order \in Order /\ SameFills(booked, order)
  BY <1>3, CancelRemainderOrder, SameFillsTransitive
<1> HIDE DEF order
<1>5. /\ now1 \in [D -> Order] /\ now1[k] = order
      /\ \A j \in D \ {k} : now1[j] = os[j]
  BY <1>4
<1> HIDE DEF now1
<1>6. rs \in [D -> Order] /\ \A j \in D : SameFills(now1[j], rs[j])
  BY <1>5, AfterFillOrders, SameFillsReflexive
<1>7. \A j \in D \ {k} : SameFills(os[j], rs[j])
  BY <1>5, <1>6
<1>8. SameFills(booked, rs[k])
  BY <1>4, <1>5, <1>6, SameFillsTransitive
<1>9. SameTerms(os[k], rs[k]) /\ rs[k].filled = booked.filled /\ rs[k].fillIdx = booked.fillIdx
  BY <1>2, <1>8 DEF SameFills, SameTerms
<1>10. QED BY <1>1, <1>2, <1>6, <1>7, <1>9

-----------------------------------------------------------------------------
(* The state *)

\* Inductive strengthening: the ordinal has room for the step under way.
TypeInv == TypeOK /\ (phase # "observe" => idx < MaxIdx)

LEMMA EarliestIsLeast ==
  ASSUME NEW S, S \subseteq Nat, S # {}
  PROVE  Earliest(S) \in S /\ \A j \in S : Earliest(S) <= j
<1>1. \E i \in S : \A j \in S : ~(<<j, i>> \in OpToRel(<, Nat))
  BY NatLessThanWellFounded, WFMin
<1>2. ASSUME NEW i \in Nat, NEW j \in Nat, j < i
      PROVE  <<j, i>> \in OpToRel(<, Nat)
  BY <1>2 DEF OpToRel
<1>3. PICK i \in S : \A j \in S : ~(<<j, i>> \in OpToRel(<, Nat))
  BY <1>1
<1>4. \A j \in S : ~(j < i)
  BY <1>3, <1>2
<1>5. \A j \in S : i <= j
  BY <1>4
<1>6. QED BY <1>5 DEF Earliest

\* What the assumption on the configurations gives the one in force.
LEMMA ConfigTypes ==
  ASSUME run \in DOMAIN Configs
  PROVE  /\ Hedging \in BOOLEAN /\ NextBarOpen \in BOOLEAN
         /\ MaxPositions \in Nat /\ Latency \in Nat /\ ExpiryTs \in Nat
         /\ LotSize \in Nat \ {0} /\ SignalDirection \in {"Long", "Short"}
         /\ Modes \subseteq {"Bar", "Trade", "Quote"} /\ Templates \subseteq Template
         /\ NewUnits \subseteq Nat \ {0} /\ Volumes \subseteq Nat
         /\ FracUnits \subseteq Nat
         /\ MaxOrders \in Nat /\ MaxIdx \in Nat /\ MaxNow \in Nat
<1>1. Configs[run] \in Config
  BY ConfigAssumption
<1>2. QED
  BY <1>1 DEF Config, Hedging, NextBarOpen, MaxPositions, Latency, ExpiryTs, LotSize,
     SignalDirection, Modes, Templates, NewUnits, Volumes, FracUnits, MaxOrders,
     MaxIdx, MaxNow

LEMMA RunIsFixed == [Next]_vars => UNCHANGED run
<1> USE DEF vars
<1>1. Strategy => UNCHANGED run
  BY DEF Strategy, Submit, LinkOco, Cancel, Modify, RequestClose, ObserveEquity, HaltMargin
<1>2. StartEvent => UNCHANGED run
  BY DEF StartEvent, StepQuote, BeginStep
<1>3. ASSUME NEW i PROVE AnnounceVerdict(i) \/ FillOrder(i) => UNCHANGED run
  BY DEF AnnounceVerdict, FillOrder, LeaveWorking, RefuseFill, KillFill, AddFill,
         OpenFill, CloseFill, FillFrame
<1>4. Step => UNCHANGED run
  BY <1>3 DEF Step, SettleExpiry, FillIntents, Exits, MarginCheck, Match, EndMatch,
         StashEntry, BarredEntry, EnterOnSignal, NoEntry, StartSweep, EndStep
<1>5. QED BY <1>1, <1>2, <1>4 DEF Next, Market

-----------------------------------------------------------------------------
(* Frames: a part whose variables a step leaves alone stays well formed *)

LEMMA BookFrame == ASSUME BookOK, UNCHANGED <<run, bookVars>> PROVE BookOK'
BY DEF BookOK, bookVars, MaxOrders

LEMMA LedgerFrame ==
  ASSUME LedgerOK, UNCHANGED ledgerVars, closes' \subseteq closes
  PROVE  LedgerOK'
BY DEF LedgerOK, ledgerVars

LEMMA ClockFrame == ASSUME ClockOK, UNCHANGED <<run, clockVars>> PROVE ClockOK'
BY DEF ClockOK, clockVars, MaxIdx, MaxNow

LEMMA ClockAdvances ==
  ASSUME TypeOK, idx < MaxIdx, Advance, UNCHANGED run
  PROVE  ClockOK'
BY ConfigTypes DEF TypeOK, ClockOK, Advance, MaxIdx, MaxNow

-----------------------------------------------------------------------------
(* The ledger *)

LEMMA SmallerLedger ==
  ASSUME LedgerOK, UNCHANGED nextPos, closes' \subseteq closes,
         DOMAIN positions' \subseteq DOMAIN positions,
         \A p \in DOMAIN positions' : positions'[p] \in Position
  PROVE  LedgerOK'
BY DEF LedgerOK

LEMMA ClosedLedger ==
  ASSUME LedgerOK, UNCHANGED nextPos, closes' \subseteq closes,
         NEW S, positions' = Closed(S)
  PROVE  LedgerOK'
<1>1. DOMAIN positions' \subseteq DOMAIN positions
  BY DEF Closed, Without
<1>2. \A p \in DOMAIN positions' : positions'[p] = positions[p]
  BY DEF Closed, Without
<1>3. QED BY <1>1, <1>2, SmallerLedger DEF LedgerOK

LEMMA GrownLedger ==
  ASSUME LedgerOK, nextPos' = nextPos + 1, closes' = closes,
         NEW ledger,
         DOMAIN ledger \subseteq DOMAIN positions,
         \A p \in DOMAIN ledger : ledger[p] = positions[p],
         NEW direction \in {"Long", "Short"}, NEW size \in Nat \ {0},
         positions' = Opened(ledger, direction, size)
  PROVE  LedgerOK'
<1>1. DOMAIN positions' = DOMAIN ledger \cup {nextPos}
  BY DEF Opened
<1>2. ASSUME NEW p \in DOMAIN positions'
      PROVE  positions'[p] \in Position
  BY <1>1, <1>2 DEF Opened, Position, LedgerOK
<1>3. QED BY <1>1, <1>2 DEF LedgerOK

LEMMA FirstIsOpen ==
  ASSUME LedgerOK, ~Flat
  PROVE  FirstPosition \in DOMAIN positions /\ positions[FirstPosition] \in Position
<1>1. DOMAIN positions \subseteq Nat /\ DOMAIN positions # {}
  BY DEF LedgerOK, Flat
<1>2. QED BY <1>1, EarliestIsLeast DEF LedgerOK, FirstPosition

-----------------------------------------------------------------------------
(* The strategy's commands *)

LEMMA SubmitType ==
  ASSUME TypeInv, NEW t \in Templates, NEW parent \in DOMAIN orders \cup {NoOrder},
         NEW stamp \in 0..idx, Submit(t, parent, stamp)
  PROVE  TypeInv'
<1> USE DEF TypeInv, TypeOK
<1> DEFINE plain == [side |-> t.side, qty |-> t.qty, units |-> t.units,
                     kind |-> t.kind, tif |-> t.tif, expire |-> t.expire,
                     postOnly |-> t.postOnly, reduceOnly |-> t.reduceOnly,
                     status |-> "Submitted", submittedIdx |-> stamp,
                     submittedTs |-> now, arrivalTs |-> now + Latency,
                     parent |-> parent, oco |-> NoOrder,
                     filled |-> 0, faulted |-> FALSE, notices |-> <<>>,
                     fillIdx |-> -1]
           order == IF Rests(t) /\ parent = NoOrder THEN Acknowledged(plain) ELSE plain
<1>1. /\ nextId \in Nat /\ nextId < MaxOrders /\ nextId' = nextId + 1
      /\ MaxOrders' = MaxOrders /\ MaxOrders \in Nat
      /\ DOMAIN orders = 0..(nextId - 1)
  BY ConfigTypes DEF Submit, BookOK, MaxOrders
<1>2. plain \in Order
  <2>1. t \in Template /\ Latency \in Nat
    BY ConfigTypes
  <2>2. now \in Nat /\ stamp \in Nat /\ now + Latency \in Nat
    BY <2>1, ConfigTypes DEF ClockOK
  <2>3. parent \in Nat \cup {NoOrder}
    BY <1>1
  <2>4. "Submitted" \in Statuses /\ <<>> \in Seq(Notices) /\ -1 \in Nat \cup {-1}
    BY DEF Statuses, Working
  <2>5. QED BY <2>1, <2>2, <2>3, <2>4 DEF Template, Order
<1>3. plain.parent = parent
  OBVIOUS
<1> HIDE DEF plain
<1>4. order \in Order /\ order.parent = parent
  BY <1>2, <1>3, AcknowledgedOrder DEF SameFills, SameTerms
<1>5. orders' = [i \in DOMAIN orders \cup {nextId} |->
                  IF i = nextId THEN order ELSE orders[i]]
  BY DEF Submit, plain
<1> HIDE DEF order
<1>6. DOMAIN orders \cup {nextId} = 0..nextId
  BY <1>1
<1>7. orders' \in [0..(nextId' - 1) -> Order]
  BY <1>1, <1>4, <1>5, <1>6 DEF BookOK
<1>8. ASSUME NEW i \in DOMAIN orders', orders'[i].parent # NoOrder
      PROVE  orders'[i].parent < i
  BY <1>1, <1>4, <1>5, <1>6, <1>8, NoOrderAssumption DEF BookOK
<1>9. BookOK'
  BY <1>1, <1>7, <1>8 DEF BookOK
<1>10. LedgerOK' /\ ClockOK'
  BY LedgerFrame, ClockFrame DEF Submit
<1>11. StepOK'
  BY <1>5 DEF StepOK, Submit, stepVars
<1>12. QED BY <1>9, <1>10, <1>11 DEF Submit, gateVars

\* A command that maps the book order by order keeps it well formed.
LEMMA MappedBook ==
  ASSUME BookOK, UNCHANGED <<run, nextId>>,
         DOMAIN orders' = DOMAIN orders, orders' \in [DOMAIN orders -> Order],
         \A i \in DOMAIN orders : orders'[i].parent = orders[i].parent
  PROVE  BookOK'
BY DEF BookOK, MaxOrders

LEMMA CancelType ==
  ASSUME TypeInv, NEW ids, Cancel(ids)
  PROVE  TypeInv'
<1> USE DEF TypeInv, TypeOK
<1>1. ASSUME NEW i \in DOMAIN orders
      PROVE  orders'[i] \in Order /\ orders'[i].parent = orders[i].parent
  BY CancelWorkingOrder DEF Cancel, BookOK, SameFills, SameTerms
<1>2. DOMAIN orders' = DOMAIN orders /\ orders' \in [DOMAIN orders -> Order]
  BY <1>1 DEF Cancel
<1>3. BookOK'
  BY <1>1, <1>2, MappedBook DEF Cancel
<1>4. LedgerOK' /\ ClockOK'
  BY LedgerFrame, ClockFrame DEF Cancel
<1>5. QED BY <1>2, <1>3, <1>4 DEF Cancel, StepOK, stepVars, gateVars

LEMMA LinkOcoType ==
  ASSUME TypeInv, NEW group \in SUBSET DOMAIN orders, LinkOco(group)
  PROVE  TypeInv'
<1> USE DEF TypeInv, TypeOK
<1>1. ASSUME NEW i \in DOMAIN orders
      PROVE  orders'[i] \in Order /\ orders'[i].parent = orders[i].parent
  <2>1. i \in group => Earliest(group) \in Nat
    <3>1. group \subseteq Nat
      BY DEF BookOK
    <3>2. QED BY <3>1, EarliestIsLeast
  <2>2. orders[i] \in Order
    BY DEF BookOK
  <2>3. QED BY <2>1, <2>2 DEF LinkOco, Order
<1>2. DOMAIN orders' = DOMAIN orders /\ orders' \in [DOMAIN orders -> Order]
  BY <1>1 DEF LinkOco
<1>3. BookOK'
  BY <1>1, <1>2, MappedBook DEF LinkOco
<1>4. LedgerOK' /\ ClockOK'
  BY LedgerFrame, ClockFrame DEF LinkOco
<1>5. QED BY <1>2, <1>3, <1>4 DEF LinkOco, StepOK, stepVars, gateVars

LEMMA ModifyType ==
  ASSUME TypeInv, NEW i, NEW units \in NewUnits, Modify(i, units)
  PROVE  TypeInv'
<1> USE DEF TypeInv, TypeOK
<1>1. units \in Nat
  BY ConfigTypes
<1>2. i \in DOMAIN orders /\ orders[i] \in Order
  BY DEF Modify, BookOK
<1>3. orders' = [orders EXCEPT ![i] = [orders[i] EXCEPT !.units = units, !.qty = "Units"]]
  BY <1>2 DEF Modify, BookOK
<1>4. LET o == [orders[i] EXCEPT !.units = units, !.qty = "Units"]
      IN  o \in Order /\ o.parent = orders[i].parent
  BY <1>1, <1>2 DEF Order
<1>5. /\ DOMAIN orders' = DOMAIN orders /\ orders' \in [DOMAIN orders -> Order]
      /\ \A j \in DOMAIN orders : orders'[j].parent = orders[j].parent
  BY <1>2, <1>3, <1>4 DEF BookOK
<1>6. BookOK'
  BY <1>5, MappedBook DEF Modify
<1>7. LedgerOK' /\ ClockOK'
  BY LedgerFrame, ClockFrame DEF Modify
<1>8. QED BY <1>5, <1>6, <1>7 DEF Modify, StepOK, stepVars, gateVars

LEMMA StrategyType == ASSUME TypeInv, Strategy PROVE TypeInv'
<1> USE DEF TypeInv, TypeOK
<1>1. ASSUME NEW p, RequestClose(p)
      PROVE  TypeInv'
  <2>1. BookOK' /\ ClockOK'
    BY <1>1, BookFrame, ClockFrame DEF RequestClose
  <2>2. LedgerOK'
    BY <1>1 DEF RequestClose, LedgerOK, ledgerVars
  <2>3. QED BY <1>1, <2>1, <2>2 DEF RequestClose, StepOK, stepVars, bookVars, gateVars
<1>2. CASE ObserveEquity \/ HaltMargin
  <2>1. BookOK' /\ ClockOK' /\ LedgerOK'
    BY <1>2, BookFrame, ClockFrame, LedgerFrame DEF ObserveEquity, HaltMargin
  <2>2. QED BY <1>2, <2>1 DEF ObserveEquity, HaltMargin, StepOK, stepVars, bookVars
<1>3. QED BY <1>1, <1>2, SubmitType, CancelType, LinkOcoType, ModifyType DEF Strategy

-----------------------------------------------------------------------------
(* The step *)

LEMMA StartType == ASSUME TypeInv, StartEvent PROVE TypeInv'
<1> USE DEF TypeInv, TypeOK
<1>1. CASE StepQuote
  <2>1. BookOK' /\ LedgerOK' /\ ClockOK'
    BY <1>1, BookFrame, LedgerFrame, ClockAdvances DEF StepQuote
  <2>2. QED BY <1>1, <2>1 DEF StepQuote, StepOK, stepVars, bookVars, gateVars
<1>2. ASSUME NEW mode \in Modes, NEW volume \in Volumes \cup {0},
             NEW entry \in BOOLEAN, NEW exit \in BOOLEAN,
             BeginStep(mode, volume, entry, exit)
      PROVE  TypeInv'
  <2>1. BookOK' /\ LedgerOK' /\ ClockOK'
    BY <1>2, BookFrame, LedgerFrame, ClockFrame DEF BeginStep
  <2>2. mode \in {"Bar", "Trade"} /\ volume \in Nat
    BY <1>2, ConfigTypes DEF BeginStep
  <2>3. StepOK'
    BY <1>2, <2>2 DEF BeginStep, StepOK, bookVars, Phases
  <2>4. idx' < MaxIdx'
    BY <1>2 DEF BeginStep, clockVars, MaxIdx
  <2>5. QED BY <1>2, <2>1, <2>3, <2>4 DEF BeginStep, gateVars
<1>3. QED BY <1>1, <1>2 DEF StartEvent

LEMMA SettleExpiryType == ASSUME TypeInv, SettleExpiry PROVE TypeInv'
<1> USE DEF TypeInv, TypeOK
<1>1. /\ DOMAIN orders' = DOMAIN orders /\ orders' \in [DOMAIN orders -> Order]
      /\ \A i \in DOMAIN orders : orders'[i].parent = orders[i].parent
  <2>1. ASSUME NEW i \in DOMAIN orders
        PROVE  orders'[i] \in Order /\ orders'[i].parent = orders[i].parent
    BY CancelWorkingOrder DEF SettleExpiry, BookOK, SameFills, SameTerms
  <2>2. QED BY <2>1 DEF SettleExpiry
<1>2. BookOK'
  BY <1>1, MappedBook DEF SettleExpiry
<1>3. LedgerOK'
  BY ClosedLedger DEF SettleExpiry, Emptied
<1>4. ClockOK'
  BY ClockAdvances DEF SettleExpiry, FinishStep
<1>5. StepOK'
  BY <1>1 DEF SettleExpiry, FinishStep, StepOK, NoBar, NoIntent, Phases
<1>6. QED BY <1>2, <1>3, <1>4, <1>5 DEF SettleExpiry, FinishStep, gateVars

LEMMA FillIntentsType == ASSUME TypeInv, FillIntents PROVE TypeInv'
<1> USE DEF TypeInv, TypeOK
<1> DEFINE kept == IF bar.mode = "Bar" /\ deferred.exit THEN Emptied ELSE positions
<1>1. /\ DOMAIN kept \subseteq DOMAIN positions
      /\ \A p \in DOMAIN kept : kept[p] = positions[p]
  BY DEF Emptied, Closed, Without
<1>2. LedgerOK'
  <2>1. CASE positions' = kept /\ UNCHANGED nextPos
    BY <1>1, <2>1, SmallerLedger DEF FillIntents, LedgerOK
  <2>2. CASE \E size \in Affordable :
               /\ positions' = Opened(kept, SignalDirection, size)
               /\ nextPos' = nextPos + 1
    <3>1. PICK size \in Affordable :
            /\ positions' = Opened(kept, SignalDirection, size)
            /\ nextPos' = nextPos + 1
      BY <2>2
    <3>2. size \in Nat \ {0} /\ SignalDirection \in {"Long", "Short"}
      BY ConfigTypes DEF Affordable
    <3> HIDE DEF kept
    <3>3. QED BY <1>1, <3>1, <3>2, GrownLedger DEF FillIntents
  <2>3. QED BY <2>1, <2>2 DEF FillIntents
<1>3. BookOK' /\ ClockOK'
  BY BookFrame, ClockFrame DEF FillIntents
<1>4. StepOK' /\ idx' < MaxIdx'
  BY DEF FillIntents, StepOK, stepVars, bookVars, clockVars, NoIntent, Phases, MaxIdx
<1>5. QED BY <1>2, <1>3, <1>4 DEF FillIntents, gateVars

LEMMA ExitsType == ASSUME TypeInv, NEW hit, Exits(hit) PROVE TypeInv'
<1> USE DEF TypeInv, TypeOK
<1>1. LedgerOK'
  BY ClosedLedger DEF Exits
<1>2. BookOK' /\ ClockOK'
  BY BookFrame, ClockFrame DEF Exits
<1>3. deferred' \in [entry: BOOLEAN, exit: BOOLEAN]
  BY DEF Exits, StepOK
<1>4. StepOK' /\ idx' < MaxIdx'
  BY <1>3 DEF Exits, StepOK, stepVars, bookVars, clockVars, Phases, MaxIdx
<1>5. QED BY <1>1, <1>2, <1>4 DEF Exits, gateVars

LEMMA MarginCheckType ==
  ASSUME TypeInv, NEW breach \in BOOLEAN, MarginCheck(breach) PROVE TypeInv'
<1> USE DEF TypeInv, TypeOK
<1>1. LedgerOK'
  <2>1. CASE positions' = positions
    BY <2>1, SmallerLedger DEF MarginCheck, LedgerOK
  <2>2. CASE positions' = Emptied
    BY <2>2, ClosedLedger DEF MarginCheck, Emptied
  <2>3. QED BY <2>1, <2>2 DEF MarginCheck
<1>2. BookOK' /\ ClockOK'
  BY BookFrame, ClockFrame DEF MarginCheck
<1>3. StepOK' /\ idx' < MaxIdx' /\ halted' \in BOOLEAN
  BY DEF MarginCheck, StepOK, stepVars, bookVars, clockVars, Phases, MaxIdx
<1>4. QED BY <1>1, <1>2, <1>3 DEF MarginCheck

LEMMA MatchType == ASSUME TypeInv, NEW reach, Match(reach) PROVE TypeInv'
<1> USE DEF TypeInv, TypeOK
<1>1. DOMAIN verdicts' = DOMAIN orders /\ \A i \in DOMAIN orders : verdicts'[i] \in Verdicts
  BY VerdictType DEF Match
<1>2. ASSUME NEW i \in DOMAIN orders
      PROVE  orders'[i] \in Order /\ orders'[i].parent = orders[i].parent
  <2>1. orders[i] \in Order /\ orders'[i] = AfterVerdict(orders[i], verdicts'[i])
    BY DEF Match, BookOK
  <2>2. QED BY <2>1, AfterVerdictOrder DEF SameFills, SameTerms
<1>3. DOMAIN orders' = DOMAIN orders /\ orders' \in [DOMAIN orders -> Order]
  BY <1>2 DEF Match
<1>4. BookOK'
  BY <1>2, <1>3, MappedBook DEF Match
<1>5. LedgerOK' /\ ClockOK'
  BY LedgerFrame, ClockFrame DEF Match
<1>6. StepOK' /\ idx' < MaxIdx'
  BY <1>1, <1>3 DEF Match, StepOK, clockVars, Phases, MaxIdx
<1>7. QED BY <1>4, <1>5, <1>6 DEF Match, gateVars

LEMMA AnnounceType ==
  ASSUME TypeInv, NEW i \in DOMAIN orders, AnnounceVerdict(i) PROVE TypeInv'
<1> USE DEF TypeInv, TypeOK
<1>1. orders[i] \in Order /\ verdicts[i] \in {"trigger", "expire", "cancel", "reject"}
  BY DEF AnnounceVerdict, Due, Pending, BookOK, StepOK, Verdicts
<1>2. Announced[verdicts[i]] \in Notices
  BY <1>1 DEF Announced, Notices
<1>3. /\ DOMAIN orders' = DOMAIN orders /\ orders' \in [DOMAIN orders -> Order]
      /\ \A j \in DOMAIN orders : orders'[j].parent = orders[j].parent
  <2>1. LET o == Note(orders[i], Announced[verdicts[i]])
        IN  o \in Order /\ o.parent = orders[i].parent
    BY <1>1, <1>2, NoteOrder DEF SameFills, SameTerms
  <2>2. orders' = [orders EXCEPT ![i] = Note(orders[i], Announced[verdicts[i]])]
    BY DEF AnnounceVerdict
  <2>3. QED BY <2>1, <2>2 DEF BookOK
<1>4. BookOK'
  BY <1>3, MappedBook DEF AnnounceVerdict
<1>5. LedgerOK' /\ ClockOK'
  BY LedgerFrame, ClockFrame DEF AnnounceVerdict
<1>6. StepOK' /\ (phase' # "observe" => idx' < MaxIdx')
  BY <1>3 DEF AnnounceVerdict, StepOK, clockVars, MaxIdx, Verdicts
<1>7. QED BY <1>4, <1>5, <1>6 DEF AnnounceVerdict, gateVars

LEMMA SignalType ==
  ASSUME TypeInv, EndMatch \/ StashEntry \/ BarredEntry \/ NoEntry \/ EndStep
  PROVE  TypeInv'
<1> USE DEF TypeInv, TypeOK
<1>1. BookOK' /\ LedgerOK'
  BY BookFrame, LedgerFrame DEF EndMatch, StashEntry, BarredEntry, NoEntry, EndStep
<1>2. ClockOK'
  BY ClockFrame, ClockAdvances
  DEF EndMatch, StashEntry, BarredEntry, NoEntry, EndStep, FinishStep
<1>3. deferred' \in [entry: BOOLEAN, exit: BOOLEAN]
  <2>1. CASE StashEntry
    BY <2>1 DEF StashEntry, StepOK
  <2>2. CASE ~StashEntry
    BY <2>2 DEF EndMatch, BarredEntry, NoEntry, EndStep, StepOK
  <2>3. QED BY <2>1, <2>2
<1>4. StepOK' /\ (phase' # "observe" => idx' < MaxIdx')
  <2>1. CASE StashEntry
    BY <1>3, <2>1 DEF StashEntry, StepOK, stepVars, bookVars, clockVars, Phases, MaxIdx
  <2>2. CASE EndMatch \/ NoEntry
    BY <1>3, <2>2 DEF EndMatch, NoEntry, StepOK, stepVars, bookVars, clockVars, Phases, MaxIdx
  <2>3. CASE BarredEntry \/ EndStep
    <3>1. phase' = "observe" /\ bar' = NoBar
      BY <2>3 DEF BarredEntry, EndStep, FinishStep
    <3>2. UNCHANGED <<orders, verdicts, sweep>>
      BY <2>3 DEF BarredEntry, EndStep, bookVars
    <3>3. bar' \in [mode: {"None", "Bar", "Trade"}, volume: Nat, entry: BOOLEAN, exit: BOOLEAN]
      BY <3>1 DEF NoBar
    <3>4. QED BY <1>3, <3>1, <3>2, <3>3 DEF StepOK, Phases
  <2>4. QED BY <2>1, <2>2, <2>3
<1>5. halted' \in BOOLEAN /\ riskHalted' \in BOOLEAN
  BY DEF EndMatch, StashEntry, BarredEntry, NoEntry, EndStep, gateVars, StepOK
<1>6. run' \in DOMAIN Configs
  BY DEF EndMatch, StashEntry, BarredEntry, NoEntry, EndStep
<1>7. TypeOK'
  BY <1>1, <1>2, <1>4, <1>5, <1>6
<1>8. QED BY <1>4, <1>7

LEMMA EnterOnSignalType ==
  ASSUME TypeInv, NEW size \in Affordable, EnterOnSignal(size) PROVE TypeInv'
<1> USE DEF TypeInv, TypeOK
<1>1. size \in Nat \ {0} /\ SignalDirection \in {"Long", "Short"}
  BY ConfigTypes DEF Affordable
<1>2. LedgerOK'
  BY <1>1, GrownLedger DEF EnterOnSignal
<1>3. BookOK' /\ ClockOK'
  BY BookFrame, ClockFrame DEF EnterOnSignal
<1>4. StepOK' /\ idx' < MaxIdx'
  BY DEF EnterOnSignal, StepOK, stepVars, bookVars, clockVars, Phases, MaxIdx
<1>5. QED BY <1>2, <1>3, <1>4 DEF EnterOnSignal, gateVars

LEMMA StartSweepType == ASSUME TypeInv, StartSweep PROVE TypeInv'
<1> USE DEF TypeInv, TypeOK
<1>1. ASSUME NEW i \in DOMAIN orders
      PROVE  orders'[i] \in Order /\ orders'[i].parent = orders[i].parent
  BY AcknowledgedOrder DEF StartSweep, BookOK, SameFills, SameTerms
<1>2. DOMAIN orders' = DOMAIN orders /\ orders' \in [DOMAIN orders -> Order]
  BY <1>1 DEF StartSweep
<1>3. BookOK'
  BY <1>1, <1>2, MappedBook DEF StartSweep
<1>4. LedgerOK' /\ ClockOK'
  BY LedgerFrame, ClockFrame DEF StartSweep
<1>5. StepOK' /\ idx' < MaxIdx'
  BY <1>2 DEF StartSweep, StepOK, clockVars, Phases, MaxIdx
<1>6. QED BY <1>3, <1>4, <1>5 DEF StartSweep, gateVars

-----------------------------------------------------------------------------
(* Filling one order *)

\* A fill that leaves a well-formed book and ledger leaves a typed state.
LEMMA FillFrameType ==
  ASSUME TypeInv, NEW i \in DOMAIN orders, FillFrame(i), LedgerOK',
         orders' \in [DOMAIN orders -> Order],
         \A j \in DOMAIN orders : orders'[j].parent = orders[j].parent
  PROVE  TypeInv'
<1> USE DEF TypeInv, TypeOK
<1>1. BookOK' /\ ClockOK'
  BY MappedBook, ClockFrame DEF FillFrame
<1>2. StepOK' /\ (phase' # "observe" => idx' < MaxIdx')
  BY DEF FillFrame, StepOK, clockVars, MaxIdx, Verdicts
<1>3. QED BY <1>1, <1>2 DEF FillFrame, gateVars

LEMMA PresentedOrder ==
  ASSUME BookOK, NEW i \in DOMAIN orders
  PROVE  /\ orders[i] \in Order /\ Presented(i) \in Order
         /\ SameFills(orders[i], Presented(i))
         /\ Book(i) \in [DOMAIN orders -> Order]
         /\ Book(i)[i] = Presented(i)
         /\ \A j \in DOMAIN orders \ {i} : Book(i)[j] = orders[j]
<1>1. orders \in [DOMAIN orders -> Order] /\ orders[i] \in Order
  BY DEF BookOK
<1>2. Presented(i) \in Order /\ SameFills(orders[i], Presented(i))
  BY <1>1, AcknowledgedOrder, SameFillsReflexive DEF Presented
<1>3. QED BY <1>1, <1>2 DEF Book

\* Replacing one order by a version of itself.
LEMMA OneOrderChanged ==
  ASSUME BookOK, NEW i \in DOMAIN orders, NEW o \in Order,
         SameFills(orders[i], o), orders' = [orders EXCEPT ![i] = o]
  PROVE  /\ orders' \in [DOMAIN orders -> Order]
         /\ \A j \in DOMAIN orders : orders'[j].parent = orders[j].parent
BY DEF BookOK, SameFills, SameTerms

LEMMA UntradedType ==
  ASSUME TypeInv, NEW i \in DOMAIN orders,
         LeaveWorking(i) \/ RefuseFill(i) \/ KillFill(i)
  PROVE  TypeInv'
<1> USE DEF TypeInv, TypeOK
<1>1. Presented(i) \in Order /\ SameFills(orders[i], Presented(i))
  BY PresentedOrder
<1>2. \E o \in Order : SameFills(orders[i], o) /\ orders' = [orders EXCEPT ![i] = o]
  BY <1>1, RefusedOrder, CancelRemainderOrder, SameFillsTransitive
  DEF LeaveWorking, RefuseFill, KillFill, Book
<1>3. LedgerOK'
  BY LedgerFrame DEF LeaveWorking, RefuseFill, KillFill, FillFrame
<1>4. QED
  BY <1>2, <1>3, OneOrderChanged, FillFrameType DEF LeaveWorking, RefuseFill, KillFill

\* A slice that trades is a positive number of units.
LEMMA SlicePositive ==
  ASSUME TypeInv, NEW i, NEW o \in Order, Sized(o, i), Trades(o, i)
  PROVE  Slice(Wanted(o)) \in Nat \ {0}
<1>1. Wanted(o) \in Int
  <2>1. CASE Opens(o)
    BY <2>1 DEF Wanted, Order
  <2>2. CASE ~Opens(o)
    <3>1. ~Flat
      BY <2>2 DEF Sized, Adding, Opening, Closing
    <3>2. positions[FirstPosition].size \in Nat
      BY <3>1, FirstIsOpen DEF TypeInv, TypeOK, Position
    <3>3. QED BY <2>2, <3>2 DEF Wanted, Order
  <2>3. QED BY <2>1, <2>2
<1>2. Slice(Wanted(o)) \in Int
  BY <1>1 DEF Slice, TypeInv, TypeOK, StepOK
<1>3. QED BY <1>2 DEF Trades, NothingWanted

LEMMA LotsInt == ASSUME TypeInv, NEW n \in Int PROVE Lots(n) \in Int
<1>1. LotSize \in Nat \ {0}
  BY ConfigTypes DEF TypeInv, TypeOK
<1>2. n \div LotSize \in Int
  BY <1>1
<1>3. QED BY <1>1, <1>2 DEF Lots

\* The book a recorded fill leaves is the filled order's and no other's.
LEMMA RecordedBook ==
  ASSUME TypeInv, NEW i \in DOMAIN orders, NEW size \in Nat, NEW requested,
         orders' = RecordFill(Book(i), i, size, requested, idx)
  PROVE  /\ orders' \in [DOMAIN orders -> Order]
         /\ \A j \in DOMAIN orders : SameTerms(orders[j], orders'[j])
         /\ \A j \in DOMAIN orders \ {i} : SameFills(orders[j], orders'[j])
         /\ orders'[i].filled = orders[i].filled + size
         /\ orders'[i].fillIdx = IF orders[i].fillIdx = -1 THEN idx ELSE orders[i].fillIdx
<1>1. BookOK /\ idx \in Nat
  BY ConfigTypes DEF TypeInv, TypeOK, ClockOK
<1>2. LET b == Book(i) IN
      /\ b \in [DOMAIN orders -> Order]
      /\ \A j \in DOMAIN orders : SameFills(orders[j], b[j])
      /\ \A j \in DOMAIN orders \ {i} : b[j] = orders[j]
  BY <1>1, PresentedOrder, SameFillsReflexive
<1> DEFINE b == Book(i)
           D == DOMAIN orders
<1>3. /\ orders' \in [D -> Order]
      /\ \A j \in D \ {i} : SameFills(b[j], orders'[j])
      /\ SameTerms(b[i], orders'[i])
      /\ orders'[i].filled = b[i].filled + size
      /\ orders'[i].fillIdx = IF b[i].fillIdx = -1 THEN idx ELSE b[i].fillIdx
  <2> HIDE DEF b, D
  <2>1. b \in [D -> Order] /\ i \in D /\ orders' = RecordFill(b, i, size, requested, idx)
    BY <1>2 DEF b, D
  <2>2. QED BY <1>1, <2>1, RecordFillOrders
<1>4. QED BY <1>2, <1>3 DEF SameFills, SameTerms

LEMMA AddFillType ==
  ASSUME TypeInv, NEW i \in DOMAIN orders, AddFill(i) PROVE TypeInv'
<1> USE DEF TypeInv, TypeOK
<1> DEFINE o == Presented(i)
           size == Lots(Slice(Wanted(o)))
<1>1. o \in Order /\ Adding(o, i) /\ Trades(o, i) /\ Sized(o, i)
  BY PresentedOrder DEF AddFill, Sized
<1>2. size \in Nat \ {0}
  BY <1>1, SlicePositive, LotsInt DEF AddFill
<1>3. /\ orders' \in [DOMAIN orders -> Order]
      /\ \A j \in DOMAIN orders : orders'[j].parent = orders[j].parent
  BY <1>2, RecordedBook DEF AddFill, SameTerms
<1>4. FirstPosition \in DOMAIN positions /\ positions[FirstPosition] \in Position
  BY <1>1, FirstIsOpen DEF Adding, AddsTo
<1>5. positions' = [positions EXCEPT ![FirstPosition].size = @ + size]
  BY DEF AddFill, Added
<1> HIDE DEF size, o
<1>6. \A p \in DOMAIN positions' : positions'[p] \in Position
  BY <1>2, <1>4, <1>5 DEF LedgerOK, Position
<1>7. LedgerOK'
  BY <1>5, <1>6, SmallerLedger DEF AddFill, FillFrame
<1>8. QED BY <1>3, <1>7, FillFrameType DEF AddFill

LEMMA OpenFillType ==
  ASSUME TypeInv, NEW i \in DOMAIN orders, OpenFill(i) PROVE TypeInv'
<1> USE DEF TypeInv, TypeOK
<1> DEFINE o == Presented(i)
<1>1. PICK size \in (IF o.qty = "Units" THEN {Lots(Slice(Wanted(o)))} ELSE Affordable) :
        /\ size > 0
        /\ positions' = OpenedBy(i, DirectionOf(o), size)
        /\ orders' = RecordFill(Book(i), i, size,
                                IF o.qty = "Units" THEN o.units ELSE size, idx)
  BY DEF OpenFill
<1>2. o \in Order /\ Opening(o, i) /\ Trades(o, i)
  BY PresentedOrder DEF OpenFill
<1>3. size \in Nat \ {0}
  <2>1. CASE o.qty = "Units"
    <3>1. Slice(Wanted(o)) \in Nat
      BY <1>2, <2>1, SlicePositive DEF Sized
    <3>2. QED BY <1>1, <2>1, <3>1, LotsInt
  <2>2. CASE o.qty # "Units"
    BY <1>1, <2>2, ConfigTypes DEF Affordable
  <2>3. QED BY <2>1, <2>2
<1>4. /\ orders' \in [DOMAIN orders -> Order]
      /\ \A j \in DOMAIN orders : orders'[j].parent = orders[j].parent
  BY <1>1, <1>3, RecordedBook DEF SameTerms
<1> DEFINE ledger == Opened(positions, DirectionOf(o), size)
<1>5. /\ DOMAIN ledger = DOMAIN positions \cup {nextPos}
      /\ \A p \in DOMAIN ledger : ledger[p] \in Position
  BY <1>3 DEF Opened, DirectionOf, Position, LedgerOK
<1>6. positions' = [ledger EXCEPT ![Earliest(DOMAIN ledger)].entryOrder = i]
  BY <1>1 DEF OpenedBy
<1> HIDE DEF ledger, o
<1>7. i \in Nat
  BY DEF BookOK
<1>8. /\ DOMAIN positions' = DOMAIN positions \cup {nextPos}
      /\ \A p \in DOMAIN positions' : positions'[p] \in Position
  BY <1>5, <1>6, <1>7 DEF Position
<1>9. LedgerOK'
  BY <1>8 DEF OpenFill, FillFrame, LedgerOK
<1>10. QED BY <1>4, <1>9, FillFrameType DEF OpenFill

LEMMA CloseFillType ==
  ASSUME TypeInv, NEW i \in DOMAIN orders, CloseFill(i) PROVE TypeInv'
<1> USE DEF TypeInv, TypeOK
<1> DEFINE o == Presented(i)
           size == Slice(Wanted(o))
<1>1. o \in Order /\ Closing(o) /\ Trades(o, i) /\ Sized(o, i)
  BY PresentedOrder DEF CloseFill, Sized
<1>2. size \in Nat \ {0}
  BY <1>1, SlicePositive
<1>3. /\ orders' \in [DOMAIN orders -> Order]
      /\ \A j \in DOMAIN orders : orders'[j].parent = orders[j].parent
  BY <1>2, RecordedBook DEF CloseFill, SameTerms
<1>4. FirstPosition \in DOMAIN positions /\ positions[FirstPosition] \in Position
  BY <1>1, FirstIsOpen DEF Closing
<1>5. positions' = Reduced(FirstPosition, size)
  BY DEF CloseFill
<1> HIDE DEF size, o
<1>6. /\ DOMAIN positions' \subseteq DOMAIN positions
      /\ \A p \in DOMAIN positions' : positions'[p] \in Position
  <2>1. CASE size >= positions[FirstPosition].size
    BY <1>5, <2>1 DEF Reduced, Closed, Without, LedgerOK
  <2>2. CASE ~(size >= positions[FirstPosition].size)
    BY <1>2, <1>4, <1>5, <2>2 DEF Reduced, LedgerOK, Position
  <2>3. QED BY <2>1, <2>2
<1>7. LedgerOK'
  BY <1>6, SmallerLedger DEF CloseFill, FillFrame
<1>8. QED BY <1>3, <1>7, FillFrameType DEF CloseFill

-----------------------------------------------------------------------------
(* Type correctness *)

LEMMA InitType == ASSUME Init PROVE TypeInv
<1>1. MaxOrders \in Nat /\ MaxIdx \in Nat /\ MaxNow \in Nat
  BY ConfigTypes DEF Init
<1>2. BookOK /\ LedgerOK /\ ClockOK
  BY <1>1 DEF Init, BookOK, LedgerOK, ClockOK
<1>3. bar = NoBar /\ NoBar.mode = "None"
      /\ NoBar \in [mode: {"None", "Bar", "Trade"}, volume: Nat, entry: BOOLEAN, exit: BOOLEAN]
  BY DEF Init, NoBar
<1>4. StepOK
  BY <1>3 DEF Init, StepOK, NoIntent, Phases
<1>5. QED BY <1>2, <1>4 DEF Init, TypeInv, TypeOK

LEMMA NextType == ASSUME TypeInv, [Next]_vars PROVE TypeInv'
<1>1. CASE UNCHANGED vars
  <2>1. BookOK' /\ LedgerOK' /\ ClockOK'
    BY <1>1, BookFrame, LedgerFrame, ClockFrame DEF TypeInv, TypeOK, vars
  <2>2. QED BY <1>1, <2>1
        DEF TypeInv, TypeOK, StepOK, vars, bookVars, stepVars, clockVars, gateVars, MaxIdx
<1>2. CASE Strategy
  BY <1>2, StrategyType
<1>3. CASE StartEvent
  BY <1>3, StartType
<1>4. CASE Step
  <2>1. ASSUME NEW i \in DOMAIN orders, FillOrder(i)
        PROVE  TypeInv'
    BY <2>1, UntradedType, AddFillType, OpenFillType, CloseFillType DEF FillOrder
  <2>2. QED
    BY <1>4, <2>1, SettleExpiryType, FillIntentsType, ExitsType, MarginCheckType,
       MatchType, AnnounceType, SignalType, EnterOnSignalType, StartSweepType DEF Step
<1>5. QED BY <1>1, <1>2, <1>3, <1>4 DEF Next, Market

\* Every state of every run is well formed.
THEOREM TypeCorrect == Spec => []TypeInv
BY InitType, NextType, PTL DEF Spec

\* The type invariant the runs check follows.
THEOREM TypesHold == Spec => []TypeOK
<1>1. TypeInv => TypeOK
  BY DEF TypeInv
<1>2. QED BY <1>1, TypeCorrect, PTL

-----------------------------------------------------------------------------
(* The ledger's operators *)

LEMMA OpenedDomain ==
  ASSUME NEW ledger, NEW direction, NEW size
  PROVE  DOMAIN Opened(ledger, direction, size) = DOMAIN ledger \cup {nextPos}
BY DEF Opened

LEMMA OpenedByDomain ==
  ASSUME NEW i, NEW direction, NEW size
  PROVE  DOMAIN OpenedBy(i, direction, size) = DOMAIN positions \cup {nextPos}
BY OpenedDomain DEF OpenedBy

LEMMA ClosedDomain ==
  ASSUME NEW S
  PROVE  DOMAIN Closed(S) \subseteq DOMAIN positions
BY DEF Closed, Without

LEMMA EmptiedDomain == DOMAIN Emptied = {}
BY DEF Emptied, Closed, Without

LEMMA ReducedDomain ==
  ASSUME NEW p, NEW slice
  PROVE  DOMAIN Reduced(p, slice) \subseteq DOMAIN positions
BY ClosedDomain DEF Reduced

LEMMA AddedDomain ==
  ASSUME NEW p, NEW size
  PROVE  DOMAIN Added(p, size) = DOMAIN positions
BY DEF Added

-----------------------------------------------------------------------------
(* When a position opens *)

\* What a step that opens a position has checked: the halts, the room of the
\* netting policy, and either the expiry or the gate of the path that asks.
MayOpen ==
  /\ ~halted /\ ~riskHalted
  /\ DOMAIN positions' \subseteq DOMAIN positions \cup {nextPos}
  /\ Hedging \/ DOMAIN positions' = {nextPos}
  /\ \/ now < ExpiryTs /\ DOMAIN positions' = {nextPos}
     \/ phase \in {"apply", "signal", "sweep"} /\ ~RiskRefuses

LEMMA StrategyKeepsLedger == Strategy => UNCHANGED positions
BY DEF Strategy, Submit, LinkOco, Cancel, Modify, RequestClose, ObserveEquity,
       HaltMargin, ledgerVars

LEMMA StartKeepsLedger == StartEvent => UNCHANGED positions
BY DEF StartEvent, StepQuote, BeginStep, ledgerVars

\* A step opens no position, or one whose gates it has passed.
LEMMA OnlyGatedOpens ==
  [Next]_vars => DOMAIN positions' \subseteq DOMAIN positions \/ MayOpen
<1> SUFFICES ASSUME [Next]_vars
             PROVE  DOMAIN positions' \subseteq DOMAIN positions \/ MayOpen
    OBVIOUS
<1>1. CASE UNCHANGED vars
  BY <1>1 DEF vars, ledgerVars
<1>2. CASE Strategy
  BY <1>2, StrategyKeepsLedger
<1>3. CASE StartEvent
  BY <1>3, StartKeepsLedger
<1>4. CASE SettleExpiry
  BY <1>4, EmptiedDomain DEF SettleExpiry
<1>5. CASE FillIntents
  <2> DEFINE kept == IF bar.mode = "Bar" /\ deferred.exit THEN Emptied ELSE positions
             mayEnter == /\ bar.mode = "Bar" /\ deferred.entry /\ DOMAIN kept = {}
                         /\ ~SignalBarred /\ ~riskHalted
  <2>1. DOMAIN kept \subseteq DOMAIN positions
    BY EmptiedDomain
  <2>2. CASE positions' = kept
    BY <2>1, <2>2
  <2>3. CASE \E size \in Affordable :
               mayEnter /\ positions' = Opened(kept, SignalDirection, size)
    <3>1. mayEnter /\ DOMAIN positions' = {nextPos}
      BY <2>3, OpenedDomain
    <3>2. QED BY <3>1, <1>5 DEF FillIntents, MayOpen, SignalBarred
  <2>4. QED BY <2>2, <2>3, <1>5 DEF FillIntents
<1>6. ASSUME NEW hit, Exits(hit)
      PROVE  DOMAIN positions' \subseteq DOMAIN positions
  BY <1>6, ClosedDomain DEF Exits
<1>7. ASSUME NEW breach, MarginCheck(breach)
      PROVE  DOMAIN positions' \subseteq DOMAIN positions
  BY <1>7, EmptiedDomain DEF MarginCheck
<1>8. ASSUME NEW reach, Match(reach)
      PROVE  DOMAIN positions' \subseteq DOMAIN positions
  BY <1>8 DEF Match, ledgerVars
<1>9. ASSUME NEW i, AnnounceVerdict(i)
      PROVE  DOMAIN positions' \subseteq DOMAIN positions
  BY <1>9 DEF AnnounceVerdict, ledgerVars
<1>10. ASSUME NEW i, FillOrder(i)
       PROVE  DOMAIN positions' \subseteq DOMAIN positions \/ MayOpen
  <2>1. CASE LeaveWorking(i) \/ RefuseFill(i) \/ KillFill(i)
    BY <2>1 DEF LeaveWorking, RefuseFill, KillFill, ledgerVars
  <2>2. CASE AddFill(i)
    BY <2>2, AddedDomain DEF AddFill
  <2>3. CASE OpenFill(i)
    <3>1. DOMAIN positions' = DOMAIN positions \cup {nextPos}
      BY <2>3, OpenedByDomain DEF OpenFill
    <3>2. ~GateRefuses /\ (Hedging \/ Flat)
      BY <2>3 DEF OpenFill, Opening
    <3>3. phase \in {"apply", "sweep"}
      BY <2>3 DEF OpenFill, FillTurn, Due
    <3>4. QED BY <3>1, <3>2, <3>3 DEF MayOpen, GateRefuses, RiskRefuses, Flat
  <2>4. CASE CloseFill(i)
    BY <2>4, ReducedDomain DEF CloseFill
  <2>5. QED BY <1>10, <2>1, <2>2, <2>3, <2>4 DEF FillOrder
<1>11. CASE EndMatch \/ StashEntry \/ BarredEntry \/ NoEntry \/ StartSweep \/ EndStep
  BY <1>11 DEF EndMatch, StashEntry, BarredEntry, NoEntry, StartSweep, EndStep, ledgerVars
<1>12. ASSUME NEW size, EnterOnSignal(size)
       PROVE  MayOpen
  <2>1. DOMAIN positions' = DOMAIN positions \cup {nextPos}
    BY <1>12, OpenedDomain DEF EnterOnSignal
  <2>2. QED BY <2>1, <1>12
            DEF EnterOnSignal, TriesEntry, Flat, SignalBarred, RiskRefuses, MayOpen
<1>13. QED
  BY <1>1, <1>2, <1>3, <1>4, <1>5, <1>6, <1>7, <1>8, <1>9, <1>10, <1>11, <1>12
  DEF Next, Market, Step

-----------------------------------------------------------------------------
(* Netting: at most one position *)

\* Netting holds one position at most, whichever of the six paths that may
\* open one (deferred intent, signal, matched or swept order) comes first.
THEOREM NetHoldsOnePosition == Spec => []OneNetPosition
<1>1. Init => OneNetPosition
  BY DEF Init, OneNetPosition
<1>2. OneNetPosition /\ [Next]_vars => OneNetPosition'
  <2> SUFFICES ASSUME OneNetPosition, [Next]_vars
               PROVE  OneNetPosition'
      OBVIOUS
  <2>1. Hedging' <=> Hedging
    BY RunIsFixed DEF Hedging
  <2>2. CASE DOMAIN positions' \subseteq DOMAIN positions
    BY <2>1, <2>2 DEF OneNetPosition
  <2>3. CASE MayOpen
    BY <2>1, <2>3 DEF OneNetPosition, MayOpen
  <2>4. QED BY OnlyGatedOpens, <2>2, <2>3
<1>3. QED BY <1>1, <1>2, PTL DEF Spec

-----------------------------------------------------------------------------
(* The cap on open positions *)

LEMMA LedgerIsFinite ==
  ASSUME LedgerOK
  PROVE  IsFiniteSet(DOMAIN positions) /\ Cardinality(DOMAIN positions) \in Nat
<1>1. IsFiniteSet(0..(nextPos - 1)) /\ DOMAIN positions \subseteq 0..(nextPos - 1)
  BY FS_Interval DEF LedgerOK
<1>2. IsFiniteSet(DOMAIN positions)
  BY <1>1, FS_Subset
<1>3. QED BY <1>2, FS_CardinalityType

\* max_positions is never exceeded, whichever paths open and however many of
\* them in one step.
THEOREM CapHolds == Spec => []WithinMaxPositions
<1>1. Init => WithinMaxPositions
  <2> SUFFICES ASSUME Init PROVE WithinMaxPositions
      OBVIOUS
  <2>1. DOMAIN positions = {} /\ MaxPositions \in Nat
    BY ConfigTypes DEF Init
  <2>2. QED BY <2>1, FS_EmptySet DEF WithinMaxPositions
<1>2. TypeInv /\ WithinMaxPositions /\ [Next]_vars => WithinMaxPositions'
  <2> SUFFICES ASSUME TypeInv, WithinMaxPositions, [Next]_vars
               PROVE  WithinMaxPositions'
      OBVIOUS
  <2> SUFFICES ASSUME MaxPositions > 0
               PROVE  Cardinality(DOMAIN positions') <= MaxPositions
      BY RunIsFixed DEF MaxPositions, WithinMaxPositions
  <2> DEFINE D == DOMAIN positions
             E == DOMAIN positions'
  <2>1. MaxPositions \in Nat
    BY ConfigTypes DEF TypeInv, TypeOK
  <2>2. IsFiniteSet(D) /\ Cardinality(D) \in Nat /\ Cardinality(D) <= MaxPositions
    BY LedgerIsFinite DEF TypeInv, TypeOK, WithinMaxPositions
  <2>3. CASE E \subseteq D
    <3>1. Cardinality(E) <= Cardinality(D) /\ Cardinality(E) \in Nat
      BY <2>2, <2>3, FS_Subset, FS_CardinalityType
    <3>2. QED BY <2>1, <2>2, <3>1
  <2>4. CASE MayOpen
    <3>1. CASE E = {nextPos}
      <4>1. Cardinality(E) = 1
        BY <3>1, FS_Singleton
      <4>2. QED BY <2>1, <4>1
    <3>2. CASE ~RiskRefuses
      <4>1. Cardinality(D) < MaxPositions
        BY <2>1, <2>2, <3>2 DEF RiskRefuses, OpenCount
      <4>2. /\ IsFiniteSet(D \cup {nextPos})
            /\ Cardinality(D \cup {nextPos}) <= Cardinality(D) + 1
            /\ Cardinality(D \cup {nextPos}) \in Nat
        <5>1. /\ IsFiniteSet(D \cup {nextPos})
              /\ \/ Cardinality(D \cup {nextPos}) = Cardinality(D)
                 \/ Cardinality(D \cup {nextPos}) = Cardinality(D) + 1
          BY <2>2, FS_AddElement
        <5>2. QED BY <5>1, <2>2
      <4>3. Cardinality(E) <= Cardinality(D \cup {nextPos}) /\ Cardinality(E) \in Nat
        BY <2>4, <4>2, FS_Subset, FS_CardinalityType DEF MayOpen
      <4>4. QED BY <2>1, <2>2, <4>1, <4>2, <4>3
    <3>3. QED BY <2>4, <3>1, <3>2 DEF MayOpen
  <2>5. QED BY OnlyGatedOpens, <2>3, <2>4
<1>3. QED BY <1>1, <1>2, TypeCorrect, PTL DEF Spec

-----------------------------------------------------------------------------
(* Halts and expiry *)

\* The steps past the expiry check run on an instrument not expired yet.
ExpiryInv == phase \notin {"observe", "expiry"} => now < ExpiryTs

\* A step past its first phase has met the expiry check, on the same clock.
LEMMA ExpiryIsChecked ==
  ASSUME [Next]_vars, phase' \notin {"observe", "expiry"}
  PROVE  /\ UNCHANGED now
         /\ phase \notin {"observe", "expiry"} \/ now < ExpiryTs
<1> USE DEF clockVars, stepVars
<1>1. CASE UNCHANGED vars
  BY <1>1 DEF vars
<1>2. CASE Strategy
  BY <1>2 DEF Strategy, Submit, LinkOco, Cancel, Modify, RequestClose, ObserveEquity,
              HaltMargin
<1>3. CASE StartEvent
  BY <1>3 DEF StartEvent, StepQuote, BeginStep
<1>4. ASSUME NEW i, AnnounceVerdict(i) \/ FillOrder(i)
      PROVE  UNCHANGED <<now, phase>>
  BY <1>4 DEF AnnounceVerdict, FillOrder, LeaveWorking, RefuseFill, KillFill, AddFill,
              OpenFill, CloseFill, FillFrame
<1>5. CASE SettleExpiry \/ BarredEntry \/ EndStep
  BY <1>5 DEF SettleExpiry, BarredEntry, EndStep, FinishStep
<1>6. CASE FillIntents
  BY <1>6 DEF FillIntents
<1>7. CASE EndMatch \/ StashEntry \/ NoEntry \/ StartSweep
  BY <1>7 DEF EndMatch, StashEntry, NoEntry, StartSweep
<1>8. ASSUME NEW x, Exits(x) \/ MarginCheck(x) \/ Match(x) \/ EnterOnSignal(x)
      PROVE  UNCHANGED now /\ phase \notin {"observe", "expiry"}
  BY <1>8 DEF Exits, MarginCheck, Match, EnterOnSignal
<1>9. QED
  BY <1>1, <1>2, <1>3, <1>4, <1>5, <1>6, <1>7, <1>8 DEF Next, Market, Step

\* After a margin call, a drawdown halt or the expiry, nothing opens.
THEOREM HaltsHold == Spec => HaltStopsOpens
<1>1. Init => ExpiryInv
  BY DEF Init, ExpiryInv
<1>2. ExpiryInv /\ [Next]_vars => ExpiryInv'
  BY ExpiryIsChecked, RunIsFixed DEF ExpiryInv, ExpiryTs
<1>3. TypeInv /\ ExpiryInv /\ [Next]_vars =>
        [halted \/ riskHalted \/ now >= ExpiryTs =>
           DOMAIN positions' \subseteq DOMAIN positions]_vars
  <2> SUFFICES ASSUME TypeInv, ExpiryInv, [Next]_vars,
                      halted \/ riskHalted \/ now >= ExpiryTs
               PROVE  DOMAIN positions' \subseteq DOMAIN positions
      OBVIOUS
  <2>1. now \in Int /\ ExpiryTs \in Int
    BY ConfigTypes DEF TypeInv, TypeOK, ClockOK
  <2>2. ~MayOpen
    BY <2>1 DEF MayOpen, ExpiryInv
  <2>3. QED BY <2>2, OnlyGatedOpens
<1>4. QED BY <1>1, <1>2, <1>3, TypeCorrect, PTL DEF Spec, HaltStopsOpens

-----------------------------------------------------------------------------
(* What happens to one order: on which event it trades, that its end is    *)
(* final, and that a reduce-only order only reduces.                        *)

(* Statuses, operator by operator *)

\* What every change of an order keeps: an end is final.
StaysEnded(o, p) == o.status \in Terminal => p.status = o.status

\* What the changes of other orders' fills keep, for an unlinked order.
StaysLive(o, p) == o.oco = NoOrder /\ IsLive(o) => IsLive(p)

\* Nothing but a fill of its own fills an order.
Spared(o, p) == p.status = "Filled" => o.status = "Filled"

\* Nothing returns an order to where it began.
Begun(o, p) == p.status = "Submitted" => o.status = "Submitted"

LEMMA MoveStaysEnded ==
  ASSUME NEW o \in Order, NEW to
  PROVE  StaysEnded(o, Move(o, to))
BY DEF StaysEnded, Move, LegalMoves, Terminal, Order

LEMMA NotedStatus ==
  ASSUME NEW o \in Order, NEW event \in Notices, NEW to \in Statuses
  PROVE  Note(Move(o, to), event).status = Move(o, to).status
BY MoveOrder, NoteOrder

LEMMA ChangesStayEnded ==
  ASSUME NEW o \in Order
  PROVE  /\ StaysEnded(o, CancelWorking(o))
         /\ StaysEnded(o, CancelRemainder(o))
         /\ StaysEnded(o, Refused(o))
         /\ StaysEnded(o, Acknowledged(o))
<1>1. /\ StaysEnded(o, Note(Move(o, "Canceled"), "Canceled"))
      /\ StaysEnded(o, Note(Move(o, "Rejected"), "Rejected"))
      /\ StaysEnded(o, Note(Move(o, "Accepted"), "Accepted"))
  BY NotedStatus, MoveStaysEnded, EndedStatuses DEF StaysEnded
<1>2. StaysEnded(o, o) /\ StaysEnded(o, Move(o, "Canceled"))
  BY MoveStaysEnded DEF StaysEnded
<1>3. QED
  BY <1>1, <1>2 DEF CancelWorking, CancelRemainder, Refused, Acknowledged

LEMMA VerdictStaysEnded ==
  ASSUME NEW o \in Order, NEW verdict
  PROVE  StaysEnded(o, AfterVerdict(o, verdict))
<1>1. StaysEnded(o, o) BY DEF StaysEnded
<1>2. QED BY <1>1, MoveStaysEnded DEF AfterVerdict

Forward(o, p) == Spared(o, p) /\ Begun(o, p)

LEMMA ForwardReflexive == \A o : Forward(o, o)
BY DEF Forward, Spared, Begun

LEMMA ForwardTransitive ==
  ASSUME NEW o, NEW p, NEW q, Forward(o, p), Forward(p, q)
  PROVE  Forward(o, q)
BY DEF Forward, Spared, Begun

LEMMA ChangesForward ==
  ASSUME NEW o \in Order
  PROVE  /\ Forward(o, CancelWorking(o)) /\ Forward(o, CancelRemainder(o))
         /\ Forward(o, Refused(o)) /\ Forward(o, Acknowledged(o))
         /\ \A verdict : Forward(o, AfterVerdict(o, verdict))
<1>1. \A to : to \notin {"Filled", "Submitted"} => Forward(o, Move(o, to))
  BY DEF Move, Forward, Spared, Begun, Order
<1>2. /\ Forward(o, Note(Move(o, "Canceled"), "Canceled"))
      /\ Forward(o, Note(Move(o, "Rejected"), "Rejected"))
      /\ Forward(o, Note(Move(o, "Accepted"), "Accepted"))
  BY <1>1, NotedStatus, EndedStatuses DEF Forward, Spared, Begun
<1>3. Forward(o, o)
  BY ForwardReflexive
<1>4. \A verdict : Forward(o, AfterVerdict(o, verdict))
  BY <1>1, <1>3 DEF AfterVerdict
<1>5. QED
  BY <1>1, <1>2, <1>3, <1>4 DEF CancelWorking, CancelRemainder, Refused, Acknowledged

\* A working order that is canceled ends.
LEMMA CanceledEnds ==
  ASSUME NEW o \in Order
  PROVE  CancelWorking(o).status \in Terminal
<1>1. CASE IsLive(o)
  <2>1. Move(o, "Canceled").status = "Canceled"
    BY <1>1 DEF Move, LegalMoves, IsLive, Working, Order
  <2>2. QED BY <1>1, <2>1, NotedStatus, EndedStatuses DEF CancelWorking, Terminal
<1>2. CASE ~IsLive(o)
  BY <1>2 DEF CancelWorking, IsLive, Order, Statuses
<1>3. QED BY <1>1, <1>2

LEMMA WokenChild ==
  ASSUME NEW o \in Order, o.status = "Submitted"
  PROVE  IsLive(Acknowledged(o))
<1>1. Move(o, "Accepted").status = "Accepted"
  BY DEF Move, LegalMoves, Order
<1>2. QED BY <1>1, NotedStatus, EndedStatuses DEF Acknowledged, IsLive, Working

LEMMA AfterFillStatuses ==
  ASSUME NEW D, NEW os \in [D -> Order], NEW k \in D
  PROVE  \A j \in D : /\ StaysEnded(os[j], AfterFill(os, k)[j])
                      /\ StaysLive(os[j], AfterFill(os, k)[j])
<1> DEFINE woken == ActivateChildren(os, k)
<1>1. ASSUME NEW j \in D
      PROVE  /\ woken[j] \in Order
             /\ woken[j].oco = os[j].oco
             /\ StaysEnded(os[j], woken[j]) /\ StaysLive(os[j], woken[j])
  <2>1. woken[j] = IF os[j].parent = k /\ os[j].status = "Submitted"
                   THEN Acknowledged(os[j]) ELSE os[j]
    BY DEF ActivateChildren
  <2>2. CASE os[j].parent = k /\ os[j].status = "Submitted"
    BY <2>1, <2>2, AcknowledgedOrder, ChangesStayEnded, WokenChild
    DEF SameFills, SameTerms, StaysLive
  <2>3. CASE ~(os[j].parent = k /\ os[j].status = "Submitted")
    BY <2>1, <2>3 DEF StaysEnded, StaysLive
  <2>4. QED BY <2>2, <2>3
<1>2. DOMAIN woken = D
  BY DEF ActivateChildren
<1> HIDE DEF woken
<1>3. ASSUME NEW j \in D
      PROVE  /\ StaysEnded(os[j], CancelSiblings(woken, k)[j])
             /\ StaysLive(os[j], CancelSiblings(woken, k)[j])
  <2> DEFINE linked == /\ woken[j].oco = woken[k].oco
                       /\ woken[j].oco # NoOrder /\ j # k
  <2>1. CancelSiblings(woken, k)[j] = IF linked THEN CancelWorking(woken[j]) ELSE woken[j]
    BY <1>2 DEF CancelSiblings
  <2>2. CASE linked
    BY <1>1, <2>1, <2>2, ChangesStayEnded DEF StaysEnded, StaysLive
  <2>3. CASE ~linked
    BY <1>1, <2>1, <2>3
  <2>4. QED BY <2>2, <2>3
<1>4. QED BY <1>3 DEF AfterFill, woken

LEMMA RecordFillStatuses ==
  ASSUME NEW D, NEW os \in [D -> Order], NEW k \in D,
         NEW size \in Nat, NEW requested, NEW n \in Nat
  PROVE  LET rs == RecordFill(os, k, size, requested, n) IN
         \A j \in D : /\ StaysEnded(os[j], rs[j])
                      /\ j # k => StaysLive(os[j], rs[j])
<1> DEFINE filled == os[k].filled + size
           done   == filled >= requested
           booked == [os[k] EXCEPT !.filled = filled,
                                   !.fillIdx = IF @ = -1 THEN n ELSE @]
           to     == IF done THEN "Filled" ELSE "PartiallyFilled"
           moved  == Note(Move(booked, to), "Filled")
           order  == IF ~done /\ moved.tif = "Ioc" THEN CancelRemainder(moved) ELSE moved
           now1   == [os EXCEPT ![k] = order]
<1>1. booked \in Order /\ booked.status = os[k].status
  <2>1. os[k] \in Order
    OBVIOUS
  <2>2. filled \in Nat /\ (IF os[k].fillIdx = -1 THEN n ELSE os[k].fillIdx) \in Nat \cup {-1}
    BY <2>1 DEF Order
  <2>3. QED BY <2>1, <2>2 DEF Order
<1>2. to \in Statuses
  BY EndedStatuses
<1> HIDE DEF booked, to
<1>3. moved \in Order /\ StaysEnded(os[k], moved)
  <2>1. moved \in Order /\ moved.status = Move(booked, to).status
    BY <1>1, <1>2, MovedAndNoted, NotedStatus, EndedStatuses
  <2>2. StaysEnded(booked, Move(booked, to))
    BY <1>1, MoveStaysEnded
  <2>3. QED BY <1>1, <2>1, <2>2 DEF StaysEnded
<1> HIDE DEF moved
<1>4. order \in Order /\ StaysEnded(os[k], order)
  BY <1>3, CancelRemainderOrder, ChangesStayEnded DEF StaysEnded
<1> HIDE DEF order
<1>5. /\ now1 \in [D -> Order] /\ now1[k] = order
      /\ \A j \in D \ {k} : now1[j] = os[j]
  BY <1>4
<1>6. \A j \in D : /\ StaysEnded(os[j], now1[j])
                   /\ j # k => StaysLive(os[j], now1[j])
  BY <1>4, <1>5 DEF StaysEnded, StaysLive
<1> HIDE DEF now1
<1>7. \A j \in D : /\ StaysEnded(now1[j], AfterFill(now1, k)[j])
                   /\ StaysLive(now1[j], AfterFill(now1, k)[j])
  BY <1>5, AfterFillStatuses
<1>8. \A j \in D : /\ StaysEnded(os[j], AfterFill(now1, k)[j])
                   /\ j # k => StaysLive(os[j], AfterFill(now1, k)[j])
  BY <1>5, <1>6, <1>7 DEF StaysEnded, StaysLive
<1>9. RecordFill(os, k, size, requested, n) = IF done THEN AfterFill(now1, k) ELSE now1
  BY DEF RecordFill, now1, order, moved, to, booked
<1>10. QED BY <1>6, <1>8, <1>9

-----------------------------------------------------------------------------
(* What a step that fills nothing does to the book *)

\* What an order asks for, unless the strategy modifies it while it works.
SameRequest(o, p) ==
  \/ p.qty = o.qty /\ p.units = o.units
  \/ p.qty = "Units" /\ p.units \in NewUnits /\ IsLive(o)

\* What only a fill of its own changes of an order.
SameTrade(o, p) ==
  /\ p.filled = o.filled /\ p.fillIdx = o.fillIdx
  /\ p.submittedIdx = o.submittedIdx /\ p.submittedTs = o.submittedTs
  /\ p.reduceOnly = o.reduceOnly /\ p.side = o.side
  /\ p.kind = o.kind /\ p.tif = o.tif /\ p.parent = o.parent
  /\ p.expire = o.expire /\ p.arrivalTs = o.arrivalTs
  /\ p.oco = NoOrder => o.oco = NoOrder
  /\ SameRequest(o, p)

Kept(o, p) == SameTrade(o, p) /\ StaysEnded(o, p) /\ Forward(o, p)

LEMMA KeptReflexive == \A o : Kept(o, o)
BY DEF Kept, SameTrade, SameRequest, StaysEnded, Forward, Spared, Begun

LEMMA KeptChanges ==
  ASSUME NEW o \in Order
  PROVE  /\ Kept(o, CancelWorking(o)) /\ Kept(o, CancelRemainder(o))
         /\ Kept(o, Refused(o)) /\ Kept(o, Acknowledged(o))
         /\ \A verdict : Kept(o, AfterVerdict(o, verdict))
         /\ \A event \in Notices : Kept(o, Note(o, event))
<1>1. \A p : SameFills(o, p) /\ StaysEnded(o, p) /\ Forward(o, p) => Kept(o, p)
  BY DEF SameFills, SameTerms, SameTrade, SameRequest, Kept
<1>2. \A verdict : Kept(o, AfterVerdict(o, verdict))
  BY <1>1, AfterVerdictOrder, VerdictStaysEnded, ChangesForward
<1>3. \A event \in Notices : Kept(o, Note(o, event))
  BY <1>1, NoteOrder DEF StaysEnded, Forward, Spared, Begun
<1>4. QED
  BY <1>1, <1>2, <1>3, CancelWorkingOrder, CancelRemainderOrder, RefusedOrder,
     AcknowledgedOrder, ChangesStayEnded, ChangesForward

BookKept == \A i \in DOMAIN orders : i \in DOMAIN orders' /\ Kept(orders[i], orders'[i])

LEMMA SameBookKept == ASSUME UNCHANGED orders PROVE BookKept
BY KeptReflexive DEF BookKept

LEMMA StrategyKeepsTrades == ASSUME TypeInv, Strategy PROVE BookKept
<1>1. \A i \in DOMAIN orders : orders[i] \in Order
  BY DEF TypeInv, TypeOK, BookOK
<1>2. ASSUME NEW t, NEW parent, NEW stamp, Submit(t, parent, stamp)
      PROVE  BookKept
  <2>1. DOMAIN orders' = DOMAIN orders \cup {nextId}
        /\ \A i \in DOMAIN orders : i # nextId => orders'[i] = orders[i]
    BY <1>2 DEF Submit
  <2>2. nextId \notin DOMAIN orders
    BY ConfigTypes DEF TypeInv, TypeOK, BookOK
  <2>3. QED BY <2>1, <2>2, KeptReflexive DEF BookKept
<1>3. ASSUME NEW group, LinkOco(group) PROVE BookKept
  <2>1. ASSUME NEW i \in DOMAIN orders
        PROVE  /\ i \in DOMAIN orders'
               /\ \/ orders'[i] = orders[i]
                  \/ /\ i \in group
                     /\ orders'[i] = [orders[i] EXCEPT !.oco = Earliest(group)]
    BY <1>3 DEF LinkOco
  <2>2. ASSUME NEW i \in DOMAIN orders, i \in group
        PROVE  Kept(orders[i], [orders[i] EXCEPT !.oco = Earliest(group)])
    <3>1. group \subseteq Nat /\ group # {}
      BY <1>3, <2>2 DEF LinkOco, TypeInv, TypeOK, BookOK
    <3>2. Earliest(group) # NoOrder
      BY <3>1, EarliestIsLeast, NoOrderAssumption
    <3>3. QED
      BY <1>1, <3>2 DEF Kept, SameTrade, SameRequest, StaysEnded, Forward, Spared, Begun, Order
  <2>3. ASSUME NEW i \in DOMAIN orders
        PROVE  i \in DOMAIN orders' /\ Kept(orders[i], orders'[i])
    BY <2>1, <2>2, KeptReflexive
  <2>4. QED BY <2>3 DEF BookKept
<1>4. ASSUME NEW ids, Cancel(ids) PROVE BookKept
  <2>1. \A i \in DOMAIN orders :
          /\ i \in DOMAIN orders'
          /\ orders'[i] = orders[i] \/ orders'[i] = CancelWorking(orders[i])
    BY <1>4 DEF Cancel
  <2>2. QED BY <1>1, <2>1, KeptChanges, KeptReflexive DEF BookKept
<1>5. ASSUME NEW i, NEW units \in NewUnits, Modify(i, units) PROVE BookKept
  <2>1. /\ DOMAIN orders' = DOMAIN orders
        /\ \A j \in DOMAIN orders : j # i => orders'[j] = orders[j]
        /\ i \in DOMAIN orders /\ IsLive(orders[i])
        /\ orders'[i] = [orders[i] EXCEPT !.units = units, !.qty = "Units"]
    BY <1>5 DEF Modify
  <2>2. Kept(orders[i], orders'[i])
    BY <1>1, <2>1 DEF Kept, SameTrade, SameRequest, StaysEnded, Forward, Spared, Begun, Order
  <2>3. QED BY <2>1, <2>2, KeptReflexive DEF BookKept
<1>6. ASSUME NEW p, RequestClose(p) PROVE BookKept
  BY <1>6, SameBookKept DEF RequestClose, bookVars
<1>7. CASE ObserveEquity \/ HaltMargin
  BY <1>7, SameBookKept DEF ObserveEquity, HaltMargin, bookVars
<1>8. QED BY <1>2, <1>3, <1>4, <1>5, <1>6, <1>7 DEF Strategy

LEMMA MarketKeepsTrades ==
  ASSUME TypeInv, [StartEvent \/ Step]_vars, \A i \in DOMAIN orders : ~FillOrder(i)
  PROVE  BookKept
<1>1. \A i \in DOMAIN orders : orders[i] \in Order
  BY DEF TypeInv, TypeOK, BookOK
<1>2. CASE UNCHANGED vars
  BY <1>2, SameBookKept DEF vars, bookVars
<1>3. CASE StartEvent
  BY <1>3, SameBookKept DEF StartEvent, StepQuote, BeginStep, bookVars
<1>4. CASE SettleExpiry
  BY <1>1, <1>4, KeptChanges DEF SettleExpiry, BookKept
<1>5. CASE FillIntents
  BY <1>5, SameBookKept DEF FillIntents, bookVars
<1>6. ASSUME NEW x, Exits(x) \/ MarginCheck(x) \/ EnterOnSignal(x) PROVE BookKept
  BY <1>6, SameBookKept DEF Exits, MarginCheck, EnterOnSignal, bookVars
<1>7. ASSUME NEW reach, Match(reach) PROVE BookKept
  BY <1>1, <1>7, KeptChanges DEF Match, BookKept
<1>8. ASSUME NEW i \in DOMAIN orders, AnnounceVerdict(i) PROVE BookKept
  <2>1. i \in DOMAIN verdicts /\ verdicts[i] \in Verdicts \ {"none", "fill"}
    BY <1>8 DEF AnnounceVerdict, Due, Pending, TypeInv, TypeOK, StepOK
  <2>2. Announced[verdicts[i]] \in Notices
    BY <2>1 DEF Announced, Verdicts, Notices
  <2>3. /\ DOMAIN orders' = DOMAIN orders
        /\ \A j \in DOMAIN orders : j # i => orders'[j] = orders[j]
        /\ orders'[i] = Note(orders[i], Announced[verdicts[i]])
    BY <1>8 DEF AnnounceVerdict
  <2>4. Kept(orders[i], orders'[i])
    BY <1>1, <2>2, <2>3, KeptChanges
  <2>5. QED BY <2>3, <2>4, KeptReflexive DEF BookKept
<1>9. CASE EndMatch \/ StashEntry \/ BarredEntry \/ NoEntry \/ EndStep
  BY <1>9, SameBookKept DEF EndMatch, StashEntry, BarredEntry, NoEntry, EndStep, bookVars
<1>10. CASE StartSweep
  <2>1. \A i \in DOMAIN orders :
          /\ i \in DOMAIN orders'
          /\ orders'[i] = orders[i] \/ orders'[i] = Acknowledged(orders[i])
    BY <1>10 DEF StartSweep
  <2>2. QED BY <1>1, <2>1, KeptChanges, KeptReflexive DEF BookKept
<1>11. QED
  BY <1>2, <1>3, <1>4, <1>5, <1>6, <1>7, <1>8, <1>9, <1>10 DEF Step

-----------------------------------------------------------------------------
(* What a fill does to the book *)

LEMMA PresentedStatus ==
  ASSUME TypeInv, NEW i \in DOMAIN orders
  PROVE  Kept(orders[i], Presented(i)) /\ StaysLive(orders[i], Presented(i))
<1>1. orders[i] \in Order
  BY DEF TypeInv, TypeOK, BookOK
<1>2. CASE orders[i].status = "Submitted"
  BY <1>1, <1>2, WokenChild, KeptChanges, KeptReflexive DEF Presented, StaysLive
<1>3. CASE orders[i].status # "Submitted"
  BY <1>3, KeptReflexive DEF Presented, StaysLive
<1>4. QED BY <1>2, <1>3

\* A slice booked on order i, as the rest of the book sees it.
Booked(i) ==
  \A j \in DOMAIN orders :
    /\ j \in DOMAIN orders'
    /\ StaysEnded(orders[j], orders'[j])
    /\ SameTerms(orders[j], orders'[j])
    /\ j # i => SameFills(orders[j], orders'[j]) /\ StaysLive(orders[j], orders'[j])
    /\ \/ orders'[j].fillIdx = orders[j].fillIdx
       \/ orders[j].fillIdx = -1 /\ orders'[j].fillIdx = idx

LEMMA SliceBooked ==
  ASSUME TypeInv, NEW i \in DOMAIN orders, NEW size \in Nat, NEW requested,
         orders' = RecordFill(Book(i), i, size, requested, idx)
  PROVE  Booked(i) /\ DOMAIN orders' = DOMAIN orders
<1>1. BookOK /\ idx \in Nat
  BY ConfigTypes DEF TypeInv, TypeOK, ClockOK
<1>2. /\ DOMAIN orders' = DOMAIN orders
      /\ \A j \in DOMAIN orders : SameTerms(orders[j], orders'[j])
      /\ \A j \in DOMAIN orders \ {i} : SameFills(orders[j], orders'[j])
      /\ orders'[i].fillIdx = IF orders[i].fillIdx = -1 THEN idx ELSE orders[i].fillIdx
  BY RecordedBook
<1>3. /\ Book(i) \in [DOMAIN orders -> Order]
      /\ Book(i)[i] = Presented(i)
      /\ \A j \in DOMAIN orders \ {i} : Book(i)[j] = orders[j]
  BY <1>1, PresentedOrder
<1>4. \A j \in DOMAIN orders : /\ StaysEnded(Book(i)[j], orders'[j])
                               /\ j # i => StaysLive(Book(i)[j], orders'[j])
  BY <1>1, <1>3, RecordFillStatuses
<1>5. StaysEnded(orders[i], Presented(i))
  BY PresentedStatus DEF Kept
<1>6. \A j \in DOMAIN orders : /\ StaysEnded(orders[j], orders'[j])
                               /\ j # i => StaysLive(orders[j], orders'[j])
  BY <1>3, <1>4, <1>5 DEF StaysEnded
<1>7. QED BY <1>2, <1>6 DEF Booked, SameFills

\* A turn that trades nothing changes its own order's status at most.
LEMMA UntradedBooked ==
  ASSUME TypeInv, NEW i \in DOMAIN orders,
         LeaveWorking(i) \/ RefuseFill(i) \/ KillFill(i)
  PROVE  /\ DOMAIN orders' = DOMAIN orders
         /\ \A j \in DOMAIN orders \ {i} : orders'[j] = orders[j]
         /\ SameFills(orders[i], orders'[i]) /\ StaysEnded(orders[i], orders'[i])
         /\ Forward(orders[i], orders'[i])
<1>1. BookOK
  BY DEF TypeInv, TypeOK
<1> DEFINE o == Presented(i)
<1>2. /\ o \in Order /\ SameFills(orders[i], o) /\ StaysEnded(orders[i], o)
      /\ Forward(orders[i], o)
  BY <1>1, PresentedOrder, PresentedStatus DEF Kept
<1> HIDE DEF o
<1>3. \/ orders' = [orders EXCEPT ![i] = o]
      \/ orders' = [orders EXCEPT ![i] = Refused(o)]
      \/ orders' = [orders EXCEPT ![i] = CancelRemainder(o)]
  BY DEF LeaveWorking, RefuseFill, KillFill, Book, o
<1>4. /\ SameFills(orders[i], Refused(o)) /\ StaysEnded(orders[i], Refused(o))
      /\ SameFills(orders[i], CancelRemainder(o))
      /\ StaysEnded(orders[i], CancelRemainder(o))
  BY <1>2, RefusedOrder, CancelRemainderOrder, ChangesStayEnded, SameFillsTransitive
  DEF StaysEnded
<1>5. Forward(orders[i], Refused(o)) /\ Forward(orders[i], CancelRemainder(o))
  BY <1>2, ChangesForward, ForwardTransitive
<1>6. QED BY <1>2, <1>3, <1>4, <1>5

\* A fill that trades books a slice of at least one unit.
LEMMA SliceOfFill ==
  ASSUME TypeInv, NEW i \in DOMAIN orders, AddFill(i) \/ OpenFill(i) \/ CloseFill(i)
  PROVE  \E size \in Nat \ {0} : \E requested :
           orders' = RecordFill(Book(i), i, size, requested, idx)
<1> DEFINE o == Presented(i)
           slice == Slice(Wanted(o))
<1>1. o \in Order
  BY PresentedOrder DEF TypeInv, TypeOK
<1>2. ASSUME Trades(o, i), Sized(o, i) PROVE slice \in Nat \ {0}
  BY <1>1, <1>2, SlicePositive
<1>3. CASE AddFill(i)
  <2>1. Sized(o, i) /\ Trades(o, i)
    BY <1>3 DEF AddFill, Sized
  <2>2. Lots(slice) \in Nat \ {0}
    BY <1>2, <1>3, <2>1, LotsInt DEF AddFill
  <2>3. QED BY <1>3, <2>2 DEF AddFill
<1>4. CASE OpenFill(i)
  <2>1. Opening(o, i) /\ Trades(o, i)
    BY <1>4 DEF OpenFill
  <2>2. PICK size \in (IF o.qty = "Units" THEN {Lots(slice)} ELSE Affordable) :
          size > 0 /\ orders' = RecordFill(Book(i), i, size,
                                          IF o.qty = "Units" THEN o.units ELSE size, idx)
    BY <1>4 DEF OpenFill
  <2>3. CASE o.qty = "Units"
    <3>1. Lots(slice) \in Int
      BY <1>2, <2>1, <2>3, LotsInt DEF Sized
    <3>2. size \in Nat \ {0}
      BY <2>2, <2>3, <3>1
    <3>3. QED BY <2>2, <3>2
  <2>4. CASE o.qty # "Units"
    <3>1. size \in Nat \ {0}
      BY <2>2, <2>4, ConfigTypes DEF Affordable, TypeInv, TypeOK
    <3>2. QED BY <2>2, <3>1
  <2>5. QED BY <2>3, <2>4
<1>5. CASE CloseFill(i)
  <2>1. Sized(o, i) /\ Trades(o, i)
    BY <1>5 DEF CloseFill, Sized
  <2>2. QED BY <1>2, <1>5, <2>1 DEF CloseFill
<1>6. QED BY <1>3, <1>4, <1>5

LEMMA FillBooked ==
  ASSUME TypeInv, NEW i \in DOMAIN orders, FillOrder(i)
  PROVE  Booked(i) /\ DOMAIN orders' = DOMAIN orders
<1>1. CASE LeaveWorking(i) \/ RefuseFill(i) \/ KillFill(i)
  <2>1. /\ DOMAIN orders' = DOMAIN orders
        /\ \A j \in DOMAIN orders \ {i} : orders'[j] = orders[j]
        /\ SameFills(orders[i], orders'[i]) /\ StaysEnded(orders[i], orders'[i])
    BY <1>1, UntradedBooked
  <2>2. \A j \in DOMAIN orders \ {i} :
          StaysEnded(orders[j], orders'[j]) /\ StaysLive(orders[j], orders'[j])
          /\ SameFills(orders[j], orders'[j])
    BY <2>1, SameFillsReflexive DEF StaysEnded, StaysLive
  <2>3. QED BY <2>1, <2>2 DEF Booked, SameFills
<1>2. CASE AddFill(i) \/ OpenFill(i) \/ CloseFill(i)
  BY <1>2, SliceOfFill, SliceBooked
<1>3. QED BY <1>1, <1>2 DEF FillOrder

-----------------------------------------------------------------------------
(* Whose turn it may be *)

\* An order the match pass or the sweep has picked and not filled yet.
Awaits(i) == i \in sweep \/ (i \in DOMAIN verdicts /\ verdicts[i] = "fill")

\* The orders picked are those that were live when they were picked, of an
\* earlier event except for a market order swept on its own; one that is not
\* linked is live still.
TurnInv ==
  /\ phase # "apply" => Pending = {}
  /\ phase # "sweep" => sweep = {}
  /\ phase # "observe" => bar.mode \in Modes \ {"Quote"}
  /\ \A i \in DOMAIN orders : orders[i].submittedIdx <= idx
  /\ \A i \in DOMAIN orders : Awaits(i) =>
       /\ orders[i].oco = NoOrder => IsLive(orders[i])
       /\ \/ orders[i].submittedIdx < idx
          \/ i \in sweep /\ PlainMarket(orders[i]) /\ ~Defers

\* Orders keep their stamp, and the clock does not go back.
LEMMA StampsStayPast ==
  ASSUME TypeInv, TurnInv, BookKept, DOMAIN orders' = DOMAIN orders,
         idx' = idx \/ idx' = idx + 1
  PROVE  \A i \in DOMAIN orders' : orders'[i].submittedIdx <= idx'
<1>1. idx \in Int
  BY ConfigTypes DEF TypeInv, TypeOK, ClockOK
<1>2. ASSUME NEW i \in DOMAIN orders
      PROVE  /\ orders[i].submittedIdx \in Int /\ orders[i].submittedIdx <= idx
             /\ orders'[i].submittedIdx = orders[i].submittedIdx
  BY DEF TypeInv, TypeOK, BookOK, Order, TurnInv, BookKept, Kept, SameTrade
<1>3. QED BY <1>1, <1>2

\* A step that leaves nothing picked.
LEMMA NonePicked ==
  ASSUME sweep' = {}, Pending' = {},
         phase' # "observe" => bar'.mode \in Modes' \ {"Quote"},
         \A i \in DOMAIN orders' : orders'[i].submittedIdx <= idx'
  PROVE  TurnInv'
BY DEF TurnInv, Awaits, Pending

LEMMA StrategyTurn == ASSUME TypeInv, TurnInv, Strategy PROVE TurnInv'
<1>1. /\ phase = "observe" /\ phase' = phase
      /\ UNCHANGED <<run, idx, verdicts, sweep, bar>>
  BY DEF Strategy, Submit, LinkOco, Cancel, Modify, RequestClose, ObserveEquity,
         HaltMargin, stepVars, clockVars
<1>2. sweep' = {} /\ Pending' = {}
  BY <1>1 DEF TurnInv, Pending
<1>3. ASSUME NEW i \in DOMAIN orders'
      PROVE  orders'[i].submittedIdx <= idx'
  <2>1. CASE i \in DOMAIN orders
    <3>1. orders'[i].submittedIdx = orders[i].submittedIdx
      BY <2>1, StrategyKeepsTrades DEF BookKept, Kept, SameTrade
    <3>2. QED BY <1>1, <2>1, <3>1 DEF TurnInv
  <2>2. CASE i \notin DOMAIN orders
    <3>1. PICK t \in Templates, parent \in DOMAIN orders \cup {NoOrder}, stamp \in 0..idx :
            Submit(t, parent, stamp)
      BY <2>2 DEF Strategy, LinkOco, Cancel, Modify, RequestClose, ObserveEquity,
                  HaltMargin, bookVars
    <3> DEFINE plain == [side |-> t.side, qty |-> t.qty, units |-> t.units,
                         kind |-> t.kind, tif |-> t.tif, expire |-> t.expire,
                         postOnly |-> t.postOnly, reduceOnly |-> t.reduceOnly,
                         status |-> "Submitted", submittedIdx |-> stamp,
                         submittedTs |-> now, arrivalTs |-> now + Latency,
                         parent |-> parent, oco |-> NoOrder,
                         filled |-> 0, faulted |-> FALSE, notices |-> <<>>,
                         fillIdx |-> -1]
               order == IF Rests(t) /\ parent = NoOrder THEN Acknowledged(plain) ELSE plain
    <3>2. orders'[i] = order
      BY <2>2, <3>1 DEF Submit
    <3>3. order.submittedIdx = stamp
      BY DEF Acknowledged, Note, Move
    <3>4. idx \in Int
      BY ConfigTypes DEF TypeInv, TypeOK, ClockOK
    <3>5. QED BY <1>1, <3>2, <3>3, <3>4
  <2>3. QED BY <2>1, <2>2
<1>4. QED BY <1>1, <1>2, <1>3, NonePicked

\* Outside the apply and sweep phases nothing is picked, before or after.
LEMMA QuietTurn ==
  ASSUME TypeInv, TurnInv, phase \notin {"apply", "sweep"}, BookKept,
         DOMAIN orders' = DOMAIN orders, UNCHANGED <<run, verdicts, sweep>>,
         idx' = idx \/ idx' = idx + 1,
         phase' # "observe" => bar'.mode \in Modes \ {"Quote"}
  PROVE  TurnInv'
<1>1. sweep' = {} /\ Pending' = {}
  BY DEF TurnInv, Pending
<1>2. Modes' = Modes
  BY DEF Modes
<1>3. QED BY <1>1, <1>2, StampsStayPast, NonePicked

LEMMA StartTurn == ASSUME TypeInv, TurnInv, StartEvent PROVE TurnInv'
<1>1. UNCHANGED <<run, orders, verdicts, sweep>> /\ phase = "observe"
  BY DEF StartEvent, StepQuote, BeginStep, bookVars, stepVars
<1>2. idx' = idx \/ idx' = idx + 1
  BY DEF StartEvent, StepQuote, BeginStep, clockVars, Advance
<1>3. phase' # "observe" => bar'.mode \in Modes \ {"Quote"}
  BY <1>1 DEF StartEvent, StepQuote, BeginStep
<1>4. QED BY <1>1, <1>2, <1>3, QuietTurn, SameBookKept

LEMMA UnpickedTurn ==
  ASSUME TypeInv, TurnInv, NEW x,
         \/ SettleExpiry \/ FillIntents \/ Exits(x) \/ MarginCheck(x)
         \/ StashEntry \/ BarredEntry \/ EnterOnSignal(x) \/ NoEntry
  PROVE  TurnInv'
<1>1. /\ phase \notin {"apply", "sweep", "observe"}
      /\ UNCHANGED <<run, verdicts, sweep>>
      /\ phase' = "observe" \/ UNCHANGED bar
      /\ idx' = idx \/ idx' = idx + 1
  BY DEF SettleExpiry, FillIntents, Exits, MarginCheck, StashEntry, BarredEntry,
         EnterOnSignal, NoEntry, FinishStep, Advance, stepVars, clockVars
<1>2. BookKept /\ DOMAIN orders' = DOMAIN orders
  <2>1. CASE SettleExpiry
    <3>1. \A i \in DOMAIN orders : orders[i] \in Order
      BY DEF TypeInv, TypeOK, BookOK
    <3>2. QED BY <2>1, <3>1, KeptChanges DEF SettleExpiry, BookKept
  <2>2. CASE ~SettleExpiry
    BY <2>2, SameBookKept
    DEF FillIntents, Exits, MarginCheck, StashEntry, BarredEntry, EnterOnSignal, NoEntry,
        bookVars
  <2>3. QED BY <2>1, <2>2
<1>3. phase' # "observe" => bar'.mode \in Modes \ {"Quote"}
  BY <1>1 DEF TurnInv
<1>4. QED BY <1>1, <1>2, <1>3, QuietTurn

LEMMA EndTurn == ASSUME TypeInv, TurnInv, EndMatch \/ EndStep PROVE TurnInv'
<1>1. /\ UNCHANGED <<run, orders, verdicts, sweep>> /\ phase \in {"apply", "sweep"}
      /\ phase' = "observe" \/ UNCHANGED bar
      /\ idx' = idx \/ idx' = idx + 1
  BY DEF EndMatch, EndStep, FinishStep, Advance, stepVars, clockVars, bookVars
<1>2. sweep = {} /\ Pending = {}
  BY DEF EndMatch, EndStep, TurnInv
<1>3. sweep' = {} /\ Pending' = {} /\ Modes' = Modes
  BY <1>1, <1>2 DEF Pending, Modes
<1>4. phase' # "observe" => bar'.mode \in Modes' \ {"Quote"}
  BY <1>1, <1>3 DEF TurnInv
<1>5. QED BY <1>1, <1>3, <1>4, SameBookKept, StampsStayPast, NonePicked

LEMMA MatchTurn == ASSUME TypeInv, TurnInv, NEW reach, Match(reach) PROVE TurnInv'
<1>1. /\ UNCHANGED <<run, idx, bar, sweep>> /\ sweep = {}
      /\ phase = "match" /\ phase' = "apply"
      /\ DOMAIN orders' = DOMAIN orders
  BY DEF Match, TurnInv, clockVars
<1>2. BookKept
  <2>1. \A i \in DOMAIN orders : orders[i] \in Order
    BY DEF TypeInv, TypeOK, BookOK
  <2>2. QED BY <2>1, KeptChanges DEF Match, BookKept
<1>3. ASSUME NEW i \in DOMAIN orders', Awaits(i)'
      PROVE  IsLive(orders'[i]) /\ orders'[i].submittedIdx < idx'
  <2>1. verdicts'[i] = "fill"
    BY <1>1, <1>3 DEF Awaits
  <2>2. verdicts'[i] = Verdict(orders[i], [k \in DOMAIN orders |-> orders[k].status],
                               idx, now, bar.mode, reach[i])
    BY <1>1 DEF Match
  <2>3. Visible(orders[i], idx, now, bar.mode)
    BY <2>1, <2>2 DEF Verdict
  <2>4. orders'[i] = AfterVerdict(orders[i], "fill")
    BY <1>1, <2>1 DEF Match
  <2>5. orders'[i] = orders[i]
    BY <2>4 DEF AfterVerdict
  <2>6. QED BY <1>1, <2>3, <2>5 DEF Visible
<1>4. \A i \in DOMAIN orders' : orders'[i].submittedIdx <= idx'
  BY <1>1, <1>2, StampsStayPast
<1>5. Modes' = Modes
  BY <1>1 DEF Modes
<1>6. QED BY <1>1, <1>3, <1>4, <1>5 DEF TurnInv

LEMMA SweepTurn == ASSUME TypeInv, TurnInv, StartSweep PROVE TurnInv'
<1>1. /\ UNCHANGED <<run, idx, bar, verdicts>>
      /\ phase = "sweeping" /\ phase' = "sweep"
      /\ DOMAIN orders' = DOMAIN orders
      /\ sweep' = {i \in DOMAIN orders : Swept(orders[i])}
  BY DEF StartSweep, clockVars
<1>2. Modes' = Modes /\ Defers' = Defers /\ Pending' = {}
  BY <1>1 DEF Modes, Defers, NextBarOpen, Pending, TurnInv
<1>3. \A i \in DOMAIN orders : orders[i].submittedIdx \in Int
  BY DEF TypeInv, TypeOK, BookOK, Order
<1>4. ASSUME NEW i \in DOMAIN orders', Awaits(i)'
      PROVE  /\ IsLive(orders'[i]) /\ i \in sweep'
             /\ orders'[i].submittedIdx < idx' \/ (PlainMarket(orders'[i]) /\ ~Defers')
  <2>1. i \in DOMAIN orders /\ i \in sweep' /\ Swept(orders[i])
    BY <1>1, <1>2, <1>4 DEF Awaits, Pending
  <2>2. orders'[i] = orders[i]
    BY <1>1, <1>3, <2>1 DEF StartSweep, Swept
  <2>3. QED BY <1>1, <1>2, <2>1, <2>2 DEF Swept
<1>5. BookKept
  <2>1. \A i \in DOMAIN orders : orders[i] \in Order
    BY DEF TypeInv, TypeOK, BookOK
  <2>2. \A i \in DOMAIN orders :
          /\ i \in DOMAIN orders'
          /\ orders'[i] = orders[i] \/ orders'[i] = Acknowledged(orders[i])
    BY DEF StartSweep
  <2>3. QED BY <2>1, <2>2, KeptChanges, KeptReflexive DEF BookKept
<1>6. \A i \in DOMAIN orders' : orders'[i].submittedIdx <= idx'
  BY <1>1, <1>5, StampsStayPast
<1>7. QED BY <1>1, <1>2, <1>4, <1>6 DEF TurnInv

\* A turn taken: order i is picked no more, and the others picked stay so.
LEMMA TakenTurn ==
  ASSUME TypeInv, TurnInv, NEW i \in DOMAIN orders,
         UNCHANGED <<run, idx, bar, phase>>, phase \in {"apply", "sweep"},
         DOMAIN orders' = DOMAIN orders,
         verdicts' = [verdicts EXCEPT ![i] = "none"],
         sweep' = sweep \ {i} \/ (phase = "apply" /\ sweep' = sweep),
         \A j \in DOMAIN orders :
           /\ orders'[j].submittedIdx = orders[j].submittedIdx
           /\ orders'[j].oco = orders[j].oco
           /\ PlainMarket(orders'[j]) <=> PlainMarket(orders[j])
           /\ j # i => StaysLive(orders[j], orders'[j])
  PROVE  TurnInv'
<1>1. Modes' = Modes /\ Defers' = Defers
  BY DEF Modes, Defers, NextBarOpen
<1>2. sweep' \subseteq sweep /\ i \notin sweep' /\ DOMAIN verdicts' = DOMAIN verdicts
  BY DEF TurnInv
<1>3. \A j \in DOMAIN verdicts : verdicts'[j] = IF j = i THEN "none" ELSE verdicts[j]
  OBVIOUS
<1>4. phase' # "apply" => Pending' = {}
  BY <1>2, <1>3 DEF TurnInv, Pending
<1>5. phase' # "sweep" => sweep' = {}
  BY <1>2 DEF TurnInv
<1>6. ASSUME NEW j \in DOMAIN orders', Awaits(j)'
      PROVE  /\ orders'[j].oco = NoOrder => IsLive(orders'[j])
             /\ \/ orders'[j].submittedIdx < idx'
                \/ j \in sweep' /\ PlainMarket(orders'[j]) /\ ~Defers'
  <2>1. j # i /\ Awaits(j) /\ (j \in sweep <=> j \in sweep')
    BY <1>2, <1>3, <1>6 DEF Awaits
  <2>2. /\ orders[j].oco = NoOrder => IsLive(orders[j])
        /\ \/ orders[j].submittedIdx < idx
           \/ j \in sweep /\ PlainMarket(orders[j]) /\ ~Defers
    BY <2>1 DEF TurnInv
  <2>3. QED BY <1>1, <2>1, <2>2 DEF StaysLive
<1>7. QED BY <1>1, <1>4, <1>5, <1>6 DEF TurnInv

LEMMA AnnounceTurn ==
  ASSUME TypeInv, TurnInv, NEW i \in DOMAIN orders, AnnounceVerdict(i)
  PROVE  TurnInv'
<1>1. i \in DOMAIN verdicts /\ verdicts[i] \in Verdicts \ {"none", "fill"} /\ orders[i] \in Order
  BY DEF AnnounceVerdict, Due, Pending, TypeInv, TypeOK, StepOK, BookOK
<1>2. Announced[verdicts[i]] \in Notices
  BY <1>1 DEF Announced, Verdicts, Notices
<1>3. /\ DOMAIN orders' = DOMAIN orders
      /\ \A j \in DOMAIN orders : j # i => orders'[j] = orders[j]
      /\ orders'[i] = Note(orders[i], Announced[verdicts[i]])
  BY DEF AnnounceVerdict
<1>4. SameFills(orders[i], orders'[i])
  BY <1>1, <1>2, <1>3, NoteOrder
<1>5. \A j \in DOMAIN orders :
        /\ SameTerms(orders[j], orders'[j])
        /\ j # i => StaysLive(orders[j], orders'[j])
  BY <1>3, <1>4, SameFillsReflexive DEF SameFills, StaysLive
<1>6. UNCHANGED <<run, idx, bar, phase>> /\ phase = "apply"
      /\ verdicts' = [verdicts EXCEPT ![i] = "none"] /\ sweep' = sweep
  BY DEF AnnounceVerdict, Due, clockVars
<1>7. \A j \in DOMAIN orders :
        /\ orders'[j].submittedIdx = orders[j].submittedIdx
        /\ orders'[j].oco = orders[j].oco
        /\ PlainMarket(orders'[j]) <=> PlainMarket(orders[j])
        /\ j # i => StaysLive(orders[j], orders'[j])
  BY <1>5 DEF SameTerms, PlainMarket
<1>8. QED BY <1>3, <1>6, <1>7, TakenTurn

\* An order fills in its turn only.
LEMMA FillIsAwaited ==
  ASSUME TypeInv, NEW i \in DOMAIN orders, FillOrder(i)
  PROVE  /\ Awaits(i) /\ phase \in {"apply", "sweep"} /\ FillFrame(i)
<1>1. FillTurn(i) /\ FillFrame(i)
  BY DEF FillOrder, LeaveWorking, RefuseFill, KillFill, AddFill, OpenFill, CloseFill
<1>2. QED BY <1>1 DEF FillTurn, Due, Pending, Awaits

LEMMA FillOrderTurn ==
  ASSUME TypeInv, TurnInv, NEW i \in DOMAIN orders, FillOrder(i)
  PROVE  TurnInv'
<1>1. phase \in {"apply", "sweep"} /\ FillFrame(i)
  BY FillIsAwaited
<1>2. Booked(i) /\ DOMAIN orders' = DOMAIN orders
  BY FillBooked
<1>3. /\ UNCHANGED <<run, idx, bar, phase>> /\ sweep' = sweep \ {i}
      /\ verdicts' = [verdicts EXCEPT ![i] = "none"]
  BY <1>1 DEF FillFrame, clockVars
<1>4. \A j \in DOMAIN orders :
        /\ orders'[j].submittedIdx = orders[j].submittedIdx
        /\ orders'[j].oco = orders[j].oco
        /\ PlainMarket(orders'[j]) <=> PlainMarket(orders[j])
        /\ j # i => StaysLive(orders[j], orders'[j])
  BY <1>2 DEF Booked, SameTerms, PlainMarket
<1>5. QED BY <1>1, <1>2, <1>3, <1>4, TakenTurn

LEMMA TurnHolds ==
  /\ Init => TurnInv
  /\ TypeInv /\ TurnInv /\ [Next]_vars => TurnInv'
<1>1. Init => TurnInv
  BY DEF Init, TurnInv, Pending, Awaits
<1>2. ASSUME TypeInv, TurnInv, [Next]_vars PROVE TurnInv'
  <2>1. CASE UNCHANGED vars
    <3>1. UNCHANGED <<run, orders, idx, phase, bar, verdicts, sweep>>
      BY <2>1 DEF vars, bookVars, clockVars, stepVars
    <3>2. Modes' = Modes /\ Defers' = Defers /\ Pending' = Pending
      BY <3>1 DEF Modes, Defers, NextBarOpen, Pending
    <3>3. \A i : Awaits(i)' <=> Awaits(i)
      BY <3>1 DEF Awaits
    <3>4. QED BY <1>2, <3>1, <3>2, <3>3 DEF TurnInv
  <2>2. CASE Strategy
    BY <1>2, <2>2, StrategyTurn
  <2>3. CASE StartEvent
    BY <1>2, <2>3, StartTurn
  <2>4. CASE Step
    BY <1>2, <2>4, UnpickedTurn, EndTurn, MatchTurn, SweepTurn, AnnounceTurn, FillOrderTurn
    DEF Step
  <2>5. QED BY <1>2, <2>1, <2>2, <2>3, <2>4 DEF Next, Market
<1>3. QED BY <1>1, <1>2

-----------------------------------------------------------------------------
(* The theorems *)

\* What the match pass or the sweep has picked is of an earlier event, or of its
\* own for a market order outside deferral, and live until its turn unless linked.
THEOREM TurnsAreOrdered == Spec => [](TypeInv /\ TurnInv)
BY TypeCorrect, TurnHolds, PTL DEF Spec

\* The two kinds of step, as they treat orders.
LEMMA FillOrQuiet ==
  ASSUME TypeInv, [Next]_vars
  PROVE  BookKept \/ \E i \in DOMAIN orders : FillOrder(i)
<1>1. CASE Strategy
  BY <1>1, StrategyKeepsTrades
<1>2. CASE [StartEvent \/ Step]_vars
  BY <1>2, MarketKeepsTrades
<1>3. QED BY <1>1, <1>2 DEF Next, Market

\* A finished, unlinked order keeps its status and its fills for good.
THEOREM EndIsFinal == Spec => EndedOrdersStayEnded
<1>1. TypeInv /\ TurnInv /\ [Next]_vars =>
        [\A i \in DOMAIN orders :
           orders[i].status \in Terminal /\ orders[i].oco = NoOrder =>
             /\ orders'[i].status = orders[i].status
             /\ orders'[i].filled = orders[i].filled]_vars
  <2> SUFFICES ASSUME TypeInv, TurnInv, [Next]_vars, NEW i \in DOMAIN orders,
                      orders[i].status \in Terminal, orders[i].oco = NoOrder
               PROVE  /\ orders'[i].status = orders[i].status
                      /\ orders'[i].filled = orders[i].filled
      OBVIOUS
  <2>1. CASE BookKept
    BY <2>1 DEF BookKept, Kept, SameTrade, StaysEnded
  <2>2. ASSUME NEW k \in DOMAIN orders, FillOrder(k)
        PROVE  /\ orders'[i].status = orders[i].status
               /\ orders'[i].filled = orders[i].filled
    <3>1. Booked(k) /\ Awaits(k)
      BY <2>2, FillBooked, FillIsAwaited
    <3>2. k # i
      BY <3>1 DEF TurnInv, IsLive, Working, Terminal
    <3>3. QED BY <3>1, <3>2 DEF Booked, StaysEnded, SameFills
  <2>3. QED BY <2>1, <2>2, FillOrQuiet
<1>2. QED BY <1>1, TurnsAreOrdered, PTL DEF Spec, EndedOrdersStayEnded

\* A new order has traded nothing.
LEMMA NewOrderUnfilled ==
  ASSUME TypeInv, [Next]_vars, NEW i \in DOMAIN orders' \ DOMAIN orders
  PROVE  orders'[i].fillIdx = -1
<1>1. Strategy
  BY FillBooked DEF Next, Market, StartEvent, Step, vars, bookVars, StepQuote, BeginStep,
     SettleExpiry, FillIntents, Exits, MarginCheck, Match, AnnounceVerdict, EndMatch,
     StashEntry, BarredEntry, EnterOnSignal, NoEntry, StartSweep, EndStep
<1>2. PICK t \in Templates, parent \in DOMAIN orders \cup {NoOrder}, stamp \in 0..idx :
        Submit(t, parent, stamp)
  BY <1>1 DEF Strategy, LinkOco, Cancel, Modify, RequestClose, ObserveEquity, HaltMargin,
     bookVars
<1> DEFINE plain == [side |-> t.side, qty |-> t.qty, units |-> t.units,
                     kind |-> t.kind, tif |-> t.tif, expire |-> t.expire,
                     postOnly |-> t.postOnly, reduceOnly |-> t.reduceOnly,
                     status |-> "Submitted", submittedIdx |-> stamp,
                     submittedTs |-> now, arrivalTs |-> now + Latency,
                     parent |-> parent, oco |-> NoOrder,
                     filled |-> 0, faulted |-> FALSE, notices |-> <<>>,
                     fillIdx |-> -1]
           order == IF Rests(t) /\ parent = NoOrder THEN Acknowledged(plain) ELSE plain
<1>3. orders'[i] = order
  BY <1>2 DEF Submit
<1>4. order.fillIdx = -1
  BY DEF Acknowledged, Note, Move
<1>5. QED BY <1>3, <1>4

\* A closing fill leaves every position no larger than it was.
LEMMA ClosingReduces ==
  ASSUME TypeInv, NEW i \in DOMAIN orders, CloseFill(i), NEW p \in DOMAIN positions'
  PROVE  p \in DOMAIN positions /\ positions'[p].size <= positions[p].size
<1> DEFINE o == Presented(i)
           size == Slice(Wanted(o))
<1>1. o \in Order /\ Sized(o, i) /\ Trades(o, i)
  BY PresentedOrder DEF CloseFill, Sized, TypeInv, TypeOK
<1>2. size \in Nat
  BY <1>1, SlicePositive
<1>3. positions' = Reduced(FirstPosition, size)
  BY DEF CloseFill
<1>4. \A q \in DOMAIN positions : positions[q].size \in Nat
  BY DEF TypeInv, TypeOK, LedgerOK, Position
<1> HIDE DEF size, o
<1>5. CASE size >= positions[FirstPosition].size
  BY <1>3, <1>4, <1>5 DEF Reduced, Closed, Without
<1>6. CASE ~(size >= positions[FirstPosition].size)
  <2>1. positions' = [positions EXCEPT ![FirstPosition].size = @ - size]
    BY <1>3, <1>6 DEF Reduced
  <2>2. p \in DOMAIN positions /\ positions[p] \in Position
    BY <2>1 DEF TypeInv, TypeOK, LedgerOK
  <2>3. CASE p = FirstPosition
    BY <1>2, <2>1, <2>2, <2>3 DEF Position
  <2>4. CASE p # FirstPosition
    BY <1>4, <2>1, <2>2, <2>4
  <2>5. QED BY <2>2, <2>3, <2>4
<1>7. QED BY <1>5, <1>6

\* No order trades on an event its strategy had seen when it placed it.
THEOREM NoOrderLooksAhead == Spec => []NoLookahead
<1>1. Init => NoLookahead
  BY DEF Init, NoLookahead
<1>2. TypeInv /\ TurnInv /\ NoLookahead /\ [Next]_vars => NoLookahead'
  <2> SUFFICES ASSUME TypeInv, TurnInv, NoLookahead, [Next]_vars
               PROVE  NoLookahead'
      OBVIOUS
  <2> DEFINE Seen(o, n) ==
               IF PlainMarket(o) /\ ~(NextBarOpen /\ Modes = {"Bar"})
               THEN n >= o.submittedIdx ELSE n > o.submittedIdx
  <2>1. UNCHANGED <<NextBarOpen, Modes>>
    BY RunIsFixed DEF NextBarOpen, Modes
  <2>2. ASSUME NEW i \in DOMAIN orders', orders'[i].fillIdx # -1
        PROVE  Seen(orders'[i], orders'[i].fillIdx)
    <3>1. CASE i \notin DOMAIN orders
      BY <2>2, <3>1, NewOrderUnfilled
    <3>2. CASE i \in DOMAIN orders /\ orders'[i].fillIdx = orders[i].fillIdx
      <4>1. SameTrade(orders[i], orders'[i]) \/ SameTerms(orders[i], orders'[i])
        BY <3>2, FillOrQuiet, FillBooked DEF BookKept, Kept, Booked
      <4>2. /\ orders'[i].submittedIdx = orders[i].submittedIdx
            /\ PlainMarket(orders'[i]) <=> PlainMarket(orders[i])
        BY <4>1 DEF SameTrade, SameTerms, PlainMarket
      <4>3. QED BY <2>2, <3>2, <4>2 DEF NoLookahead
    <3>3. CASE i \in DOMAIN orders /\ orders'[i].fillIdx # orders[i].fillIdx
      <4>1. PICK k \in DOMAIN orders : FillOrder(k)
        BY <3>3, FillOrQuiet DEF BookKept, Kept, SameTrade
      <4>2. Booked(k) /\ Awaits(k)
        BY <4>1, FillBooked, FillIsAwaited
      <4>3. k = i /\ orders'[i].fillIdx = idx /\ SameTerms(orders[i], orders'[i])
        BY <3>3, <4>2 DEF Booked, SameFills
      <4>4. /\ orders[i].submittedIdx <= idx
            /\ \/ orders[i].submittedIdx < idx
               \/ i \in sweep /\ PlainMarket(orders[i]) /\ ~Defers
        BY <4>2, <4>3 DEF TurnInv
      <4>5. ~Defers => ~(NextBarOpen /\ Modes = {"Bar"})
        <5>1. phase # "observe"
          BY <4>1, FillIsAwaited
        <5>2. bar.mode \in Modes
          BY <5>1 DEF TurnInv
        <5>3. QED BY <5>2 DEF Defers
      <4>6. idx \in Int /\ orders[i].submittedIdx \in Int
        <5>1. idx \in Int
          BY ConfigTypes DEF TypeInv, TypeOK, ClockOK
        <5>2. orders[i].submittedIdx \in Int
          <6>1. k = i /\ orders[k] \in Order
            BY <4>3 DEF TypeInv, TypeOK, BookOK
          <6>2. QED BY <6>1 DEF Order
        <5>3. QED BY <5>1, <5>2
      <4>7. /\ orders'[i].submittedIdx = orders[i].submittedIdx
            /\ PlainMarket(orders'[i]) <=> PlainMarket(orders[i])
        BY <4>3 DEF SameTerms, PlainMarket
      <4>8. QED BY <4>3, <4>4, <4>5, <4>6, <4>7
    <3>4. QED BY <3>1, <3>2, <3>3
  <2>3. QED BY <2>1, <2>2 DEF NoLookahead
<1>3. QED BY <1>1, <1>2, TurnsAreOrdered, PTL DEF Spec

\* A reduce-only order that trades opens nothing and enlarges nothing.
THEOREM ReduceOnlyReduces == Spec => ReduceOnlyNeverOpens
<1>1. TypeInv /\ [Next]_vars =>
        [\A i \in DOMAIN orders :
           orders[i].reduceOnly /\ orders'[i].filled > orders[i].filled =>
             \A p \in DOMAIN positions' :
               p \in DOMAIN positions /\ positions'[p].size <= positions[p].size]_vars
  <2> SUFFICES ASSUME TypeInv, [Next]_vars, NEW i \in DOMAIN orders,
                      orders[i].reduceOnly, orders'[i].filled > orders[i].filled,
                      NEW p \in DOMAIN positions'
               PROVE  p \in DOMAIN positions /\ positions'[p].size <= positions[p].size
      OBVIOUS
  <2>1. orders'[i].filled # orders[i].filled
    BY DEF TypeInv, TypeOK, BookOK, Order
  <2>2. PICK k \in DOMAIN orders : FillOrder(k)
    BY <2>1, FillOrQuiet DEF BookKept, Kept, SameTrade
  <2>3. k = i
    BY <2>1, <2>2, FillBooked DEF Booked, SameFills
  <2>4. Presented(i).reduceOnly
    BY PresentedOrder DEF SameFills, SameTerms, TypeInv, TypeOK
  <2>5. ~AddFill(i) /\ ~OpenFill(i)
    BY <2>4 DEF AddFill, OpenFill, Adding, Opening, NoRoom
  <2>6. CloseFill(i)
    BY <2>1, <2>2, <2>3, <2>5, UntradedBooked DEF FillOrder, SameFills
  <2>7. QED BY <2>6, ClosingReduces
<1>2. QED BY <1>1, TypeCorrect, PTL DEF Spec, ReduceOnlyNeverOpens

-----------------------------------------------------------------------------
(* One cancels other *)

\* What is linked to order k of a book.
Sibling(os, j, k) == j # k /\ os[k].oco # NoOrder /\ os[j].oco = os[k].oco

\* after_fill fills nobody and leaves no sibling working.
LEMMA AfterFillEnds ==
  ASSUME NEW D, NEW os \in [D -> Order], NEW k \in D, NEW j \in D
  PROVE  /\ Spared(os[j], AfterFill(os, k)[j])
         /\ Sibling(os, j, k) => AfterFill(os, k)[j].status \in Terminal
<1> DEFINE woken == ActivateChildren(os, k)
<1>1. DOMAIN woken = D
  BY DEF ActivateChildren
<1>2. ASSUME NEW l \in D
      PROVE  woken[l] \in Order /\ woken[l].oco = os[l].oco /\ Spared(os[l], woken[l])
  <2>1. woken[l] = os[l] \/ woken[l] = Acknowledged(os[l])
    BY DEF ActivateChildren
  <2>2. QED BY <2>1, AcknowledgedOrder, ChangesForward DEF SameFills, SameTerms, Forward, Spared
<1> HIDE DEF woken
<1>3. AfterFill(os, k)[j] = IF Sibling(os, j, k) THEN CancelWorking(woken[j]) ELSE woken[j]
  BY <1>1, <1>2 DEF AfterFill, CancelSiblings, Sibling, woken
<1>4. QED BY <1>2, <1>3, ChangesForward, CanceledEnds DEF Forward, Spared

\* record_fill fills its own order at most, and then ends what is linked to it.
LEMMA RecordFillEnds ==
  ASSUME NEW D, NEW os \in [D -> Order], NEW k \in D, NEW size \in Nat, NEW requested,
         NEW n \in Nat, NEW i \in D,
         RecordFill(os, k, size, requested, n)[i].status = "Filled", os[i].status # "Filled"
  PROVE  /\ i = k
         /\ \A j \in D : Sibling(os, j, k) =>
              RecordFill(os, k, size, requested, n)[j].status \in Terminal
<1> DEFINE filled == os[k].filled + size
           done   == filled >= requested
           booked == [os[k] EXCEPT !.filled = filled,
                                   !.fillIdx = IF @ = -1 THEN n ELSE @]
           to     == IF done THEN "Filled" ELSE "PartiallyFilled"
           moved  == Note(Move(booked, to), "Filled")
           order  == IF ~done /\ moved.tif = "Ioc" THEN CancelRemainder(moved) ELSE moved
           now1   == [os EXCEPT ![k] = order]
<1>1. booked \in Order /\ booked.status = os[k].status /\ booked.oco = os[k].oco
  <2>1. os[k] \in Order
    OBVIOUS
  <2>2. os[k].filled \in Nat /\ os[k].fillIdx \in Nat \cup {-1}
    BY <2>1 DEF Order
  <2>3. filled \in Nat
    BY <2>2
  <2>4. (IF os[k].fillIdx = -1 THEN n ELSE os[k].fillIdx) \in Nat \cup {-1}
    BY <2>2
  <2>5. QED BY <2>1, <2>3, <2>4 DEF Order
<1>2. to \in Statuses /\ (to = "Filled" <=> done)
  BY EndedStatuses
<1>3. RecordFill(os, k, size, requested, n) = IF done THEN AfterFill(now1, k) ELSE now1
  BY DEF RecordFill
<1> HIDE DEF booked, to
<1>4. /\ moved \in Order /\ moved.oco = os[k].oco
      /\ ~done => Spared(os[k], moved)
  <2>1. moved \in Order /\ moved.status = Move(booked, to).status /\ moved.oco = booked.oco
    BY <1>1, <1>2, MovedAndNoted, NotedStatus, EndedStatuses DEF SameFills, SameTerms
  <2>2. to # "Filled" => Spared(booked, Move(booked, to))
    BY <1>1 DEF Move, Spared, Order
  <2>3. QED BY <1>1, <1>2, <2>1, <2>2 DEF Spared
<1> HIDE DEF moved
<1>5. /\ order \in Order /\ order.oco = os[k].oco
      /\ ~done => Spared(os[k], order)
  BY <1>4, CancelRemainderOrder, ChangesForward DEF SameFills, SameTerms, Forward, Spared
<1> HIDE DEF order, filled
<1>6. /\ now1 \in [D -> Order] /\ now1[k].oco = os[k].oco
      /\ \A j \in D \ {k} : now1[j] = os[j]
      /\ ~done => Spared(os[k], now1[k])
  BY <1>5
<1> HIDE DEF now1
<1>7. done
  BY <1>3, <1>6 DEF Spared
<1>8. i = k
  BY <1>3, <1>6, <1>7, AfterFillEnds DEF Spared
<1>9. ASSUME NEW j \in D, Sibling(os, j, k)
      PROVE  AfterFill(now1, k)[j].status \in Terminal
  <2>1. Sibling(now1, j, k)
    BY <1>6, <1>9 DEF Sibling
  <2>2. QED BY <1>6, <2>1, AfterFillEnds
<1>10. QED BY <1>3, <1>7, <1>8, <1>9

\* The step that completes a leg leaves no leg linked to it working.  Only a
\* completing slice fills an order, and after_fill then cancels every sibling
\* that is still working, whether or not its own outcome is pending.
THEOREM LegsEndTogether == Spec => FillCancelsSiblings
<1>1. TypeInv /\ [Next]_vars =>
        [\A i, j \in DOMAIN orders :
           /\ orders[i].status # "Filled" /\ orders'[i].status = "Filled"
           /\ i # j /\ orders[i].oco # NoOrder /\ orders[j].oco = orders[i].oco
           => orders'[j].status \in Terminal]_vars
  <2> SUFFICES ASSUME TypeInv, [Next]_vars, NEW i \in DOMAIN orders, NEW j \in DOMAIN orders,
                      orders[i].status # "Filled", orders'[i].status = "Filled",
                      Sibling(orders, j, i)
               PROVE  orders'[j].status \in Terminal
      BY DEF Sibling
  <2>1. ~BookKept
    BY DEF BookKept, Kept, Forward, Spared
  <2>2. PICK k \in DOMAIN orders : FillOrder(k)
    BY <2>1, FillOrQuiet
  <2>3. ~(LeaveWorking(k) \/ RefuseFill(k) \/ KillFill(k))
    BY UntradedBooked DEF Forward, Spared
  <2>4. PICK size, requested :
          size \in Nat \ {0} /\ orders' = RecordFill(Book(k), k, size, requested, idx)
    BY <2>2, <2>3, SliceOfFill DEF FillOrder
  <2>5. /\ BookOK /\ idx \in Nat
    BY ConfigTypes DEF TypeInv, TypeOK, ClockOK
  <2>6. /\ Book(k) \in [DOMAIN orders -> Order]
        /\ \A l \in DOMAIN orders \ {k} : Book(k)[l] = orders[l]
        /\ Book(k)[k].oco = orders[k].oco /\ Spared(orders[k], Book(k)[k])
    BY <2>5, PresentedOrder, PresentedStatus DEF Kept, Forward, SameFills, SameTerms
  <2>7. Book(k)[i].status # "Filled"
    BY <2>6 DEF Spared
  <2>8. /\ i = k
        /\ \A l \in DOMAIN orders : Sibling(Book(k), l, k) => orders'[l].status \in Terminal
    BY <2>4, <2>5, <2>6, <2>7, RecordFillEnds
  <2>9. Sibling(Book(k), j, k)
    BY <2>6, <2>8 DEF Sibling
  <2>10. QED BY <2>8, <2>9
<1>2. QED BY <1>1, TypeCorrect, PTL DEF Spec, FillCancelsSiblings

-----------------------------------------------------------------------------
(* What is told of one order *)

\* The notice that tells a status.
Shown(status) == IF status = "PartiallyFilled" THEN "Filled" ELSE status

\* No end has been told.
Untold(o) == \A k \in DOMAIN o.notices : o.notices[k] \notin FinalNotices

\* The last notice tells the status, and no end was told before it.
Told(o) ==
  /\ \A k \in 1..(Len(o.notices) - 1) : o.notices[k] \notin FinalNotices
  /\ IF o.status = "Submitted" THEN o.notices = <<>>
     ELSE o.notices # <<>> /\ LastNotice(o) = Shown(o.status)

Good(o) == ~o.faulted /\ Told(o)

LEMMA NoticesAreSeq ==
  ASSUME NEW o \in Order
  PROVE  /\ Len(o.notices) \in Nat /\ DOMAIN o.notices = 1..Len(o.notices)
         /\ o.notices # <<>> => Len(o.notices) \in DOMAIN o.notices
<1>1. o.notices \in Seq(Notices)
  BY DEF Order
<1>2. QED BY <1>1

LEMMA LiveUntold ==
  ASSUME NEW o \in Order, Told(o), IsLive(o)
  PROVE  Untold(o)
<1>1. CASE o.status = "Submitted"
  BY <1>1 DEF Told, Untold
<1>2. CASE o.status # "Submitted"
  <2>1. LastNotice(o) \in {"Accepted", "Triggered", "Filled"}
    BY <1>2 DEF Told, Shown, IsLive, Working
  <2>2. o.notices[Len(o.notices)] \notin FinalNotices
    BY <2>1 DEF LastNotice, FinalNotices
  <2>3. \A k \in DOMAIN o.notices : k \in 1..(Len(o.notices) - 1) \/ k = Len(o.notices)
    BY NoticesAreSeq
  <2>4. QED BY <2>2, <2>3 DEF Told, Untold
<1>3. QED BY <1>1, <1>2

LEMMA NotedTells ==
  ASSUME NEW o \in Order, Untold(o), NEW event \in Notices, event = Shown(o.status),
         o.status # "Submitted"
  PROVE  Told(Note(o, event))
<1> DEFINE s == o.notices
           t == Append(s, event)
<1>1. s \in Seq(Notices)
  BY DEF Order
<1>2. Note(o, event).notices = t /\ Note(o, event).status = o.status
  BY DEF Note, Order
<1>3. /\ Len(t) = Len(s) + 1 /\ Len(s) \in Nat /\ t[Len(t)] = event /\ t # <<>>
      /\ \A k \in 1..Len(s) : t[k] = s[k]
      /\ DOMAIN s = 1..Len(s)
  BY <1>1
<1> HIDE DEF t, s
<1>4. \A k \in 1..(Len(t) - 1) : t[k] \notin FinalNotices
  BY <1>3 DEF Untold, s
<1>5. QED BY <1>2, <1>3, <1>4 DEF Told, LastNotice

LEMMA MovedIsGood ==
  ASSUME NEW o \in Order, Good(o), IsLive(o), NEW to \in Statuses \ {"Submitted"},
         <<o.status, to>> \in LegalMoves
  PROVE  Good(Note(Move(o, to), Shown(to)))
<1> DEFINE m == Move(o, to)
<1>1. m \in Order /\ m.status = to /\ m.notices = o.notices /\ ~m.faulted
  BY MoveOrder DEF Move, Good, Order
<1>2. Untold(m)
  BY <1>1, LiveUntold DEF Untold, Good
<1>3. Shown(to) \in Notices
  BY DEF Shown, Notices, Statuses, Working, Terminal
<1> HIDE DEF m
<1>4. Told(Note(m, Shown(to)))
  BY <1>1, <1>2, <1>3, NotedTells
<1>5. ~Note(m, Shown(to)).faulted
  BY <1>1 DEF Note, Order
<1>6. QED BY <1>4, <1>5 DEF Good, m

LEMMA ChangesAreGood ==
  ASSUME NEW o \in Order, Good(o)
  PROVE  /\ Good(CancelWorking(o))
         /\ IsLive(o) => Good(CancelRemainder(o)) /\ Good(Refused(o))
         /\ o.status = "Submitted" => Good(Acknowledged(o))
<1>1. \A to : Shown(to) = IF to = "PartiallyFilled" THEN "Filled" ELSE to
  BY DEF Shown
<1>2. IsLive(o) => /\ <<o.status, "Canceled">> \in LegalMoves
                   /\ <<o.status, "Rejected">> \in LegalMoves
  BY DEF LegalMoves, IsLive, Working
<1>3. o.status = "Submitted" => <<o.status, "Accepted">> \in LegalMoves /\ IsLive(o)
  BY DEF LegalMoves, IsLive, Working
<1>4. IsLive(o) => /\ Good(Note(Move(o, "Canceled"), "Canceled"))
                   /\ Good(Note(Move(o, "Rejected"), "Rejected"))
  <2> SUFFICES ASSUME IsLive(o)
               PROVE  /\ Good(Note(Move(o, "Canceled"), "Canceled"))
                      /\ Good(Note(Move(o, "Rejected"), "Rejected"))
      OBVIOUS
  <2>1. Shown("Canceled") = "Canceled" /\ Shown("Rejected") = "Rejected"
    BY <1>1
  <2>2. /\ Good(Note(Move(o, "Canceled"), Shown("Canceled")))
        /\ Good(Note(Move(o, "Rejected"), Shown("Rejected")))
    BY <1>2, MovedIsGood, EndedStatuses
  <2>3. QED BY <2>1, <2>2
<1>5. o.status = "Submitted" => Good(Note(Move(o, "Accepted"), "Accepted"))
  <2> SUFFICES ASSUME o.status = "Submitted" PROVE Good(Note(Move(o, "Accepted"), "Accepted"))
      OBVIOUS
  <2>1. Shown("Accepted") = "Accepted"
    BY <1>1
  <2>2. Good(Note(Move(o, "Accepted"), Shown("Accepted")))
    BY <1>3, MovedIsGood, EndedStatuses
  <2>3. QED BY <2>1, <2>2
<1>6. QED
  BY <1>2, <1>4, <1>5 DEF CancelWorking, CancelRemainder, Refused, Acknowledged

-----------------------------------------------------------------------------
(* Booking a slice, order by order *)

\* What record_fill makes of the order itself.
Sliced(o, size, requested, n) ==
  LET done   == o.filled + size >= requested
      booked == [o EXCEPT !.filled = o.filled + size,
                          !.fillIdx = IF @ = -1 THEN n ELSE @]
      moved  == Note(Move(booked, IF done THEN "Filled" ELSE "PartiallyFilled"), "Filled")
  IN  IF ~done /\ moved.tif = "Ioc" THEN CancelRemainder(moved) ELSE moved

LEMMA RecordFillSlices ==
  ASSUME NEW os, NEW k, NEW size, NEW requested, NEW n
  PROVE  RecordFill(os, k, size, requested, n) =
           LET now1 == [os EXCEPT ![k] = Sliced(os[k], size, requested, n)] IN
           IF os[k].filled + size >= requested THEN AfterFill(now1, k) ELSE now1
BY DEF RecordFill, Sliced

LEMMA SlicedOrder ==
  ASSUME NEW o \in Order, NEW size \in Nat, NEW requested, NEW n \in Nat,
         IsLive(o), o.status # "Submitted"
  PROVE  /\ Begun(o, Sliced(o, size, requested, n))
         /\ Good(o) => Good(Sliced(o, size, requested, n))
         /\ o.filled + size >= requested => Sliced(o, size, requested, n).status = "Filled"
<1> DEFINE done   == o.filled + size >= requested
           booked == [o EXCEPT !.filled = o.filled + size,
                               !.fillIdx = IF @ = -1 THEN n ELSE @]
           to     == IF done THEN "Filled" ELSE "PartiallyFilled"
           moved  == Note(Move(booked, to), "Filled")
<1>1. /\ booked \in Order /\ booked.status = o.status /\ IsLive(booked)
      /\ Good(o) => Good(booked)
  <2>1. o.filled + size \in Nat /\ (IF o.fillIdx = -1 THEN n ELSE o.fillIdx) \in Nat \cup {-1}
    BY DEF Order
  <2>2. /\ booked \in Order /\ booked.status = o.status
        /\ booked.notices = o.notices /\ booked.faulted = o.faulted
    BY <2>1 DEF Order
  <2> HIDE DEF booked
  <2>3. QED BY <2>2 DEF Good, Told, LastNotice, IsLive
<1>2. /\ to \in Statuses \ {"Submitted"} /\ Shown(to) = "Filled"
      /\ <<booked.status, to>> \in LegalMoves
  BY <1>1, EndedStatuses DEF Shown, IsLive, Working, LegalMoves
<1>3. Sliced(o, size, requested, n) =
        IF ~done /\ moved.tif = "Ioc" THEN CancelRemainder(moved) ELSE moved
  BY DEF Sliced
<1>4. done => to = "Filled"
  OBVIOUS
<1>5. ~done => to = "PartiallyFilled"
  OBVIOUS
<1> HIDE DEF done, booked, to
<1>6. /\ moved \in Order /\ moved.status = to
      /\ Good(o) => Good(moved)
  <2>1. moved \in Order /\ moved.status = Move(booked, to).status
    BY <1>1, <1>2, MovedAndNoted, NotedStatus, EndedStatuses
  <2>2. Move(booked, to).status = to
    BY <1>1, <1>2 DEF Move, Order
  <2>3. Good(booked) => Good(Note(Move(booked, to), Shown(to)))
    BY <1>1, <1>2, MovedIsGood
  <2>4. QED BY <1>1, <1>2, <2>1, <2>2, <2>3
<1> HIDE DEF moved
<1>7. ~done => IsLive(moved)
  BY <1>5, <1>6 DEF IsLive, Working
<1>8. Begun(moved, CancelRemainder(moved))
  BY <1>6, ChangesForward DEF Forward
<1>9. moved.status # "Submitted"
  BY <1>2, <1>6
<1>10. QED
  BY <1>3, <1>4, <1>6, <1>7, <1>8, <1>9, ChangesAreGood DEF Begun, done
LEMMA SlicedAnyway ==
  ASSUME NEW o \in Order, NEW size \in Nat, NEW requested, NEW n \in Nat
  PROVE  /\ Sliced(o, size, requested, n) \in Order
         /\ Sliced(o, size, requested, n).oco = o.oco
         /\ Sliced(o, size, requested, n).parent = o.parent
         /\ Begun(o, Sliced(o, size, requested, n))
         /\ ~(o.filled + size >= requested) => Spared(o, Sliced(o, size, requested, n))
<1> DEFINE done   == o.filled + size >= requested
           booked == [o EXCEPT !.filled = o.filled + size,
                               !.fillIdx = IF @ = -1 THEN n ELSE @]
           to     == IF done THEN "Filled" ELSE "PartiallyFilled"
           moved  == Note(Move(booked, to), "Filled")
<1>1. /\ booked \in Order /\ booked.status = o.status
      /\ booked.oco = o.oco /\ booked.parent = o.parent
  <2>1. o.filled + size \in Nat /\ (IF o.fillIdx = -1 THEN n ELSE o.fillIdx) \in Nat \cup {-1}
    BY DEF Order
  <2>2. QED BY <2>1 DEF Order
<1>2. to \in Statuses \ {"Submitted"} /\ (~done => to # "Filled")
  BY EndedStatuses
<1>3. Sliced(o, size, requested, n) =
        IF ~done /\ moved.tif = "Ioc" THEN CancelRemainder(moved) ELSE moved
  BY DEF Sliced
<1> HIDE DEF done, booked, to
<1>4. /\ moved \in Order /\ moved.status = Move(booked, to).status
      /\ moved.oco = o.oco /\ moved.parent = o.parent
  BY <1>1, <1>2, MovedAndNoted, NotedStatus, EndedStatuses DEF SameFills, SameTerms
<1>5. Begun(o, moved) /\ (~done => Spared(o, moved))
  <2>1. Move(booked, to).status \in {to, booked.status}
    BY <1>1 DEF Move, Order
  <2>2. QED BY <1>1, <1>2, <1>4, <2>1 DEF Begun, Spared
<1> HIDE DEF moved
<1>6. /\ CancelRemainder(moved) \in Order /\ CancelRemainder(moved).oco = moved.oco
      /\ CancelRemainder(moved).parent = moved.parent
      /\ Forward(moved, CancelRemainder(moved))
  BY <1>4, CancelRemainderOrder, ChangesForward DEF SameFills, SameTerms
<1>7. QED BY <1>3, <1>4, <1>5, <1>6 DEF Begun, Spared, Forward, done

\* What after_fill makes of an order that is not the filled one.
Touched(o, p, k) ==
  \/ p = o
  \/ o.parent = k /\ o.status = "Submitted" /\ p = Acknowledged(o)
  \/ o.oco # NoOrder /\ p.status = "Canceled"

LEMMA AcknowledgedStatus ==
  ASSUME NEW o \in Order, o.status = "Submitted"
  PROVE  Acknowledged(o).status = "Accepted"
<1>1. Move(o, "Accepted").status = "Accepted"
  BY DEF Move, LegalMoves, Order
<1>2. QED BY <1>1, NotedStatus, EndedStatuses DEF Acknowledged

LEMMA CanceledOrNot ==
  ASSUME NEW o \in Order
  PROVE  CancelWorking(o) = o \/ CancelWorking(o).status = "Canceled"
<1>1. CASE IsLive(o)
  <2>1. Move(o, "Canceled").status = "Canceled"
    BY <1>1 DEF Move, LegalMoves, IsLive, Working, Order
  <2>2. QED BY <1>1, <2>1, NotedStatus, EndedStatuses DEF CancelWorking
<1>2. QED BY <1>1 DEF CancelWorking

LEMMA AfterFillTouches ==
  ASSUME NEW D, NEW os \in [D -> Order], NEW k \in D, os[k].parent # k, NEW j \in D
  PROVE  /\ j = k => AfterFill(os, k)[j] = os[j]
         /\ Touched(os[j], AfterFill(os, k)[j], k)
         /\ os[j].parent = k => AfterFill(os, k)[j].status # "Submitted"
<1> DEFINE woken == ActivateChildren(os, k)
<1>1. DOMAIN woken = D
  BY DEF ActivateChildren
<1>2. \A l \in D : woken[l] = IF os[l].parent = k /\ os[l].status = "Submitted"
                             THEN Acknowledged(os[l]) ELSE os[l]
  BY DEF ActivateChildren
<1> HIDE DEF woken
<1>3. \A l \in D : woken[l] \in Order /\ woken[l].oco = os[l].oco
  BY <1>2, AcknowledgedOrder DEF SameFills, SameTerms
<1>4. AfterFill(os, k)[j] = IF Sibling(os, j, k) THEN CancelWorking(woken[j]) ELSE woken[j]
  BY <1>1, <1>3 DEF AfterFill, CancelSiblings, Sibling, woken
<1>5. CancelWorking(woken[j]) = woken[j] \/ CancelWorking(woken[j]).status = "Canceled"
  BY <1>3, CanceledOrNot
<1>6. os[j].status = "Submitted" => Acknowledged(os[j]).status = "Accepted"
  BY AcknowledgedStatus
<1>7. os[j].parent = k => woken[j].status # "Submitted"
  BY <1>2, <1>6
<1>8. QED BY <1>2, <1>4, <1>5, <1>7 DEF Touched, Sibling

-----------------------------------------------------------------------------
(* One turn of the apply phase or of the sweep, order by order *)

\* What the turn of order k leaves of it and of the others.
Turned(k) ==
  /\ DOMAIN orders' = DOMAIN orders
  /\ Begun(orders[k], orders'[k]) /\ Begun(Presented(k), orders'[k])
  /\ \A j \in DOMAIN orders \ {k} : Touched(orders[j], orders'[j], k)
  /\ orders'[k].status = "Filled" /\ orders[k].status # "Filled" =>
       \A j \in DOMAIN orders : orders[j].parent = k => orders'[j].status # "Submitted"
  /\ IsLive(Presented(k)) /\ Presented(k).status # "Submitted" =>
       /\ Good(Presented(k)) => Good(orders'[k])
       /\ orders'[k].status = "Filled" \/
            \A j \in DOMAIN orders \ {k} : orders'[j] = orders[j]

LEMMA SliceTurns ==
  ASSUME TypeInv, NEW k \in DOMAIN orders, NEW size \in Nat, NEW requested,
         orders' = RecordFill(Book(k), k, size, requested, idx)
  PROVE  Turned(k)
<1> DEFINE o    == Presented(k)
           x    == Sliced(o, size, requested, idx)
           now1 == [orders EXCEPT ![k] = x]
           done == o.filled + size >= requested
<1>1. /\ orders \in [DOMAIN orders -> Order] /\ idx \in Nat
      /\ o \in Order /\ orders[k] \in Order /\ o.parent = orders[k].parent
      /\ Begun(orders[k], o)
  BY ConfigTypes, PresentedOrder, PresentedStatus
  DEF TypeInv, TypeOK, ClockOK, BookOK, SameFills, SameTerms, Kept, Forward
<1>2. orders[k].parent # k
  BY NoOrderAssumption DEF TypeInv, TypeOK, BookOK
<1>3. orders' = IF done THEN AfterFill(now1, k) ELSE now1
  <2>1. Book(k)[k] = o /\ [Book(k) EXCEPT ![k] = x] = now1
    BY <1>1 DEF Book
  <2>2. orders' = IF Book(k)[k].filled + size >= requested
                  THEN AfterFill([Book(k) EXCEPT ![k] = Sliced(Book(k)[k], size, requested, idx)], k)
                  ELSE [Book(k) EXCEPT ![k] = Sliced(Book(k)[k], size, requested, idx)]
    BY RecordFillSlices
  <2>3. QED BY <2>1, <2>2
<1> HIDE DEF o
<1>4. x \in Order /\ x.parent = o.parent /\ Begun(o, x) /\ (~done => Spared(o, x))
  BY <1>1, SlicedAnyway
<1>5. IsLive(o) /\ o.status # "Submitted" =>
        (Good(o) => Good(x)) /\ (done => x.status = "Filled")
  BY <1>1, SlicedOrder
<1> HIDE DEF x, done
<1>6. /\ now1 \in [DOMAIN orders -> Order] /\ now1[k] = x
      /\ \A j \in DOMAIN orders \ {k} : now1[j] = orders[j]
  BY <1>1, <1>4
<1> HIDE DEF now1
<1>7. now1[k].parent # k
  BY <1>1, <1>2, <1>4, <1>6
<1>8. \A j \in DOMAIN orders :
        /\ j = k => AfterFill(now1, k)[j] = now1[j]
        /\ Touched(now1[j], AfterFill(now1, k)[j], k)
        /\ now1[j].parent = k => AfterFill(now1, k)[j].status # "Submitted"
  BY <1>6, <1>7, AfterFillTouches
<1>9. DOMAIN orders' = DOMAIN orders /\ orders'[k] = x
  <2>1. DOMAIN AfterFill(now1, k) = DOMAIN orders
    BY <1>6 DEF AfterFill, CancelSiblings, ActivateChildren
  <2>2. QED BY <1>3, <1>6, <1>8, <2>1
<1>10. \A j \in DOMAIN orders \ {k} : Touched(orders[j], orders'[j], k)
  BY <1>3, <1>6, <1>8 DEF Touched
<1>11. ASSUME orders'[k].status = "Filled", orders[k].status # "Filled",
              NEW j \in DOMAIN orders, orders[j].parent = k
       PROVE  orders'[j].status # "Submitted"
  <2>1. done
    <3>1. o.status # "Filled"
      BY <1>11, PresentedStatus DEF Kept, Forward, Spared, o
    <3>2. QED BY <1>4, <1>9, <1>11, <3>1 DEF Spared
  <2>2. j # k /\ now1[j].parent = k
    BY <1>2, <1>6, <1>11
  <2>3. QED BY <1>3, <1>8, <2>1, <2>2
<1>12. IsLive(o) /\ o.status # "Submitted" =>
         /\ Good(o) => Good(orders'[k])
         /\ orders'[k].status = "Filled" \/
              \A j \in DOMAIN orders \ {k} : orders'[j] = orders[j]
  BY <1>3, <1>5, <1>6, <1>9
<1>13. Begun(orders[k], orders'[k]) /\ Begun(o, orders'[k])
  BY <1>1, <1>4, <1>9 DEF Begun
<1>14. QED BY <1>9, <1>10, <1>11, <1>12, <1>13 DEF Turned, o

LEMMA FillTurns ==
  ASSUME TypeInv, NEW k \in DOMAIN orders, FillOrder(k)
  PROVE  Turned(k)
<1> DEFINE o == Presented(k)
<1>1. /\ o \in Order /\ orders \in [DOMAIN orders -> Order]
      /\ Forward(orders[k], o)
  BY PresentedOrder, PresentedStatus DEF TypeInv, TypeOK, BookOK, Kept
<1>2. CASE AddFill(k) \/ OpenFill(k) \/ CloseFill(k)
  BY <1>2, SliceOfFill, SliceTurns
<1>3. CASE LeaveWorking(k) \/ RefuseFill(k) \/ KillFill(k)
  <2>1. /\ DOMAIN orders' = DOMAIN orders
        /\ \A j \in DOMAIN orders \ {k} : orders'[j] = orders[j]
        /\ Forward(orders[k], orders'[k])
    BY <1>3, UntradedBooked
  <2>2. orders'[k] \in {o, Refused(o), CancelRemainder(o)}
    BY <1>1, <1>3 DEF LeaveWorking, RefuseFill, KillFill, Book
  <2> HIDE DEF o
  <2>3. (IsLive(o) => (Good(o) => Good(orders'[k]))) /\ Begun(o, orders'[k])
    BY <1>1, <2>2, ChangesAreGood, ChangesForward, ForwardReflexive DEF Forward
  <2>4. ~(orders'[k].status = "Filled" /\ orders[k].status # "Filled")
    BY <2>1 DEF Forward, Spared
  <2>5. \A j \in DOMAIN orders \ {k} : Touched(orders[j], orders'[j], k)
    BY <2>1 DEF Touched
  <2>6. QED BY <2>1, <2>3, <2>4, <2>5 DEF Turned, Forward, o
<1>4. QED BY <1>2, <1>3 DEF FillOrder

-----------------------------------------------------------------------------
(* What every step keeps of an order, and what a new one is *)

Traced(o, p) ==
  /\ p.kind = o.kind /\ p.tif = o.tif /\ p.parent = o.parent
  /\ p.submittedIdx = o.submittedIdx /\ p.submittedTs = o.submittedTs
  /\ p.expire = o.expire /\ p.arrivalTs = o.arrivalTs
  /\ SameRequest(o, p)
  /\ p.oco = NoOrder => o.oco = NoOrder
  /\ StaysEnded(o, p) /\ Begun(o, p)

LEMMA StepTraces ==
  ASSUME TypeInv, [Next]_vars, NEW i \in DOMAIN orders
  PROVE  i \in DOMAIN orders' /\ Traced(orders[i], orders'[i])
<1>1. CASE BookKept
  BY <1>1 DEF BookKept, Kept, SameTrade, Forward, Traced
<1>2. ASSUME NEW k \in DOMAIN orders, FillOrder(k)
      PROVE  i \in DOMAIN orders' /\ Traced(orders[i], orders'[i])
  <2>1. Booked(k) /\ Turned(k)
    BY <1>2, FillBooked, FillTurns
  <2>2. orders[i] \in Order
    BY DEF TypeInv, TypeOK, BookOK
  <2>3. Begun(orders[i], orders'[i])
    <3>1. CASE i = k
      BY <2>1, <3>1 DEF Turned
    <3>2. CASE i # k
      <4>1. Touched(orders[i], orders'[i], k)
        BY <2>1, <3>2 DEF Turned
      <4>2. QED BY <2>2, <4>1, ChangesForward DEF Touched, Forward, Begun
    <3>3. QED BY <3>1, <3>2
  <2>4. QED BY <2>1, <2>3 DEF Booked, SameTerms, SameRequest, Traced
<1>3. QED BY <1>1, <1>2, FillOrQuiet

\* An order just submitted: acknowledged unless it waits for the sweep or a parent.
Fresh(o) ==
  /\ o.oco = NoOrder /\ o.filled = 0 /\ Good(o)
  /\ IF PlainMarket(o) \/ o.parent # NoOrder
     THEN o.status = "Submitted" ELSE o.status = "Accepted"
  /\ \E t \in Templates : /\ o.qty = t.qty /\ o.units = t.units
                         /\ o.side = t.side /\ o.reduceOnly = t.reduceOnly
  /\ o.submittedIdx = idx \/ (CrossInstrument /\ idx <= o.submittedIdx + 1)
  /\ o.parent # NoOrder => /\ o.parent \in DOMAIN orders
                           /\ LateChildren \/ IsLive(orders[o.parent])

\* Only a submission adds one.
LEMMA NewIsSubmitted ==
  ASSUME TypeInv, [Next]_vars, NEW i \in DOMAIN orders' \ DOMAIN orders
  PROVE  \E t \in Templates, parent \in DOMAIN orders \cup {NoOrder}, stamp \in 0..idx :
           Submit(t, parent, stamp)
<1>1. Strategy
  BY FillBooked DEF Next, Market, StartEvent, Step, vars, bookVars, StepQuote, BeginStep,
     SettleExpiry, FillIntents, Exits, MarginCheck, Match, AnnounceVerdict, EndMatch,
     StashEntry, BarredEntry, EnterOnSignal, NoEntry, StartSweep, EndStep
<1>2. QED
  BY <1>1 DEF Strategy, LinkOco, Cancel, Modify, RequestClose, ObserveEquity, HaltMargin,
     bookVars

LEMMA NewIsFresh ==
  ASSUME TypeInv, [Next]_vars, NEW i \in DOMAIN orders' \ DOMAIN orders
  PROVE  /\ phase = "observe" /\ UNCHANGED <<run, idx, phase, verdicts, sweep>>
         /\ Fresh(orders'[i])
         /\ \A j \in DOMAIN orders : orders'[j] = orders[j]
<1>2. PICK t \in Templates, parent \in DOMAIN orders \cup {NoOrder}, stamp \in 0..idx :
        Submit(t, parent, stamp)
  BY NewIsSubmitted
<1> DEFINE plain == [side |-> t.side, qty |-> t.qty, units |-> t.units,
                     kind |-> t.kind, tif |-> t.tif, expire |-> t.expire,
                     postOnly |-> t.postOnly, reduceOnly |-> t.reduceOnly,
                     status |-> "Submitted", submittedIdx |-> stamp,
                     submittedTs |-> now, arrivalTs |-> now + Latency,
                     parent |-> parent, oco |-> NoOrder,
                     filled |-> 0, faulted |-> FALSE, notices |-> <<>>,
                     fillIdx |-> -1]
           order == IF Rests(t) /\ parent = NoOrder THEN Acknowledged(plain) ELSE plain
<1>3. orders'[i] = order
  BY <1>2 DEF Submit
<1>4. plain \in Order
  <2>1. t \in Template /\ Latency \in Nat /\ now \in Nat /\ stamp \in Nat
    BY ConfigTypes DEF TypeInv, TypeOK, ClockOK
  <2>2. now + Latency \in Nat /\ parent \in Nat \cup {NoOrder}
    BY <2>1, ConfigTypes DEF TypeInv, TypeOK, BookOK
  <2>3. "Submitted" \in Statuses /\ <<>> \in Seq(Notices) /\ -1 \in Nat \cup {-1}
    BY DEF Statuses, Working
  <2>4. QED BY <2>1, <2>2, <2>3 DEF Template, Order
<1>5. /\ plain.status = "Submitted" /\ plain.oco = NoOrder /\ plain.filled = 0
      /\ plain.parent = parent /\ plain.submittedIdx = stamp
      /\ plain.kind = t.kind /\ plain.tif = t.tif
      /\ plain.qty = t.qty /\ plain.units = t.units
      /\ plain.side = t.side /\ plain.reduceOnly = t.reduceOnly
  OBVIOUS
<1>6. Good(plain)
  <2>1. plain.notices = <<>> /\ ~plain.faulted
    OBVIOUS
  <2>2. \A j \in 1..(Len(plain.notices) - 1) : FALSE
    BY <2>1
  <2>3. QED BY <1>5, <2>1, <2>2 DEF Good, Told
<1> HIDE DEF plain
<1>7. /\ SameFills(plain, Acknowledged(plain)) /\ Acknowledged(plain).status = "Accepted"
      /\ Good(Acknowledged(plain))
  BY <1>4, <1>5, <1>6, AcknowledgedOrder, AcknowledgedStatus, ChangesAreGood
<1>8. PlainMarket(order) \/ order.parent # NoOrder <=> ~(Rests(t) /\ parent = NoOrder)
  BY <1>5, <1>7 DEF PlainMarket, Rests, SameFills, SameTerms
<1>9. /\ order.oco = NoOrder /\ order.filled = 0 /\ Good(order)
      /\ order.parent = parent /\ order.submittedIdx = stamp
      /\ order.qty = t.qty /\ order.units = t.units
      /\ order.side = t.side /\ order.reduceOnly = t.reduceOnly
      /\ order.status = IF Rests(t) /\ parent = NoOrder THEN "Accepted" ELSE "Submitted"
  BY <1>5, <1>6, <1>7 DEF SameFills, SameTerms
<1> HIDE DEF order
<1>10. /\ parent # NoOrder => parent \in DOMAIN orders /\ (LateChildren \/ IsLive(orders[parent]))
       /\ stamp = idx \/ (CrossInstrument /\ idx <= stamp + 1)
  <2>1. idx \in Nat
    BY ConfigTypes DEF TypeInv, TypeOK, ClockOK
  <2>2. QED BY <1>2, <2>1 DEF Submit
<1>11. Fresh(orders'[i])
  BY <1>3, <1>8, <1>9, <1>10 DEF Fresh
<1>12. /\ phase = "observe" /\ UNCHANGED <<run, idx, phase, verdicts, sweep>>
       /\ \A j \in DOMAIN orders : orders'[j] = orders[j]
  BY <1>2, ConfigTypes DEF Submit, clockVars, stepVars, TypeInv, TypeOK, BookOK
<1>13. QED BY <1>11, <1>12

-----------------------------------------------------------------------------
(* What the match pass decides *)

LEMMA VerdictReasons ==
  ASSUME NEW o \in Order, NEW parents, NEW n, NEW t, NEW mode, NEW reach
  PROVE  LET v == Verdict(o, parents, n, t, mode, reach) IN
         /\ v # "none" => IsLive(o) /\ o.submittedIdx < n
         /\ v \notin {"none", "cancel"} =>
              ~OrphanedByParent(o, parents) /\ ~HeldByParent(o, parents)
         /\ v = "fill" => ~PlainMarket(o)
         /\ v = "trigger" => o.kind \in TwoStage /\ ~LimitLive(o)
         /\ v = "expire" => o.tif \in {"Gtd", "Day"}
<1> DEFINE byKind == KindVerdict(o, n, mode, reach)
           v == Verdict(o, parents, n, t, mode, reach)
<1>1. /\ byKind = "fill" => ~PlainMarket(o)
      /\ byKind = "trigger" => o.kind \in TwoStage /\ ~LimitLive(o)
      /\ byKind # "expire"
  BY DEF KindVerdict, PlainMarket, TwoStage
<1>2. v = IF ~Visible(o, n, t, mode) THEN "none"
          ELSE IF OrphanedByParent(o, parents) THEN "cancel"
          ELSE IF HeldByParent(o, parents) THEN "none"
          ELSE IF Lapsed(o, t) THEN "expire"
          ELSE IF Missed(o, byKind) THEN "cancel"
          ELSE byKind
  BY DEF Verdict
<1> HIDE DEF v, byKind
<1>3. Visible(o, n, t, mode) => IsLive(o) /\ o.submittedIdx < n
  BY DEF Visible
<1>4. Lapsed(o, t) => o.tif \in {"Gtd", "Day"}
  BY DEF Lapsed
<1>5. v # "none" => IsLive(o) /\ o.submittedIdx < n
  BY <1>2, <1>3
<1>6. v \notin {"none", "cancel"} =>
        ~OrphanedByParent(o, parents) /\ ~HeldByParent(o, parents)
  BY <1>2
<1>7. /\ v = "fill" => ~PlainMarket(o)
      /\ v = "trigger" => o.kind \in TwoStage /\ ~LimitLive(o)
      /\ v = "expire" => o.tif \in {"Gtd", "Day"}
  BY <1>1, <1>2, <1>4
<1>8. QED BY <1>5, <1>6, <1>7 DEF v

\* A parent is an earlier order of the book.
LEMMA ParentIsBooked ==
  ASSUME BookOK, NEW i \in DOMAIN orders, orders[i].parent # NoOrder
  PROVE  orders[i].parent \in DOMAIN orders \ {i} /\ orders[orders[i].parent] \in Order
<1>1. orders[i].parent \in Nat /\ orders[i].parent < i
  BY DEF BookOK, Order
<1>2. QED BY <1>1 DEF BookOK

\* Not to be filled unless its parent is, or it has none.
Released(i) == orders[i].parent = NoOrder \/ orders[orders[i].parent].status = "Filled"

LEMMA MatchReasons ==
  ASSUME TypeInv, NEW reach, Match(reach), NEW i \in DOMAIN orders
  PROVE  /\ i \in DOMAIN verdicts' /\ verdicts'[i] \in Verdicts
         /\ orders'[i] = AfterVerdict(orders[i], verdicts'[i])
         /\ verdicts'[i] # "none" => IsLive(orders[i]) /\ orders[i].submittedIdx < idx
         /\ verdicts'[i] \notin {"none", "cancel"} => Released(i)
         /\ verdicts'[i] = "fill" => ~PlainMarket(orders[i])
         /\ verdicts'[i] = "trigger" => orders[i].kind \in TwoStage /\ ~LimitLive(orders[i])
         /\ verdicts'[i] = "expire" => orders[i].tif \in {"Gtd", "Day"}
<1> DEFINE parents == [k \in DOMAIN orders |-> orders[k].status]
<1>1. orders[i] \in Order /\ BookOK
  BY DEF TypeInv, TypeOK, BookOK
<1>2. /\ i \in DOMAIN verdicts'
      /\ verdicts'[i] = Verdict(orders[i], parents, idx, now, bar.mode, reach[i])
      /\ orders'[i] = AfterVerdict(orders[i], verdicts'[i])
  BY DEF Match
<1>3. ~OrphanedByParent(orders[i], parents) /\ ~HeldByParent(orders[i], parents) => Released(i)
  <2>1. CASE orders[i].parent = NoOrder
    BY <2>1 DEF Released
  <2>2. CASE orders[i].parent # NoOrder
    <3>1. /\ orders[i].parent \in DOMAIN orders
          /\ orders[orders[i].parent].status \in Working \cup Terminal
      BY <1>1, <2>2, ParentIsBooked DEF Order, Statuses
    <3>2. QED BY <2>2, <3>1 DEF OrphanedByParent, HeldByParent, Released
  <2>3. QED BY <2>1, <2>2
<1> HIDE DEF parents
<1>4. QED BY <1>1, <1>2, <1>3, VerdictReasons, VerdictType

-----------------------------------------------------------------------------
(* How one order moves in one step *)

Still(i) ==
  /\ orders'[i].status = orders[i].status /\ orders'[i].notices = orders[i].notices
  /\ orders'[i].faulted = orders[i].faulted /\ orders'[i].filled = orders[i].filled
  /\ DOMAIN verdicts' = DOMAIN verdicts
  /\ i \in DOMAIN verdicts => verdicts'[i] = verdicts[i]

Canceling(i) ==
  phase # "apply" /\ UNCHANGED verdicts /\ orders'[i] = CancelWorking(orders[i])

Acknowledge(i) ==
  /\ phase = "sweeping" /\ phase' = "sweep" /\ UNCHANGED verdicts /\ Defers
  /\ PlainMarket(orders[i]) /\ IsLive(orders[i]) /\ orders[i].submittedIdx = idx
  /\ orders'[i] = Acknowledged(orders[i])

LEMMA OneOrderMoves ==
  ASSUME TypeInv, [Next]_vars, NEW i \in DOMAIN orders
  PROVE  \/ \E k \in DOMAIN orders : FillOrder(k)
         \/ \E reach : Match(reach)
         \/ AnnounceVerdict(i)
         \/ Still(i) \/ Canceling(i) \/ Acknowledge(i)
<1>1. orders[i] \in Order
  BY DEF TypeInv, TypeOK, BookOK
<1>2. ASSUME orders'[i] = orders[i], UNCHANGED verdicts PROVE Still(i)
  BY <1>2 DEF Still
<1>3. CASE Strategy
  <2>1. phase = "observe" /\ UNCHANGED verdicts
    BY <1>3 DEF Strategy, Submit, LinkOco, Cancel, Modify, RequestClose, ObserveEquity,
                HaltMargin, stepVars
  <2>2. ASSUME NEW t, NEW parent, NEW stamp, Submit(t, parent, stamp) PROVE Still(i)
    <3>1. nextId \notin DOMAIN orders
      BY ConfigTypes DEF TypeInv, TypeOK, BookOK
    <3>2. orders'[i] = orders[i]
      BY <2>2, <3>1 DEF Submit
    <3>3. QED BY <2>1, <3>2, <1>2
  <2>3. ASSUME NEW group, LinkOco(group) PROVE Still(i)
    <3>1. orders'[i] = orders[i] \/ orders'[i] = [orders[i] EXCEPT !.oco = Earliest(group)]
      BY <2>3 DEF LinkOco
    <3>2. QED BY <1>1, <2>1, <3>1 DEF Still, Order
  <2>4. ASSUME NEW ids, Cancel(ids) PROVE Still(i) \/ Canceling(i)
    BY <1>2, <2>1, <2>4 DEF Cancel, Canceling
  <2>5. ASSUME NEW j, NEW units, Modify(j, units) PROVE Still(i)
    <3>1. \/ orders'[i] = orders[i]
          \/ orders'[i] = [orders[i] EXCEPT !.units = units, !.qty = "Units"]
      BY <2>5 DEF Modify
    <3>2. QED BY <1>1, <2>1, <3>1 DEF Still, Order
  <2>6. ASSUME NEW p, RequestClose(p) PROVE Still(i)
    BY <1>2, <2>1, <2>6 DEF RequestClose, bookVars
  <2>7. CASE ObserveEquity \/ HaltMargin
    BY <1>2, <2>1, <2>7 DEF ObserveEquity, HaltMargin, bookVars
  <2>8. QED BY <1>3, <2>2, <2>3, <2>4, <2>5, <2>6, <2>7 DEF Strategy
<1>4. CASE StartEvent \/ UNCHANGED vars
  BY <1>2, <1>4 DEF StartEvent, StepQuote, BeginStep, bookVars, stepVars, vars
<1>5. CASE SettleExpiry
  BY <1>5 DEF SettleExpiry, Canceling
<1>6. CASE FillIntents \/ EndMatch \/ StashEntry \/ BarredEntry \/ NoEntry \/ EndStep
  BY <1>2, <1>6 DEF FillIntents, EndMatch, StashEntry, BarredEntry, NoEntry, EndStep, FinishStep,
     bookVars, stepVars
<1>7. ASSUME NEW x, Exits(x) \/ MarginCheck(x) \/ EnterOnSignal(x) PROVE Still(i)
  BY <1>2, <1>7 DEF Exits, MarginCheck, EnterOnSignal, bookVars, stepVars
<1>8. ASSUME NEW k \in DOMAIN orders, AnnounceVerdict(k) PROVE AnnounceVerdict(i) \/ Still(i)
  BY <1>8 DEF AnnounceVerdict, Still
<1>9. CASE StartSweep
  BY <1>2, <1>9 DEF StartSweep, Acknowledge
<1>10. QED
  BY <1>3, <1>4, <1>5, <1>6, <1>7, <1>8, <1>9 DEF Next, Market, Step

\* When the ordinal moves on, and when a sweep begins and ends.
LEMMA ClockMoves ==
  ASSUME TypeInv, [Next]_vars
  PROVE  /\ idx' = idx \/ idx' = idx + 1
         /\ idx' # idx => \/ StepQuote \/ SettleExpiry \/ EndStep
                          \/ BarredEntry /\ phase = "signal" /\ ~Defers
         /\ phase' = "sweep" /\ phase # "sweep" => StartSweep
         /\ phase = "sweep" /\ phase' # "sweep" => EndStep
<1>1. idx \in Nat /\ idx + 1 # idx
  BY ConfigTypes DEF TypeInv, TypeOK, ClockOK
<1>2. CASE Strategy \/ UNCHANGED vars
  BY <1>2 DEF Strategy, Submit, LinkOco, Cancel, Modify, RequestClose, ObserveEquity,
              HaltMargin, clockVars, vars
<1>3. CASE StartEvent
  BY <1>3 DEF StartEvent, StepQuote, BeginStep, Advance, clockVars
<1>4. CASE SettleExpiry \/ EndStep
  BY <1>4 DEF SettleExpiry, EndStep, FinishStep, Advance
<1>5. CASE BarredEntry
  BY <1>5 DEF BarredEntry, TriesEntry, FinishStep, Advance
<1>6. CASE FillIntents \/ EndMatch \/ StashEntry \/ NoEntry
  BY <1>6 DEF FillIntents, EndMatch, StashEntry, NoEntry, clockVars
<1>7. ASSUME NEW x, Exits(x) \/ MarginCheck(x) \/ EnterOnSignal(x) \/ Match(x)
      PROVE  UNCHANGED idx /\ phase # "sweep" /\ phase' # "sweep"
  BY <1>7 DEF Exits, MarginCheck, EnterOnSignal, Match, clockVars
<1>8. ASSUME NEW k, AnnounceVerdict(k) \/ FillOrder(k)
      PROVE  UNCHANGED <<idx, phase>>
  BY <1>8 DEF AnnounceVerdict, FillOrder, LeaveWorking, RefuseFill, KillFill, AddFill,
     OpenFill, CloseFill, FillFrame, clockVars
<1>9. CASE StartSweep
  BY <1>9 DEF StartSweep, clockVars
<1>10. QED
  BY <1>2, <1>3, <1>4, <1>5, <1>6, <1>7, <1>8, <1>9 DEF Next, Market, Step

-----------------------------------------------------------------------------
(* Whatever may trade was acknowledged *)

\* An order of the book on its own is acknowledged at once.
RestingHeard ==
  \A i \in DOMAIN orders :
    orders[i].parent = NoOrder /\ ~PlainMarket(orders[i]) => orders[i].status # "Submitted"

\* A child is acknowledged by the slice that completes its parent.
ChildrenHeard ==
  Acknowledging =>
    \A i \in DOMAIN orders :
      orders[i].parent # NoOrder /\ Released(i) => orders[i].status # "Submitted"

\* A market order that waits for the next open is acknowledged by the sweep of
\* its own bar, and until then nothing happens to it but a cancellation.
WaitingHeard ==
  Acknowledging /\ NextBarOpen =>
    \A i \in DOMAIN orders : PlainMarket(orders[i]) =>
      /\ orders[i].status = "Submitted" => orders[i].submittedIdx = idx /\ phase # "sweep"
      /\ orders[i].submittedIdx = idx /\ phase # "sweep" /\ IsLive(orders[i]) =>
           orders[i].status = "Submitted"

\* The sweep takes market orders; the match pass fills none of them, nor a child
\* before its parent.
PicksAreRight ==
  /\ \A i \in sweep : PlainMarket(orders[i])
  /\ \A i \in DOMAIN verdicts : verdicts[i] = "fill" =>
       ~PlainMarket(orders[i]) /\ Released(i)

HeardInv == RestingHeard /\ ChildrenHeard /\ WaitingHeard /\ PicksAreRight

LEMMA RunKeepsPremises ==
  ASSUME [Next]_vars
  PROVE  /\ Acknowledging' = Acknowledging /\ NextBarOpen' = NextBarOpen
         /\ Modes' = Modes /\ LateChildren' = LateChildren
BY RunIsFixed DEF Acknowledging, NextBarOpen, Modes, LateChildren, CrossInstrument

LEMMA RestingStaysHeard == ASSUME TypeInv, RestingHeard, [Next]_vars PROVE RestingHeard'
<1>1. ASSUME NEW i \in DOMAIN orders', orders'[i].parent = NoOrder, ~PlainMarket(orders'[i])
      PROVE  orders'[i].status # "Submitted"
  <2>1. CASE i \in DOMAIN orders
    BY <1>1, <2>1, StepTraces DEF RestingHeard, Traced, Begun, PlainMarket
  <2>2. CASE i \notin DOMAIN orders
    BY <1>1, <2>2, NewIsFresh DEF Fresh
  <2>3. QED BY <2>1, <2>2
<1>2. QED BY <1>1 DEF RestingHeard

\* Only a fill fills, and its order.
LEMMA OnlyFillsFill ==
  ASSUME TypeInv, [Next]_vars, NEW i \in DOMAIN orders,
         orders[i].status # "Filled", orders'[i].status = "Filled"
  PROVE  i \in DOMAIN orders /\ FillOrder(i)
<1>1. ~BookKept
  BY DEF BookKept, Kept, Forward, Spared
<1>2. PICK k \in DOMAIN orders : FillOrder(k)
  BY <1>1, FillOrQuiet
<1>3. orders[i] \in Order
  BY DEF TypeInv, TypeOK, BookOK
<1>4. i # k => Touched(orders[i], orders'[i], k)
  BY <1>2, FillTurns DEF Turned
<1>5. i = k
  BY <1>3, <1>4, ChangesForward DEF Touched, Forward, Spared
<1>6. QED BY <1>2, <1>5

LEMMA ChildrenStayHeard ==
  ASSUME TypeInv, ChildrenHeard, [Next]_vars
  PROVE  ChildrenHeard'
<1> SUFFICES ASSUME Acknowledging, NEW i \in DOMAIN orders',
                    orders'[i].parent # NoOrder, Released(i)'
             PROVE  orders'[i].status # "Submitted"
    BY RunKeepsPremises DEF ChildrenHeard
<1> DEFINE p == orders'[i].parent
<1>1. orders'[p].status = "Filled"
  BY DEF Released
<1>2. BookOK
  BY DEF TypeInv, TypeOK
<1>3. CASE i \notin DOMAIN orders
  <2>1. /\ p \in DOMAIN orders
        /\ LateChildren \/ IsLive(orders[p])
        /\ orders'[p] = orders[p]
    BY <1>3, NewIsFresh DEF Fresh
  <2>2. QED BY <1>1, <2>1 DEF Acknowledging, IsLive, Working
<1>4. CASE i \in DOMAIN orders
  <2>1. Traced(orders[i], orders'[i])
    BY <1>4, StepTraces
  <2>2. p = orders[i].parent /\ p \in DOMAIN orders
    BY <1>2, <1>4, <2>1, ParentIsBooked DEF Traced
  <2>3. CASE orders[p].status = "Filled"
    BY <1>4, <2>1, <2>2, <2>3 DEF ChildrenHeard, Released, Traced, Begun
  <2>4. CASE orders[p].status # "Filled"
    <3>1. FillOrder(p)
      BY <1>1, <2>2, <2>4, OnlyFillsFill
    <3>2. QED BY <1>1, <1>4, <2>2, <2>4, <3>1, FillTurns DEF Turned
  <2>5. QED BY <2>3, <2>4
<1>5. QED BY <1>3, <1>4

\* Only the match pass and the start of the sweep pick orders.
LEMMA OnlyPassesPick ==
  ASSUME TypeInv, [Next]_vars
  PROVE  /\ sweep' \subseteq sweep \/ StartSweep
         /\ (\E reach : Match(reach)) \/
              \A i \in DOMAIN verdicts' :
                i \in DOMAIN verdicts /\ verdicts'[i] \in {verdicts[i], "none"}
<1>1. CASE UNCHANGED <<verdicts, sweep>>
  BY <1>1
<1>2. CASE Strategy \/ StartEvent \/ UNCHANGED vars
  BY <1>1, <1>2 DEF Strategy, Submit, LinkOco, Cancel, Modify, RequestClose, ObserveEquity,
     HaltMargin, StartEvent, StepQuote, BeginStep, stepVars, vars
<1>3. CASE \/ SettleExpiry \/ FillIntents \/ EndMatch \/ StashEntry \/ BarredEntry \/ NoEntry
           \/ EndStep
  BY <1>1, <1>3 DEF SettleExpiry, FillIntents, EndMatch, StashEntry, BarredEntry, NoEntry,
     EndStep, stepVars
<1>4. ASSUME NEW x, Exits(x) \/ MarginCheck(x) \/ EnterOnSignal(x)
      PROVE  UNCHANGED <<verdicts, sweep>>
  BY <1>4 DEF Exits, MarginCheck, EnterOnSignal, stepVars
<1>5. ASSUME NEW x, Match(x)
      PROVE  UNCHANGED sweep
  BY <1>5 DEF Match
<1>6. ASSUME NEW k, AnnounceVerdict(k) \/ FillOrder(k)
      PROVE  /\ sweep' \subseteq sweep
             /\ verdicts' = [verdicts EXCEPT ![k] = "none"]
  BY <1>6 DEF AnnounceVerdict, FillOrder, LeaveWorking, RefuseFill, KillFill, AddFill,
     OpenFill, CloseFill, FillFrame
<1>7. ASSUME NEW k, verdicts' = [verdicts EXCEPT ![k] = "none"]
      PROVE  \A i \in DOMAIN verdicts' :
               i \in DOMAIN verdicts /\ verdicts'[i] \in {verdicts[i], "none"}
  BY <1>7
<1>8. CASE StartSweep
  BY <1>8 DEF StartSweep
<1>9. QED
  BY <1>1, <1>2, <1>3, <1>4, <1>5, <1>6, <1>7, <1>8 DEF Next, Market, Step

\* The turn is of an order the match pass let fill, or of one swept.
LEMMA FillPicks ==
  ASSUME NEW k, FillOrder(k)
  PROVE  \/ phase = "sweep" /\ k \in sweep
         \/ phase = "apply" /\ k \in DOMAIN verdicts /\ verdicts[k] = "fill"
BY DEF FillOrder, LeaveWorking, RefuseFill, KillFill, AddFill, OpenFill, CloseFill, FillTurn,
   Due, Pending

LEMMA PicksStayRight ==
  ASSUME TypeInv, PicksAreRight, [Next]_vars
  PROVE  PicksAreRight'
<1>1. BookOK /\ sweep \subseteq DOMAIN orders /\ DOMAIN verdicts \subseteq DOMAIN orders
  BY DEF TypeInv, TypeOK, StepOK
<1>2. ASSUME NEW i \in sweep' PROVE PlainMarket(orders'[i])
  <2>1. i \in DOMAIN orders /\ PlainMarket(orders[i])
    BY <1>1, OnlyPassesPick DEF PicksAreRight, StartSweep, Swept
  <2>2. QED BY <2>1, StepTraces DEF Traced, PlainMarket
<1>3. ASSUME NEW i \in DOMAIN verdicts', verdicts'[i] = "fill"
      PROVE  ~PlainMarket(orders'[i]) /\ Released(i)'
  <2>1. i \in DOMAIN orders /\ ~PlainMarket(orders[i]) /\ Released(i)
    <3>1. CASE \E reach : Match(reach)
      <4>1. PICK reach : Match(reach)
        BY <3>1
      <4>2. i \in DOMAIN orders
        BY <4>1 DEF Match
      <4>3. QED BY <1>3, <4>1, <4>2, MatchReasons
    <3>2. CASE ~\E reach : Match(reach)
      BY <1>1, <1>3, <3>2, OnlyPassesPick DEF PicksAreRight
    <3>3. QED BY <3>1, <3>2
  <2>2. Traced(orders[i], orders'[i])
    BY <2>1, StepTraces
  <2>3. CASE orders[i].parent = NoOrder
    BY <2>1, <2>2, <2>3 DEF Released, Traced, PlainMarket
  <2>4. CASE orders[i].parent # NoOrder
    <3>1. Traced(orders[orders[i].parent], orders'[orders[i].parent])
      BY <1>1, <2>1, <2>4, ParentIsBooked, StepTraces
    <3>2. QED BY <2>1, <2>2, <3>1 DEF Released, Traced, PlainMarket, StaysEnded, Terminal
  <2>5. QED BY <2>3, <2>4
<1>4. QED BY <1>2, <1>3 DEF PicksAreRight

LEMMA WaitingStaysHeard ==
  ASSUME TypeInv, TurnInv, WaitingHeard, PicksAreRight, [Next]_vars
  PROVE  WaitingHeard'
<1> SUFFICES ASSUME Acknowledging, NextBarOpen, NEW i \in DOMAIN orders',
                    PlainMarket(orders'[i])
             PROVE  /\ orders'[i].status = "Submitted" =>
                         orders'[i].submittedIdx = idx' /\ phase' # "sweep"
                    /\ orders'[i].submittedIdx = idx' /\ phase' # "sweep" /\ IsLive(orders'[i]) =>
                         orders'[i].status = "Submitted"
    BY RunKeepsPremises DEF WaitingHeard
<1> DEFINE o == orders[i]
           q == orders'[i]
<1>1. Modes = {"Bar"} /\ ~CrossInstrument
  BY DEF Acknowledging
<1>2. ~StepQuote /\ (phase = "signal" \/ phase = "sweeping" => Defers)
  BY <1>1 DEF StepQuote, TurnInv, Defers
<1>3. CASE i \notin DOMAIN orders
  BY <1>1, <1>3, NewIsFresh DEF Fresh
<1>4. CASE i \in DOMAIN orders
  <2>1. Traced(o, q) /\ o \in Order /\ PlainMarket(o)
    BY <1>4, StepTraces DEF TypeInv, TypeOK, BookOK, Traced, PlainMarket
  <2>2. ASSUME q.status = "Submitted"
        PROVE  q.submittedIdx = idx' /\ phase' # "sweep"
    <3>1. o.status = "Submitted" /\ o.submittedIdx = idx /\ phase # "sweep" /\ IsLive(o)
      BY <1>4, <2>1, <2>2 DEF WaitingHeard, Traced, Begun, IsLive, Working
    <3>2. ~SettleExpiry
      <4>1. SettleExpiry => q = CancelWorking(o)
        BY <1>4 DEF SettleExpiry
      <4>2. CancelWorking(o).status \in Terminal
        BY <2>1, CanceledEnds
      <4>3. QED BY <2>2, <4>1, <4>2 DEF Terminal
    <3>3. ~StartSweep
      <4>1. StartSweep => q = Acknowledged(o)
        BY <1>2, <1>4, <2>1, <3>1 DEF StartSweep
      <4>2. Acknowledged(o).status = "Accepted"
        BY <2>1, <3>1, AcknowledgedStatus
      <4>3. QED BY <2>2, <4>1, <4>2
    <3>4. ~EndStep
      BY <3>1 DEF EndStep
    <3>5. QED BY <1>2, <2>1, <3>1, <3>2, <3>3, <3>4, ClockMoves DEF Traced
  <2>3. ASSUME q.submittedIdx = idx', phase' # "sweep", IsLive(q)
        PROVE  q.status = "Submitted"
    <3>1. idx' = idx /\ o.submittedIdx = idx
      <4>1. idx \in Nat /\ o.submittedIdx \in Nat /\ o.submittedIdx <= idx
        BY <1>4, <2>1, ConfigTypes DEF TypeInv, TypeOK, ClockOK, TurnInv, Order
      <4>2. QED BY <2>1, <2>3, <4>1, ClockMoves DEF Traced
    <3>2. phase # "sweep"
      <4>1. EndStep => idx' = idx + 1
        BY DEF EndStep, FinishStep, Advance
      <4>2. idx \in Nat
        BY ConfigTypes DEF TypeInv, TypeOK, ClockOK
      <4>3. QED BY <2>3, <3>1, <4>1, <4>2, ClockMoves
    <3>3. o.status = "Submitted"
      <4>1. IsLive(o)
        BY <2>1, <2>3 DEF Traced, StaysEnded, IsLive, Order, Statuses, Working, Terminal
      <4>2. QED BY <1>4, <2>1, <3>1, <3>2, <4>1 DEF WaitingHeard
    <3>4. CASE Still(i)
      BY <3>3, <3>4 DEF Still
    <3>5. CASE Canceling(i)
      BY <2>1, <2>3, <3>5, CanceledEnds DEF Canceling, IsLive, Working, Terminal
    <3>6. CASE Acknowledge(i)
      BY <2>3, <3>6 DEF Acknowledge
    <3>7. CASE AnnounceVerdict(i)
      <4>1. q = Note(o, Announced[verdicts[i]])
        BY <1>4, <3>7 DEF AnnounceVerdict
      <4>2. QED BY <2>1, <3>3, <4>1 DEF Note, Order
    <3>8. ASSUME NEW reach, Match(reach) PROVE q.status = "Submitted"
      <4>1. verdicts'[i] = "none" /\ q = AfterVerdict(o, verdicts'[i])
        BY <1>4, <2>1, <3>1, <3>8, MatchReasons DEF Order
      <4>2. QED BY <3>3, <4>1 DEF AfterVerdict
    <3>9. ASSUME NEW k \in DOMAIN orders, FillOrder(k) PROVE q.status = "Submitted"
      <4>1. k # i
        BY <2>1, <3>2, <3>9, FillPicks DEF PicksAreRight
      <4>2. Touched(o, q, k)
        BY <1>4, <3>9, <4>1, FillTurns DEF Turned
      <4>3. o.parent # k
        BY <2>1, NoOrderAssumption, <3>9 DEF PlainMarket, TypeInv, TypeOK, BookOK
      <4>4. QED BY <2>3, <3>3, <4>2, <4>3 DEF Touched, IsLive, Working
    <3>10. QED
      BY <1>4, <3>4, <3>5, <3>6, <3>7, <3>8, <3>9, OneOrderMoves
  <2>4. QED BY <2>2, <2>3
<1>5. QED BY <1>3, <1>4

LEMMA HeardStays ==
  ASSUME TypeInv, TurnInv, HeardInv, [Next]_vars
  PROVE  HeardInv'
BY RestingStaysHeard, ChildrenStayHeard, PicksStayRight, WaitingStaysHeard DEF HeardInv

\* A working order that is filled was acknowledged; an unlinked one was working.
LEMMA FillIsLegal ==
  ASSUME TypeInv, TurnInv, HeardInv, Acknowledging, NEW k \in DOMAIN orders,
         FillOrder(k), orders[k].oco = NoOrder \/ IsLive(orders[k])
  PROVE  IsLive(Presented(k)) /\ Presented(k).status # "Submitted"
<1>1. /\ orders[k] \in Order /\ Presented(k) \in Order
      /\ Begun(orders[k], Presented(k)) /\ StaysLive(orders[k], Presented(k))
  BY PresentedOrder, PresentedStatus DEF TypeInv, TypeOK, BookOK, Kept, Forward
<1>2. IsLive(Presented(k))
  <2>1. CASE orders[k].oco = NoOrder
    BY <1>1, <2>1, FillIsAwaited DEF TurnInv, StaysLive
  <2>2. CASE orders[k].status = "Submitted"
    BY <1>1, <2>2, AcknowledgedStatus DEF Presented, IsLive, Working
  <2>3. CASE orders[k].oco # NoOrder /\ orders[k].status # "Submitted"
    BY <2>3 DEF Presented
  <2>4. QED BY <2>1, <2>2, <2>3
<1>3. ASSUME orders[k].status = "Submitted" PROVE Presented(k).status # "Submitted"
  <2>1. CASE phase = "apply" /\ k \in DOMAIN verdicts /\ verdicts[k] = "fill"
    BY <1>3, <2>1 DEF HeardInv, PicksAreRight, RestingHeard, ChildrenHeard, Released
  <2>2. CASE phase = "sweep" /\ k \in sweep
    <3>1. PlainMarket(orders[k])
      BY <2>2 DEF HeardInv, PicksAreRight
    <3>2. ~Defers
      BY <1>3, <2>2, <3>1 DEF HeardInv, WaitingHeard, Defers
    <3>3. Presented(k) = Acknowledged(orders[k])
      BY <1>3, <2>2, <3>2 DEF Presented
    <3>4. QED BY <1>1, <1>3, <3>3, AcknowledgedStatus
  <2>3. QED BY <2>1, <2>2, FillPicks
<1>4. QED BY <1>1, <1>2, <1>3 DEF Begun

-----------------------------------------------------------------------------
(* What is told of an order is what became of it *)

\* While an outcome of the match pass waits its turn the order has moved and the
\* strategy has not been told; otherwise it has.
InStep(i) ==
  /\ ~orders[i].faulted
  /\ IF i \in DOMAIN verdicts /\ verdicts[i] \notin {"none", "fill"}
     THEN orders[i].status = Announced[verdicts[i]] /\ Untold(orders[i])
     ELSE Told(orders[i])

StoryInv == \A i \in DOMAIN orders : FollowsLifecycle(orders[i]) => InStep(i)

\* Away from the apply phase, and where an order has not moved, all is told.
LEMMA InStepIsGood ==
  ASSUME TypeInv, TurnInv, NEW i \in DOMAIN orders, InStep(i),
         phase # "apply" \/ orders[i].status \in {"Submitted", "Accepted", "PartiallyFilled"}
           \/ (i \in DOMAIN verdicts /\ verdicts[i] = "fill")
  PROVE  Good(orders[i])
BY DEF TurnInv, Pending, InStep, Good, Announced, Verdicts, TypeInv, TypeOK, StepOK

LEMMA MatchTells ==
  ASSUME TypeInv, TurnInv, HeardInv, NEW reach, Match(reach), NEW i \in DOMAIN orders,
         FollowsLifecycle(orders[i]), InStep(i)
  PROVE  InStep(i)'
<1> DEFINE o == orders[i]
           v == verdicts'[i]
<1>1. o \in Order /\ phase = "match"
  BY DEF TypeInv, TypeOK, BookOK, Match
<1>2. Good(o)
  BY <1>1, InStepIsGood
<1>3. /\ i \in DOMAIN verdicts' /\ v \in Verdicts /\ orders'[i] = AfterVerdict(o, v)
      /\ v # "none" => IsLive(o)
      /\ v \notin {"none", "cancel"} => Released(i)
      /\ v = "trigger" => o.kind \in TwoStage /\ ~LimitLive(o)
      /\ v = "expire" => o.tif \in {"Gtd", "Day"}
  BY MatchReasons
<1>4. Acknowledging /\ ~(PlainMarket(o) /\ o.tif \in {"Day", "Gtd"})
  BY DEF FollowsLifecycle
<1>5. ASSUME Released(i), ~PlainMarket(o) PROVE o.status # "Submitted"
  BY <1>4, <1>5 DEF HeardInv, RestingHeard, ChildrenHeard, Released
<1> HIDE DEF v
<1>6. CASE v \in {"none", "fill"}
  <2>1. orders'[i] = o
    BY <1>3, <1>6 DEF AfterVerdict
  <2>2. InStep(i)' <=> Good(o)
    BY <1>3, <1>6, <2>1 DEF InStep, Good, v
  <2>3. QED BY <1>2, <2>2
<1>7. CASE v \in {"trigger", "expire", "cancel", "reject"}
  <2> DEFINE to == Announced[v]
  <2>1. orders'[i] = Move(o, to)
    BY <1>3, <1>7 DEF AfterVerdict, Announced
  <2>2. <<o.status, to>> \in LegalMoves
    <3>1. CASE v = "cancel"
      BY <1>3, <3>1 DEF Announced, LegalMoves, IsLive, Working
    <3>2. CASE v = "reject"
      BY <1>3, <3>2 DEF Announced, LegalMoves, IsLive, Working
    <3>3. CASE v = "expire"
      <4>1. o.status # "Submitted"
        BY <1>3, <1>4, <1>5, <3>3
      <4>2. QED BY <1>3, <3>3, <4>1 DEF Announced, LegalMoves, IsLive, Working
    <3>4. CASE v = "trigger"
      <4>1. o.status # "Submitted"
        BY <1>3, <1>5, <3>4 DEF PlainMarket, TwoStage
      <4>2. QED BY <1>3, <3>4, <4>1 DEF Announced, LegalMoves, IsLive, LimitLive, Working
    <3>5. QED BY <1>7, <3>1, <3>2, <3>3, <3>4
  <2> HIDE DEF to
  <2>3. /\ orders'[i].status = to /\ orders'[i].notices = o.notices
        /\ ~orders'[i].faulted
    BY <1>1, <1>2, <2>1, <2>2 DEF Move, Good, Order
  <2>4. Untold(o)
    BY <1>1, <1>2, <1>3, <1>7, LiveUntold DEF Good
  <2>5. InStep(i)' <=> (to = Announced[v] /\ Untold(o))
    BY <1>3, <1>7, <2>3 DEF InStep, Untold, v
  <2>6. QED BY <2>4, <2>5 DEF to
<1>8. QED BY <1>3, <1>6, <1>7 DEF Verdicts

LEMMA AnnounceTells ==
  ASSUME TypeInv, NEW i \in DOMAIN orders, AnnounceVerdict(i), InStep(i)
  PROVE  InStep(i)'
<1> DEFINE o == orders[i]
           v == verdicts[i]
<1>1. /\ o \in Order /\ i \in DOMAIN verdicts
      /\ v \in {"trigger", "expire", "cancel", "reject"}
  BY DEF TypeInv, TypeOK, BookOK, StepOK, AnnounceVerdict, Due, Pending, Verdicts
<1>2. /\ o.status = Announced[v] /\ Untold(o) /\ ~o.faulted
      /\ Announced[v] \in {"Triggered", "Expired", "Canceled", "Rejected"}
  BY <1>1 DEF InStep, Announced
<1>3. /\ orders'[i] = Note(o, Announced[v])
      /\ i \in DOMAIN verdicts' /\ verdicts'[i] = "none"
  BY <1>1 DEF AnnounceVerdict
<1> HIDE DEF v
<1>4. Announced[v] = Shown(o.status) /\ Announced[v] \in Notices /\ o.status # "Submitted"
  BY <1>2 DEF Shown, Notices
<1>5. Told(Note(o, Announced[v]))
  BY <1>1, <1>2, <1>4, NotedTells
<1>6. ~Note(o, Announced[v]).faulted
  BY <1>1, <1>2 DEF Note, Order
<1>7. QED BY <1>3, <1>5, <1>6 DEF InStep, Told

LEMMA FillTells ==
  ASSUME TypeInv, TurnInv, HeardInv, NEW k \in DOMAIN orders, FillOrder(k),
         NEW i \in DOMAIN orders, FollowsLifecycle(orders[i]), InStep(i), orders'[i].oco = NoOrder
  PROVE  InStep(i)'
<1> DEFINE o == orders[i]
<1>1. Turned(k) /\ o \in Order
  BY FillTurns DEF TypeInv, TypeOK, BookOK
<1>2. /\ verdicts' = [verdicts EXCEPT ![k] = "none"]
      /\ Acknowledging /\ o.oco = NoOrder
  BY DEF FillOrder, LeaveWorking, RefuseFill, KillFill, AddFill, OpenFill, CloseFill,
         FillFrame, FollowsLifecycle
<1>3. CASE i = k
  <2>1. Good(o)
    BY <1>3, FillPicks, InStepIsGood
  <2>2. Good(Presented(k))
    BY <1>1, <1>3, <2>1, ChangesAreGood DEF Presented
  <2>3. Good(orders'[k])
    BY <1>1, <1>2, <1>3, <2>2, FillIsLegal DEF Turned
  <2>4. ~(i \in DOMAIN verdicts' /\ verdicts'[i] \notin {"none", "fill"})
    BY <1>2, <1>3
  <2>5. QED BY <1>3, <2>3, <2>4 DEF Good, InStep
<1>4. CASE i # k
  <2>1. /\ DOMAIN verdicts' = DOMAIN verdicts
        /\ i \in DOMAIN verdicts => verdicts'[i] = verdicts[i]
    BY <1>2, <1>4
  <2>2. CASE orders'[i] = o
    BY <2>1, <2>2 DEF InStep
  <2>3. CASE o.status = "Submitted" /\ orders'[i] = Acknowledged(o)
    <3>1. Good(o)
      BY <2>3, InStepIsGood
    <3>2. Good(orders'[i])
      BY <1>1, <2>3, <3>1, ChangesAreGood
    <3>3. ~(i \in DOMAIN verdicts /\ verdicts[i] \notin {"none", "fill"})
      BY <2>3 DEF InStep, Announced, Verdicts, TypeInv, TypeOK, StepOK
    <3>4. QED BY <2>1, <3>2, <3>3 DEF Good, InStep
  <2>4. Touched(o, orders'[i], k)
    BY <1>1, <1>4 DEF Turned
  <2>5. QED BY <1>2, <2>2, <2>3, <2>4 DEF Touched
<1>5. QED BY <1>3, <1>4

LEMMA StoryStays ==
  ASSUME TypeInv, TurnInv, HeardInv, StoryInv, [Next]_vars
  PROVE  StoryInv'
<1> SUFFICES ASSUME NEW i \in DOMAIN orders', FollowsLifecycle(orders[i])'
             PROVE  InStep(i)'
    BY DEF StoryInv
<1>1. /\ orders'[i].oco = NoOrder /\ Acknowledging
      /\ ~(PlainMarket(orders'[i]) /\ orders'[i].tif \in {"Day", "Gtd"})
  BY RunKeepsPremises DEF FollowsLifecycle
<1>2. CASE i \notin DOMAIN orders
  <2>1. Good(orders'[i])
    BY <1>2, NewIsFresh DEF Fresh
  <2>2. i \notin DOMAIN verdicts'
    BY <1>2, NewIsFresh DEF TypeInv, TypeOK, StepOK
  <2>3. QED BY <2>1, <2>2 DEF Good, InStep
<1>3. CASE i \in DOMAIN orders
  <2>1. Traced(orders[i], orders'[i]) /\ orders[i] \in Order
    BY <1>3, StepTraces DEF TypeInv, TypeOK, BookOK
  <2>2. FollowsLifecycle(orders[i])
    BY <1>1, <2>1 DEF FollowsLifecycle, Traced, PlainMarket
  <2>3. InStep(i)
    BY <1>3, <2>2 DEF StoryInv
  <2>4. CASE Still(i)
    <3>1. Told(orders'[i]) <=> Told(orders[i])
      BY <2>4 DEF Still, Told, LastNotice
    <3>2. Untold(orders'[i]) <=> Untold(orders[i])
      BY <2>4 DEF Still, Untold
    <3>3. QED BY <2>3, <2>4, <3>1, <3>2 DEF InStep, Still
  <2>5. CASE Canceling(i) \/ Acknowledge(i)
    <3>1. /\ phase # "apply" /\ UNCHANGED verdicts /\ Good(orders[i])
      BY <1>3, <2>3, <2>5, InStepIsGood DEF Canceling, Acknowledge
    <3>2. Acknowledge(i) => orders[i].status = "Submitted"
      BY <1>1, <1>3 DEF Acknowledge, HeardInv, WaitingHeard, Defers
    <3>3. Good(orders'[i])
      BY <2>1, <2>5, <3>1, <3>2, ChangesAreGood DEF Canceling, Acknowledge
    <3>4. ~(i \in DOMAIN verdicts' /\ verdicts'[i] \notin {"none", "fill"})
      BY <3>1 DEF TurnInv, Pending
    <3>5. QED BY <3>3, <3>4 DEF Good, InStep
  <2>6. CASE AnnounceVerdict(i)
    BY <1>3, <2>3, <2>6, AnnounceTells
  <2>7. ASSUME NEW reach, Match(reach) PROVE InStep(i)'
    BY <1>3, <2>2, <2>3, <2>7, MatchTells
  <2>8. ASSUME NEW k \in DOMAIN orders, FillOrder(k) PROVE InStep(i)'
    BY <1>1, <1>3, <2>2, <2>3, <2>8, FillTells
  <2>9. QED BY <1>3, <2>4, <2>5, <2>6, <2>7, <2>8, OneOrderMoves
<1>4. QED BY <1>2, <1>3

-----------------------------------------------------------------------------
(* A child waits for its parent *)

\* Until its parent has filled, a child is untouched or canceled, and no outcome
\* of the match pass is pending for it but its cancellation.
ChildInv ==
  Acknowledging =>
    \A i \in DOMAIN orders :
      LET o == orders[i] IN
      o.parent # NoOrder /\ orders[o.parent].oco = NoOrder
        /\ orders[o.parent].status # "Filled"
      => /\ o.status \in {"Submitted", "Canceled"} /\ o.filled = 0
         /\ i \in DOMAIN verdicts => verdicts[i] \in {"none", "cancel"}

LEMMA ChildInvStays ==
  ASSUME TypeInv, TurnInv, HeardInv, ChildInv, [Next]_vars
  PROVE  ChildInv'
<1> SUFFICES ASSUME Acknowledging, NEW i \in DOMAIN orders', orders'[i].parent # NoOrder,
                    orders'[orders'[i].parent].oco = NoOrder,
                    orders'[orders'[i].parent].status # "Filled"
             PROVE  /\ orders'[i].status \in {"Submitted", "Canceled"}
                    /\ orders'[i].filled = 0
                    /\ i \in DOMAIN verdicts' => verdicts'[i] \in {"none", "cancel"}
    BY RunKeepsPremises DEF ChildInv
<1>1. CASE i \notin DOMAIN orders
  <2>1. Fresh(orders'[i]) /\ i \notin DOMAIN verdicts'
    BY <1>1, NewIsFresh DEF TypeInv, TypeOK, StepOK
  <2>2. QED BY <2>1 DEF Fresh
<1>2. CASE i \in DOMAIN orders
  <2> DEFINE o == orders[i]
             q == orders'[i]
             p == orders[i].parent
  <2>1. /\ Traced(o, q) /\ o \in Order /\ p # NoOrder /\ q.parent = p
    BY <1>2, StepTraces DEF TypeInv, TypeOK, BookOK, Traced
  <2>2. /\ p \in DOMAIN orders \ {i} /\ orders[p] \in Order
        /\ Traced(orders[p], orders'[p])
    BY <1>2, <2>1, ParentIsBooked, StepTraces DEF TypeInv, TypeOK
  <2>3. orders[p].oco = NoOrder /\ orders[p].status # "Filled" /\ orders'[p].status # "Filled"
    BY <2>1, <2>2 DEF Traced, StaysEnded, Terminal
  <2>4. /\ o.status \in {"Submitted", "Canceled"} /\ o.filled = 0
        /\ i \in DOMAIN verdicts => verdicts[i] \in {"none", "cancel"}
    BY <1>2, <2>1, <2>3 DEF ChildInv
  <2>5. CASE Still(i)
    BY <2>4, <2>5 DEF Still
  <2>6. CASE Canceling(i)
    <3>1. CancelWorking(o).filled = o.filled
      BY <2>1, CancelWorkingOrder DEF SameFills
    <3>2. CancelWorking(o) = o \/ CancelWorking(o).status = "Canceled"
      BY <2>1, CanceledOrNot
    <3>3. QED BY <2>4, <2>6, <3>1, <3>2 DEF Canceling
  <2>7. ~Acknowledge(i)
    BY <2>1 DEF Acknowledge, PlainMarket
  <2>8. CASE AnnounceVerdict(i)
    <3>1. q = Note(o, Announced[verdicts[i]]) /\ verdicts' = [verdicts EXCEPT ![i] = "none"]
      BY <1>2, <2>8 DEF AnnounceVerdict
    <3>2. q.status = o.status /\ q.filled = o.filled
      BY <2>1, <3>1 DEF Note, Order
    <3>3. QED BY <2>4, <3>1, <3>2
  <2>9. ASSUME NEW reach, Match(reach)
        PROVE  /\ q.status \in {"Submitted", "Canceled"} /\ q.filled = 0
               /\ verdicts'[i] \in {"none", "cancel"}
    <3>1. /\ verdicts'[i] \in {"none", "cancel"} /\ q = AfterVerdict(o, verdicts'[i])
      BY <1>2, <2>1, <2>3, <2>9, MatchReasons DEF Released
    <3>2. q = o \/ q = Move(o, "Canceled")
      BY <3>1 DEF AfterVerdict
    <3>3. QED BY <2>1, <2>4, <3>1, <3>2 DEF Move, Order
  <2>10. ASSUME NEW k \in DOMAIN orders, FillOrder(k)
         PROVE  /\ q.status \in {"Submitted", "Canceled"} /\ q.filled = 0
                /\ i \in DOMAIN verdicts' => verdicts'[i] \in {"none", "cancel"}
    <3>1. Turned(k) /\ Booked(k)
      BY <2>10, FillTurns, FillBooked
    <3>2. k # i
      <4>1. ~Released(i)
        BY <2>1, <2>3 DEF Released
      <4>2. ~PlainMarket(o)
        BY <2>1 DEF PlainMarket
      <4>3. QED BY <2>10, <4>1, <4>2, FillPicks DEF HeardInv, PicksAreRight
    <3>3. q.filled = 0
      BY <1>2, <2>4, <3>1, <3>2 DEF Booked, SameFills
    <3>4. q.status \in {"Submitted", "Canceled"}
      <4>1. Touched(o, q, k)
        BY <1>2, <3>1, <3>2 DEF Turned
      <4>2. CASE q = o
        BY <2>4, <4>2
      <4>3. CASE q.status = "Canceled"
        BY <4>3
      <4>4. CASE p = k
        BY <1>2, <2>3, <2>4, <2>10, <3>1, <3>2, <4>4, FillIsLegal DEF Turned
      <4>5. QED BY <4>1, <4>2, <4>3, <4>4 DEF Touched
    <3>5. verdicts' = [verdicts EXCEPT ![k] = "none"]
      BY <2>10 DEF FillOrder, LeaveWorking, RefuseFill, KillFill, AddFill, OpenFill,
                   CloseFill, FillFrame
    <3>6. QED BY <2>4, <3>3, <3>4, <3>5
  <2>11. QED
    BY <1>2, <2>5, <2>6, <2>7, <2>8, <2>9, <2>10, OneOrderMoves
<1>3. QED BY <1>1, <1>2

-----------------------------------------------------------------------------
(* The theorems *)

LifeInv == HeardInv /\ StoryInv /\ ChildInv

\* The strengthened invariant of an order's life, at every point of a step: what
\* may trade was announced, what was told is what became of it except for what is
\* about to be announced, and the child of an unfilled order waits or is dead.
THEOREM LivesAreOrdered == Spec => []LifeInv
<1>1. Init => LifeInv
  <2> SUFFICES ASSUME Init PROVE LifeInv
      OBVIOUS
  <2>1. DOMAIN orders = {} /\ DOMAIN verdicts = {} /\ sweep = {}
    BY DEF Init
  <2>2. HeardInv
    BY <2>1 DEF HeardInv, RestingHeard, ChildrenHeard, WaitingHeard, PicksAreRight
  <2>3. StoryInv /\ ChildInv
    BY <2>1 DEF StoryInv, ChildInv
  <2>4. QED BY <2>2, <2>3 DEF LifeInv
<1>2. TypeInv /\ TurnInv /\ LifeInv /\ [Next]_vars => LifeInv'
  BY HeardStays, StoryStays, ChildInvStays DEF LifeInv
<1>3. QED BY <1>1, <1>2, TurnsAreOrdered, PTL DEF Spec

\* The notices of an order tell its story: between two steps the last one names
\* the status it is left in, none follows the one that ends it, and its status is
\* never asked for an illegal move.  It takes that whatever may trade was
\* acknowledged before (HeardInv), and that between an outcome of the match pass
\* and its announcement the order has moved and the strategy does not know yet.
THEOREM StoryIsTold == Spec => []OrdersTellTheirStory
<1>1. TurnInv /\ LifeInv => OrdersTellTheirStory
  <2> SUFFICES ASSUME TurnInv, LifeInv, NEW i \in DOMAIN orders, FollowsLifecycle(orders[i])
               PROVE  ~orders[i].faulted /\ (phase = "observe" => Told(orders[i]))
      BY DEF OrdersTellTheirStory, NoticesTellStatus, NoIllegalMove, Told, Shown
  <2>1. InStep(i)
    BY DEF LifeInv, StoryInv
  <2>2. QED BY <2>1 DEF InStep, TurnInv, Pending
<1>2. QED BY <1>1, LivesAreOrdered, TurnsAreOrdered, PTL

\* One-triggers-other: a child of an order that has not filled does nothing but
\* wait or be canceled.  Its parent's last slice is legal, so the step that
\* acknowledges a child is the one that fills its parent.
THEOREM ChildrenWait == Spec => []ChildWaitsForParent
<1>1. LifeInv => ChildWaitsForParent
  BY DEF LifeInv, ChildInv, ChildWaitsForParent
<1>2. QED BY <1>1, LivesAreOrdered, PTL

-----------------------------------------------------------------------------
(* How orders end: where a step stands *)

Early == {"observe", "expiry", "exits", "margin", "match"}

\* Every step stays in its phase, or moves on to the next one.
LEMMA PhaseMoves ==
  ASSUME TypeInv, [Next]_vars
  PROVE  \/ phase' = phase /\ UNCHANGED <<idx, now, bar>>
         \/ phase \in Early /\ phase' \in Early /\ UNCHANGED <<idx, now>>
         \/ \E reach : Match(reach)
         \/ EndMatch
         \/ /\ phase = "signal" /\ phase' = "sweeping"
            /\ UNCHANGED <<orders, idx, now, bar>>
         \/ StartSweep
         \/ BarredEntry \/ EndStep \/ SettleExpiry \/ StepQuote
<1>1. ASSUME Strategy \/ UNCHANGED vars
      PROVE  phase' = phase /\ UNCHANGED <<idx, now, bar>>
  BY <1>1 DEF Strategy, Submit, LinkOco, Cancel, Modify, RequestClose, ObserveEquity,
              HaltMargin, clockVars, stepVars, vars
<1>2. CASE StartEvent
  BY <1>2 DEF StartEvent, BeginStep, clockVars, Early
<1>3. CASE FillIntents
  BY <1>3 DEF FillIntents, clockVars, Early
<1>4. ASSUME NEW x, Exits(x) \/ MarginCheck(x)
      PROVE  phase \in Early /\ phase' \in Early /\ UNCHANGED <<idx, now>>
  BY <1>4 DEF Exits, MarginCheck, clockVars, Early
<1>5. CASE StashEntry \/ NoEntry \/ \E size \in Affordable : EnterOnSignal(size)
  BY <1>5 DEF StashEntry, NoEntry, EnterOnSignal, clockVars, stepVars, bookVars
<1>6. ASSUME NEW k, AnnounceVerdict(k) \/ FillOrder(k)
      PROVE  phase' = phase /\ UNCHANGED <<idx, now, bar>>
  BY <1>6 DEF AnnounceVerdict, FillOrder, LeaveWorking, RefuseFill, KillFill, AddFill,
     OpenFill, CloseFill, FillFrame, clockVars
<1>7. QED
  BY <1>1, <1>2, <1>3, <1>4, <1>5, <1>6 DEF Next, Market, Step

\* What is swept and not filled yet waits for its turn.
LEMMA SweepWaits ==
  ASSUME TypeInv, [Next]_vars, phase = "sweep", phase' = "sweep", NEW i \in sweep
  PROVE  i \in sweep' \/ FillOrder(i)
<1>1. CASE UNCHANGED sweep
  BY <1>1
<1>2. CASE Strategy \/ StartEvent \/ UNCHANGED vars
  BY <1>2 DEF Strategy, Submit, LinkOco, Cancel, Modify, RequestClose, ObserveEquity,
     HaltMargin, StartEvent, StepQuote, BeginStep, stepVars, vars
<1>3. CASE \/ SettleExpiry \/ FillIntents \/ EndMatch \/ StashEntry \/ BarredEntry \/ NoEntry
           \/ EndStep \/ StartSweep
  BY <1>3 DEF SettleExpiry, FillIntents, EndMatch, StashEntry, BarredEntry, NoEntry,
     EndStep, StartSweep
<1>4. ASSUME NEW x, Exits(x) \/ MarginCheck(x) \/ EnterOnSignal(x) \/ Match(x)
      PROVE  FALSE
  BY <1>4 DEF Exits, MarginCheck, EnterOnSignal, Match
<1>5. ASSUME NEW k, AnnounceVerdict(k) PROVE FALSE
  BY <1>5 DEF AnnounceVerdict, Due
<1>6. ASSUME NEW k, FillOrder(k) PROVE i \in sweep' \/ FillOrder(i)
  <2>1. sweep' = sweep \ {k}
    BY <1>6 DEF FillOrder, LeaveWorking, RefuseFill, KillFill, AddFill, OpenFill, CloseFill,
       FillFrame
  <2>2. QED BY <1>6, <2>1
<1>7. QED
  BY <1>1, <1>2, <1>3, <1>4, <1>5, <1>6 DEF Next, Market, Step

\* So does what the match pass lets fill.
LEMMA FillWaits ==
  ASSUME TypeInv, [Next]_vars, phase = "apply", phase' = "apply", NEW i \in DOMAIN verdicts,
         verdicts[i] = "fill"
  PROVE  (i \in DOMAIN verdicts' /\ verdicts'[i] = "fill") \/ FillOrder(i)
<1>1. CASE UNCHANGED verdicts
  BY <1>1
<1>2. CASE Strategy \/ StartEvent \/ UNCHANGED vars
  BY <1>2 DEF Strategy, Submit, LinkOco, Cancel, Modify, RequestClose, ObserveEquity,
     HaltMargin, StartEvent, StepQuote, BeginStep, stepVars, vars
<1>3. CASE \/ SettleExpiry \/ FillIntents \/ EndMatch \/ StashEntry \/ BarredEntry \/ NoEntry
           \/ EndStep \/ StartSweep
  BY <1>3 DEF SettleExpiry, FillIntents, EndMatch, StashEntry, BarredEntry, NoEntry,
     EndStep, StartSweep
<1>4. ASSUME NEW x, Exits(x) \/ MarginCheck(x) \/ EnterOnSignal(x) \/ Match(x)
      PROVE  FALSE
  BY <1>4 DEF Exits, MarginCheck, EnterOnSignal, Match
<1>5. ASSUME NEW k, AnnounceVerdict(k)
      PROVE  i \in DOMAIN verdicts' /\ verdicts'[i] = "fill"
  BY <1>5 DEF AnnounceVerdict
<1>6. ASSUME NEW k, FillOrder(k)
      PROVE  (i \in DOMAIN verdicts' /\ verdicts'[i] = "fill") \/ FillOrder(i)
  <2>1. verdicts' = [verdicts EXCEPT ![k] = "none"]
    BY <1>6 DEF FillOrder, LeaveWorking, RefuseFill, KillFill, AddFill, OpenFill, CloseFill,
       FillFrame
  <2>2. QED BY <1>6, <2>1
<1>7. QED
  BY <1>1, <1>2, <1>3, <1>4, <1>5, <1>6 DEF Next, Market, Step

-----------------------------------------------------------------------------
(* Orders past their date, and routed market orders *)

\* Away from the match pass an order on its own that has been announced was so before.
LEMMA AnnouncedBefore ==
  ASSUME TypeInv, HeardInv, [Next]_vars, NEW i \in DOMAIN orders,
         phase' = phase, phase # "sweep",
         orders[i].parent = NoOrder, orders[i].status = "Submitted", IsLive(orders'[i])
  PROVE  orders'[i].status = "Submitted"
<1> DEFINE o == orders[i]
           q == orders'[i]
<1>1. o \in Order
  BY DEF TypeInv, TypeOK, BookOK
<1>2. CASE Still(i)
  BY <1>2 DEF Still
<1>3. CASE Canceling(i)
  BY <1>1, <1>3, CanceledEnds DEF Canceling, IsLive, Working, Terminal
<1>4. ~Acknowledge(i) /\ \A reach : ~Match(reach)
  BY DEF Acknowledge, Match
<1>5. CASE AnnounceVerdict(i)
  <2>1. q = Note(o, Announced[verdicts[i]])
    BY <1>5 DEF AnnounceVerdict
  <2>2. QED BY <1>1, <2>1 DEF Note, Order
<1>6. ASSUME NEW k \in DOMAIN orders, FillOrder(k) PROVE q.status = "Submitted"
  <2>1. k # i
    BY <1>6, FillPicks DEF HeardInv, PicksAreRight, RestingHeard
  <2>2. Touched(o, q, k)
    BY <1>6, <2>1, FillTurns DEF Turned
  <2>3. o.parent # k
    BY NoOrderAssumption, <1>6 DEF TypeInv, TypeOK, BookOK
  <2>4. QED BY <2>2, <2>3 DEF Touched, IsLive, Working
<1>7. QED BY <1>2, <1>3, <1>4, <1>5, <1>6, OneOrderMoves

\* The match pass expires what it finds past its date.
LEMMA MatchExpires ==
  ASSUME TypeInv, NEW reach, Match(reach), NEW i \in DOMAIN orders,
         orders[i].parent = NoOrder, orders[i].status # "Submitted",
         orders[i].submittedIdx < idx, PastDate(orders[i]),
         bar.mode = "Trade" => now >= orders[i].arrivalTs
  PROVE  ~IsLive(orders'[i])
<1> DEFINE o == orders[i]
           parents == [k \in DOMAIN orders |-> orders[k].status]
           v == verdicts'[i]
<1>1. /\ o \in Order
      /\ v = Verdict(o, parents, idx, now, bar.mode, reach[i])
      /\ orders'[i] = AfterVerdict(o, v)
  BY DEF Match, TypeInv, TypeOK, BookOK
<1>2. CASE ~IsLive(o)
  <2>1. o.status \in Terminal
    BY <1>1, <1>2 DEF IsLive, Order, Statuses
  <2>2. QED BY <1>1, <2>1, VerdictStaysEnded DEF StaysEnded, IsLive, Working, Terminal
<1>3. CASE IsLive(o)
  <2>1. Visible(o, idx, now, bar.mode) /\ Lapsed(o, now)
    BY <1>3 DEF Visible, PastDate, Lapsed
  <2>2. ~OrphanedByParent(o, parents) /\ ~HeldByParent(o, parents)
    BY DEF OrphanedByParent, HeldByParent
  <2> HIDE DEF parents
  <2>3. v = "expire"
    BY <1>1, <2>1, <2>2 DEF Verdict
  <2>4. orders'[i] = Move(o, "Expired")
    BY <1>1, <2>3 DEF AfterVerdict
  <2>5. orders'[i].status = "Expired"
    BY <1>1, <1>3, <2>4 DEF Move, LegalMoves, IsLive, Working, Order
  <2>6. QED BY <2>5 DEF IsLive, Working
<1>4. QED BY <1>2, <1>3

LEMMA LapsedStayDead ==
  ASSUME TypeInv, TurnInv, HeardInv, LapsedOrderIsDead, [Next]_vars
  PROVE  LapsedOrderIsDead'
<1> SUFFICES ASSUME phase' \in {"apply", "signal", "sweeping"}, NEW i \in DOMAIN orders',
                    orders'[i].parent = NoOrder, orders'[i].submittedIdx < idx',
                    PastDate(orders[i])',
                    bar'.mode = "Trade" => now' >= orders'[i].arrivalTs,
                    orders'[i].status # "Submitted"
             PROVE  ~IsLive(orders'[i])
    BY DEF LapsedOrderIsDead
<1> DEFINE o == orders[i]
           q == orders'[i]
<1>1. i \in DOMAIN orders
  BY NewIsFresh
<1>2. o \in Order /\ q \in Order /\ Traced(o, q)
  BY <1>1, StepTraces, NextType DEF TypeInv, TypeOK, BookOK
<1>3. ASSUME ~IsLive(o) PROVE ~IsLive(q)
  BY <1>2, <1>3 DEF Traced, StaysEnded, IsLive, Order, Statuses, Working, Terminal
<1>4. now' = now => PastDate(o)
  BY <1>2 DEF PastDate, Traced
<1>5. CASE phase' = phase /\ UNCHANGED <<idx, now, bar>>
  <2>1. CASE o.status = "Submitted"
    BY <1>1, <1>2, <1>5, <2>1, AnnouncedBefore DEF Traced
  <2>2. CASE o.status # "Submitted"
    BY <1>1, <1>2, <1>3, <1>4, <1>5, <2>2 DEF LapsedOrderIsDead, Traced
  <2>3. QED BY <2>1, <2>2
<1>6. ASSUME NEW reach, Match(reach) PROVE ~IsLive(q)
  <2>1. UNCHANGED <<idx, now, bar>>
    BY <1>6 DEF Match, clockVars
  <2>2. CASE o.status = "Submitted"
    <3>1. q = AfterVerdict(o, verdicts'[i]) /\ verdicts'[i] \in Verdicts
      BY <1>1, <1>6, MatchReasons
    <3>2. QED
      BY <1>2, <2>2, <3>1
      DEF AfterVerdict, Move, LegalMoves, Verdicts, IsLive, Working, Order
  <2>3. CASE o.status # "Submitted"
    BY <1>1, <1>2, <1>4, <1>6, <2>1, <2>3, MatchExpires DEF Traced
  <2>4. QED BY <2>2, <2>3
<1>7. CASE EndMatch \/ (phase = "signal" /\ UNCHANGED <<orders, idx, now, bar>>)
  <2>1. phase \in {"apply", "signal"} /\ UNCHANGED <<orders, idx, now, bar>>
    BY <1>7 DEF EndMatch, bookVars, clockVars, stepVars
  <2>2. QED BY <1>1, <1>4, <2>1 DEF LapsedOrderIsDead
<1>8. ~(StartSweep \/ BarredEntry \/ EndStep \/ SettleExpiry \/ StepQuote)
  BY DEF StartSweep, BarredEntry, EndStep, SettleExpiry, StepQuote, FinishStep
<1>9. phase' \notin Early
  BY DEF Early
<1>10. QED
  BY <1>5, <1>6, <1>7, <1>8, <1>9, PhaseMoves

LEMMA RoutedStay ==
  ASSUME TypeInv, TurnInv, RoutedOrderWorks, [Next]_vars
  PROVE  RoutedOrderWorks'
<1> SUFFICES ASSUME phase' = "sweep", bar'.mode = "Trade", NEW i \in DOMAIN orders',
                    PlainMarket(orders'[i]), orders'[i].status = "Submitted",
                    now' >= orders'[i].arrivalTs
             PROVE  i \in sweep'
    BY DEF RoutedOrderWorks
<1> DEFINE o == orders[i]
           q == orders'[i]
<1>1. i \in DOMAIN orders
  BY NewIsFresh
<1>2. o \in Order /\ Traced(o, q) /\ PlainMarket(o) /\ o.status = "Submitted"
  BY <1>1, StepTraces DEF TypeInv, TypeOK, BookOK, Traced, Begun, PlainMarket
<1>3. CASE StartSweep
  <2>1. UNCHANGED <<now, bar>> /\ sweep' = {j \in DOMAIN orders : Swept(orders[j])}
    BY <1>3 DEF StartSweep, clockVars
  <2>2. ~Defers /\ bar.mode = "Trade"
    BY <2>1 DEF Defers
  <2>3. o.submittedIdx <= idx /\ now >= o.arrivalTs /\ IsLive(o)
    BY <1>1, <1>2, <2>1 DEF TurnInv, Traced, IsLive, Working
  <2>4. QED BY <1>1, <1>2, <2>1, <2>2, <2>3 DEF Swept
<1>4. CASE ~StartSweep
  <2>1. phase = "sweep"
    BY <1>4, ClockMoves
  <2>2. UNCHANGED <<idx, now, bar>>
    BY <2>1, <1>4, PhaseMoves
    DEF Early, Match, EndMatch, BarredEntry, EndStep, SettleExpiry, StepQuote, FinishStep
  <2>3. i \in sweep
    BY <1>1, <1>2, <2>1, <2>2 DEF RoutedOrderWorks, Traced
  <2>4. ~FillOrder(i)
    <3>1. ASSUME FillOrder(i) PROVE FALSE
      <4>1. Presented(i) = Acknowledged(o)
        BY <1>2, <2>1, <2>2 DEF Presented, Defers
      <4>2. Begun(Presented(i), q)
        BY <1>1, <3>1, FillTurns DEF Turned
      <4>3. QED BY <1>2, <4>1, <4>2, AcknowledgedStatus DEF Begun
    <3>2. QED BY <3>1
  <2>5. QED BY <2>1, <2>3, <2>4, SweepWaits
<1>5. QED BY <1>3, <1>4

-----------------------------------------------------------------------------
(* Orders for whole lots, on bars: one fill ends them *)

\* The orders meant: on their own, and if swept then on the bar they were placed at.
Ordinary(o) == o.parent = NoOrder /\ (PlainMarket(o) => ~NextBarOpen)

WholeUnits(o) == o.qty = "Units" => o.units > 0 /\ Lots(o.units) = o.units

\* While it works it has traded nothing.
Untraded(o) == IsLive(o) => o.filled = 0 /\ WholeUnits(o)

\* So it is with the ordinary orders, and with all where all are acknowledged.
WholeInv ==
  Modes = {"Bar"} /\ WholeLots =>
    \A i \in DOMAIN orders : Ordinary(orders[i]) \/ Acknowledging => Untraded(orders[i])

LEMMA ConfigIsFixed ==
  ASSUME [Next]_vars
  PROVE  /\ NextBarOpen' = NextBarOpen /\ Modes' = Modes /\ WholeLots' = WholeLots
         /\ SameBar' = SameBar /\ EvaluatedOnce' = EvaluatedOnce
         /\ Signals' = Signals /\ UsesMargin' = UsesMargin
         /\ LotSize' = LotSize
BY RunIsFixed
DEF NextBarOpen, Modes, WholeLots, SameBar, EvaluatedOnce, NeverBarred, Lots, LotSize, Templates,
    NewUnits, Signals, UsesMargin, ActivationTs, CrossInstrument, MayPassOver

\* A slice that reaches what was requested fills its order.
LEMMA LastSliceFills ==
  ASSUME TypeInv, NEW k \in DOMAIN orders, NEW size \in Nat, NEW requested,
         orders' = RecordFill(Book(k), k, size, requested, idx),
         IsLive(Presented(k)), Presented(k).status # "Submitted",
         Presented(k).filled + size >= requested
  PROVE  orders'[k].status = "Filled"
<1> DEFINE o    == Presented(k)
           x    == Sliced(o, size, requested, idx)
           now1 == [Book(k) EXCEPT ![k] = x]
<1>1. /\ idx \in Nat /\ o \in Order /\ Book(k) \in [DOMAIN orders -> Order]
      /\ Book(k)[k] = o /\ o.parent = orders[k].parent
  BY ConfigTypes, PresentedOrder DEF TypeInv, TypeOK, ClockOK, SameFills, SameTerms
<1>2. orders[k].parent # k
  BY NoOrderAssumption DEF TypeInv, TypeOK, BookOK
<1>3. orders' = AfterFill(now1, k)
  BY <1>1, RecordFillSlices
<1>4. x \in Order /\ x.parent = o.parent /\ x.status = "Filled"
  BY <1>1, SlicedAnyway, SlicedOrder
<1> HIDE DEF o, x
<1>5. now1 \in [DOMAIN orders -> Order] /\ now1[k] = x
  BY <1>1, <1>4
<1> HIDE DEF now1
<1>6. AfterFill(now1, k)[k] = now1[k]
  BY <1>1, <1>2, <1>4, <1>5, AfterFillTouches
<1>7. QED BY <1>3, <1>4, <1>5, <1>6

\* Such an order was acknowledged before it is filled.
LEMMA FillIsHeard ==
  ASSUME TypeInv, TurnInv, HeardInv, NEW k \in DOMAIN orders, FillOrder(k),
         Ordinary(orders[k]) \/ Acknowledging, IsLive(orders[k])
  PROVE  IsLive(Presented(k)) /\ Presented(k).status # "Submitted"
<1> DEFINE o == Presented(k)
<1>1. /\ orders[k] \in Order /\ o \in Order /\ SameFills(orders[k], o)
  BY PresentedOrder DEF TypeInv, TypeOK
<1>2. CASE Acknowledging
  BY <1>2, FillIsLegal
<1>3. CASE Ordinary(orders[k])
  <2>1. CASE orders[k].status # "Submitted"
    BY <2>1 DEF Presented
  <2>2. CASE orders[k].status = "Submitted"
    <3>1. phase = "sweep" /\ PlainMarket(orders[k])
      BY <1>3, <2>2, FillPicks DEF HeardInv, PicksAreRight, RestingHeard, Ordinary
    <3>2. o = Acknowledged(orders[k])
      BY <1>3, <2>2, <3>1 DEF Presented, Defers, Ordinary
    <3>3. QED BY <1>1, <2>2, <3>2, AcknowledgedStatus DEF IsLive, Working
  <2>3. QED BY <2>1, <2>2
<1>4. QED BY <1>2, <1>3

\* The fill of a whole order on a bar ends it, unless the fill model passes it over.
LEMMA WholeFillEnds ==
  ASSUME TypeInv, TurnInv, Modes = {"Bar"},
         NEW k \in DOMAIN orders, FillOrder(k), Untraded(orders[k]),
         IsLive(orders[k]) => IsLive(Presented(k)) /\ Presented(k).status # "Submitted"
  PROVE  ~IsLive(orders'[k]) \/ (LeaveWorking(k) /\ PassedOver(Presented(k)))
<1> DEFINE o == Presented(k)
<1>1. /\ orders[k] \in Order /\ o \in Order /\ SameFills(orders[k], o)
      /\ StaysEnded(orders[k], orders'[k])
  BY PresentedOrder, FillBooked DEF TypeInv, TypeOK, Booked
<1>2. CASE ~IsLive(orders[k])
  BY <1>1, <1>2 DEF StaysEnded, IsLive, Order, Statuses, Working, Terminal
<1>3. CASE IsLive(orders[k])
  <2>1. IsLive(o) /\ o.status # "Submitted"
    BY <1>3
  <2>2. /\ o.filled = 0 /\ o.units \in Nat
        /\ o.qty = "Units" => o.units > 0 /\ Lots(o.units) = o.units
    BY <1>1, <1>3 DEF Untraded, WholeUnits, SameFills, SameTerms, Order
  <2>3. bar.mode = "Bar"
    BY FillIsAwaited DEF TurnInv
  <2>4. \A u : Slice(u) = u
    BY <2>3 DEF Slice
  <2>5. ASSUME ~Flat PROVE positions[FirstPosition].size \in Nat \ {0}
    BY <2>5, FirstIsOpen DEF TypeInv, TypeOK, Position
  <2>6. ASSUME Sized(o, k), Opens(o)
        PROVE  Wanted(o) = o.units /\ o.qty = "Units"
    BY <2>2, <2>6 DEF Wanted, Sized, Closing, Adding, Opening
  <2>7. ASSUME Closing(o)
        PROVE  Wanted(o) \in Nat \ {0}
    BY <2>2, <2>5, <2>7 DEF Wanted, Closing
  <2>8. Sized(o, k) => Wanted(o) \in Nat \ {0}
    BY <2>2, <2>6, <2>7 DEF Sized, Closing, Adding, Opening
  <2>9. ~NothingWanted(o, k) /\ ~TooSmall(o, k)
    BY <2>4, <2>8 DEF NothingWanted, TooSmall
  <2>10. CASE LeaveWorking(k) \/ KillFill(k)
    BY <2>9, <2>10 DEF LeaveWorking, KillFill
  <2>11. CASE RefuseFill(k)
    <3>1. orders'[k] = Refused(o)
      BY <2>11 DEF RefuseFill
    <3>2. Move(o, "Rejected").status = "Rejected"
      BY <1>1, <2>1 DEF Move, LegalMoves, IsLive, Working, Order
    <3>3. QED BY <1>1, <3>1, <3>2, NotedStatus, EndedStatuses DEF Refused, IsLive, Working
  <2>12. ASSUME NEW size \in Nat, NEW requested, o.filled + size >= requested,
                orders' = RecordFill(Book(k), k, size, requested, idx)
         PROVE  ~IsLive(orders'[k])
    BY <2>1, <2>12, LastSliceFills DEF IsLive, Working
  <2> HIDE DEF o
  <2>13. CASE AddFill(k)
    <3>1. Adding(o, k) /\ orders' = RecordFill(Book(k), k, Lots(Slice(Wanted(o))), o.units, idx)
      BY <2>13 DEF AddFill, o
    <3>2. Lots(Slice(Wanted(o))) = o.units
      BY <2>2, <2>4, <2>6, <3>1 DEF Sized, Adding
    <3>3. QED BY <2>2, <2>12, <3>1, <3>2
  <2>14. CASE OpenFill(k)
    <3>1. Opening(o, k)
      BY <2>14 DEF OpenFill, o
    <3>2. PICK size \in (IF o.qty = "Units" THEN {Lots(Slice(Wanted(o)))} ELSE Affordable) :
            orders' = RecordFill(Book(k), k, size, IF o.qty = "Units" THEN o.units ELSE size, idx)
      BY <2>14 DEF OpenFill, o
    <3>3. o.qty = "Units" => size = o.units
      BY <2>2, <2>4, <2>6, <3>1, <3>2 DEF Sized, Opening
    <3>4. size \in Nat
      BY <2>2, <3>2, <3>3, ConfigTypes DEF Affordable, TypeInv, TypeOK
    <3>5. QED BY <2>2, <2>12, <3>2, <3>3, <3>4
  <2>15. CASE CloseFill(k)
    <3> DEFINE held      == positions[FirstPosition].size
               requested == IF o.qty = "Units" /\ o.units < o.filled + held THEN o.units
                            ELSE IF o.qty = "Units" THEN o.filled + held ELSE held
    <3>1. /\ Closing(o)
          /\ orders' = RecordFill(Book(k), k, Slice(Wanted(o)), requested, idx)
      BY <2>15 DEF CloseFill, o
    <3>2. held \in Nat /\ ~Opens(o)
      BY <2>5, <3>1 DEF Closing
    <3>3. Wanted(o) \in Nat /\ o.filled + Wanted(o) >= requested
      BY <2>2, <3>2 DEF Wanted
    <3>4. QED BY <2>4, <2>12, <3>1, <3>3
  <2>16. QED
    BY <2>10, <2>11, <2>13, <2>14, <2>15 DEF FillOrder
<1>4. QED BY <1>2, <1>3

LEMMA OneFillEnds ==
  ASSUME TypeInv, TurnInv, HeardInv, WholeInv, Modes = {"Bar"}, WholeLots,
         NEW k \in DOMAIN orders, FillOrder(k), Ordinary(orders[k]) \/ Acknowledging
  PROVE  ~IsLive(orders'[k]) \/ (LeaveWorking(k) /\ PassedOver(Presented(k)))
BY FillIsHeard, WholeFillEnds DEF WholeInv

LEMMA WholeStays ==
  ASSUME TypeInv, TurnInv, HeardInv, WholeInv, [Next]_vars
  PROVE  WholeInv'
<1> DEFINE Meant(o) == (o.parent = NoOrder /\ (PlainMarket(o) => ~NextBarOpen)) \/ Acknowledging
<1> SUFFICES ASSUME Modes = {"Bar"}, WholeLots, NEW i \in DOMAIN orders',
                    Meant(orders'[i]), IsLive(orders'[i])
             PROVE  orders'[i].filled = 0 /\ WholeUnits(orders'[i])
  <2>1. ASSUME NEW o PROVE WholeUnits(o)' <=> WholeUnits(o)
    BY ConfigIsFixed DEF WholeUnits, Lots
  <2>2. ASSUME NEW o PROVE Ordinary(o)' <=> Ordinary(o)
    BY ConfigIsFixed DEF Ordinary
  <2>3. Acknowledging' <=> Acknowledging
    BY RunKeepsPremises
  <2>4. QED
    BY <2>1, <2>2, <2>3, ConfigIsFixed DEF WholeInv, Untraded, Ordinary, WholeUnits, Lots
<1> DEFINE o == orders[i]
           q == orders'[i]
<1>1. CASE i \notin DOMAIN orders
  BY <1>1, NewIsFresh DEF Fresh, WholeLots, WholeUnits
<1>2. CASE i \in DOMAIN orders
  <2>1. o \in Order /\ Traced(o, q) /\ IsLive(o)
    BY <1>2, StepTraces
    DEF TypeInv, TypeOK, BookOK, Traced, StaysEnded, IsLive, Order, Statuses, Working, Terminal
  <2>2. Ordinary(o) \/ Acknowledging
    BY <2>1 DEF Ordinary, Traced, PlainMarket
  <2>3. o.filled = 0 /\ WholeUnits(o) /\ Untraded(o)
    BY <1>2, <2>1, <2>2 DEF WholeInv, Untraded
  <2>4. WholeUnits(q)
    <3>1. \A units \in NewUnits : units > 0 /\ Lots(units) = units
      BY ConfigTypes DEF TypeInv, TypeOK, WholeLots
    <3>2. SameRequest(o, q)
      BY <2>1 DEF Traced
    <3>3. QED BY <2>3, <3>1, <3>2 DEF SameRequest, WholeUnits
  <2>5. q.filled = 0
    <3>1. CASE BookKept
      BY <1>2, <2>3, <3>1 DEF BookKept, Kept, SameTrade
    <3>2. ASSUME NEW k \in DOMAIN orders, FillOrder(k) PROVE q.filled = 0
      <4>1. CASE k # i
        BY <1>2, <2>3, <3>2, <4>1, FillBooked DEF Booked, SameFills
      <4>2. CASE k = i
        <5>1. LeaveWorking(i)
          BY <2>1, <2>2, <3>2, <4>2, OneFillEnds
        <5>2. QED BY <1>2, <2>3, <5>1, UntradedBooked DEF SameFills
      <4>3. QED BY <4>1, <4>2
    <3>3. QED BY <3>1, <3>2, FillOrQuiet
  <2>6. QED BY <2>4, <2>5
<1>3. QED BY <1>1, <1>2

-----------------------------------------------------------------------------
(* Market orders that fill on the bar they were placed at *)

\* Without a halt or a late activation no entry is barred.
EntryInv ==
  /\ bar.entry => Signals
  /\ halted => UsesMargin

LEMMA EntryStays ==
  ASSUME TypeInv, EntryInv, [Next]_vars
  PROVE  EntryInv'
<1>1. Signals' = Signals /\ UsesMargin' = UsesMargin
  BY ConfigIsFixed
<1>2. CASE UNCHANGED <<bar, halted>>
  BY <1>1, <1>2 DEF EntryInv
<1>3. CASE Strategy
  <2>1. UNCHANGED bar /\ (halted' = halted \/ UsesMargin)
    BY <1>3 DEF Strategy, Submit, LinkOco, Cancel, Modify, RequestClose, ObserveEquity,
                HaltMargin, stepVars, gateVars
  <2>2. QED BY <1>1, <2>1 DEF EntryInv
<1>4. CASE StartEvent
  BY <1>1, <1>4 DEF EntryInv, StartEvent, StepQuote, BeginStep, stepVars, gateVars
<1>5. CASE SettleExpiry \/ BarredEntry \/ EndStep
  BY <1>1, <1>5 DEF EntryInv, SettleExpiry, BarredEntry, EndStep, FinishStep, NoBar, gateVars
<1>6. CASE FillIntents \/ EndMatch \/ StashEntry \/ NoEntry \/ StartSweep \/ UNCHANGED vars
  BY <1>2, <1>6 DEF FillIntents, EndMatch, StashEntry, NoEntry, StartSweep, stepVars, gateVars, vars
<1>7. ASSUME NEW x, Exits(x) \/ EnterOnSignal(x) \/ Match(x) PROVE UNCHANGED <<bar, halted>>
  BY <1>7 DEF Exits, EnterOnSignal, Match, stepVars, gateVars
<1>8. ASSUME NEW breach \in BOOLEAN, MarginCheck(breach) PROVE EntryInv'
  BY <1>1, <1>8 DEF EntryInv, MarginCheck, stepVars
<1>9. ASSUME NEW k, AnnounceVerdict(k) \/ FillOrder(k) PROVE UNCHANGED <<bar, halted>>
  BY <1>9 DEF AnnounceVerdict, FillOrder, LeaveWorking, RefuseFill, KillFill, AddFill, OpenFill,
     CloseFill, FillFrame, gateVars
<1>10. QED
  BY <1>2, <1>3, <1>4, <1>5, <1>6, <1>7, <1>8, <1>9 DEF Next, Market, Step

LEMMA NoEntryBarred ==
  ASSUME TypeInv, EntryInv, NeverBarred
  PROVE  ~BarredEntry
BY DEF EntryInv, NeverBarred, BarredEntry, TriesEntry, SignalBarred, TypeInv, TypeOK, ClockOK

\* A market order that works is of this event, and the sweep, once it has begun, has
\* still to come to it.
MarketInv ==
  SameBar =>
    \A i \in DOMAIN orders :
      PlainMarket(orders[i]) /\ IsLive(orders[i]) =>
        orders[i].submittedIdx = idx /\ (phase = "sweep" => i \in sweep)

LEMMA MarketStays ==
  ASSUME TypeInv, TurnInv, HeardInv, WholeInv, EntryInv, MarketInv, [Next]_vars
  PROVE  MarketInv'
<1> SUFFICES ASSUME SameBar, NEW i \in DOMAIN orders', PlainMarket(orders'[i]),
                    IsLive(orders'[i])
             PROVE  orders'[i].submittedIdx = idx' /\ (phase' = "sweep" => i \in sweep')
    BY ConfigIsFixed DEF MarketInv
<1> DEFINE o == orders[i]
           q == orders'[i]
<1>1. Modes = {"Bar"} /\ ~NextBarOpen /\ ~CrossInstrument /\ NeverBarred /\ WholeLots
  BY DEF SameBar
<1>2. CASE i \notin DOMAIN orders
  BY <1>1, <1>2, NewIsFresh DEF Fresh
<1>3. CASE i \in DOMAIN orders
  <2>1. o \in Order /\ Traced(o, q) /\ PlainMarket(o) /\ IsLive(o)
    BY <1>3, StepTraces
    DEF TypeInv, TypeOK, BookOK, Traced, PlainMarket, StaysEnded, IsLive, Order, Statuses,
        Working, Terminal
  <2>2. o.submittedIdx = idx /\ (phase = "sweep" => i \in sweep)
    BY <1>3, <2>1 DEF MarketInv
  <2>3. ~StepQuote /\ ~BarredEntry
    BY <1>1, NoEntryBarred DEF StepQuote
  <2>4. ~SettleExpiry
    BY <1>3, <2>1, CanceledEnds DEF SettleExpiry, IsLive, Working, Terminal
  <2>5. ~EndStep
    BY <2>2 DEF EndStep
  <2>6. idx' = idx
    BY <2>3, <2>4, <2>5, ClockMoves
  <2>7. ASSUME phase' = "sweep" PROVE i \in sweep'
    <3>1. CASE phase = "sweep"
      <4>1. ~FillOrder(i)
        <5>1. LeaveWorking(i) => ~PassedOver(Presented(i))
          <6>1. Presented(i).kind = o.kind
            BY <1>3, PresentedOrder DEF SameFills, SameTerms, TypeInv, TypeOK
          <6>2. QED BY <2>1, <6>1 DEF PassedOver, IsLimitFill, PlainMarket
        <5>2. QED BY <1>1, <1>3, <2>1, <5>1, OneFillEnds DEF Ordinary, PlainMarket
      <4>2. QED BY <2>2, <2>7, <3>1, <4>1, SweepWaits
    <3>2. CASE phase # "sweep"
      <4>1. StartSweep /\ bar.mode \in Modes
        BY <2>7, <3>2, ClockMoves DEF StartSweep, TurnInv
      <4>2. Swept(o)
        BY <1>1, <2>1, <2>2, <4>1 DEF Swept, Defers
      <4>3. QED BY <1>3, <4>1, <4>2 DEF StartSweep
    <3>3. QED BY <3>1, <3>2
  <2>8. QED BY <2>1, <2>2, <2>6, <2>7 DEF Traced
<1>4. QED BY <1>2, <1>3

-----------------------------------------------------------------------------
(* One-shot orders of the book, on bars *)

\* Those that must end at their first evaluation.
Single(o) ==
  o.tif \in OneShot /\ ~PlainMarket(o) /\ o.parent = NoOrder /\ o.status # "Triggered"

\* Until the match pass such an order is at most one event old, after it not even
\* that, unless its fill is still to come.
OneShotInv ==
  EvaluatedOnce =>
    \A i \in DOMAIN orders :
      Single(orders[i]) /\ IsLive(orders[i]) =>
        CASE phase \in Early   -> idx <= orders[i].submittedIdx + 1
          [] phase = "apply"   -> \/ idx <= orders[i].submittedIdx
                                  \/ i \in DOMAIN verdicts /\ verdicts[i] = "fill"
          [] OTHER             -> idx <= orders[i].submittedIdx

\* The pass decides about every such order that it sees.
LEMMA MatchDecides ==
  ASSUME TypeInv, HeardInv, NEW reach, Match(reach), NEW i \in DOMAIN orders,
         orders[i].tif \in OneShot, ~PlainMarket(orders[i]), orders[i].parent = NoOrder,
         orders[i].submittedIdx < idx, bar.mode = "Bar",
         orders'[i].status # "Triggered", IsLive(orders'[i])
  PROVE  i \in DOMAIN verdicts' /\ verdicts'[i] = "fill"
<1> DEFINE o == orders[i]
           parents == [k \in DOMAIN orders |-> orders[k].status]
           byKind == KindVerdict(o, idx, bar.mode, reach[i])
           v == verdicts'[i]
<1>1. /\ o \in Order
      /\ v = Verdict(o, parents, idx, now, bar.mode, reach[i])
      /\ orders'[i] = AfterVerdict(o, v)
  BY DEF Match, TypeInv, TypeOK, BookOK
<1>2. /\ i \in DOMAIN verdicts' /\ v \in Verdicts
      /\ v = "trigger" => o.kind \in TwoStage /\ ~LimitLive(o)
      /\ v = "expire" => o.tif \in {"Gtd", "Day"}
  BY MatchReasons
<1>3. IsLive(o)
  <2>1. StaysEnded(o, orders'[i])
    BY <1>1, VerdictStaysEnded
  <2>2. QED BY <1>1, <2>1 DEF StaysEnded, IsLive, Order, Statuses, Working, Terminal
<1>4. o.status \in {"Accepted", "Triggered", "PartiallyFilled"}
  BY <1>3 DEF HeardInv, RestingHeard, IsLive, Working
<1>5. Visible(o, idx, now, bar.mode) /\ ~Lapsed(o, now)
  BY <1>3 DEF Visible, Lapsed, OneShot
<1>6. ~OrphanedByParent(o, parents) /\ ~HeldByParent(o, parents)
  BY DEF OrphanedByParent, HeldByParent
<1>7. ~(o.kind = "Market" /\ o.parent = NoOrder)
  BY DEF PlainMarket, OneShot, AtPhase
<1> HIDE DEF parents, byKind
<1>8. Missed(o, byKind) <=> byKind = "none"
  BY <1>7 DEF Missed
<1>9. v = IF Missed(o, byKind) THEN "cancel" ELSE byKind
  BY <1>1, <1>5, <1>6 DEF Verdict, byKind
<1>10. v # "none"
  BY <1>8, <1>9
<1> HIDE DEF v
<1>11. v # "expire"
  BY <1>2 DEF OneShot
<1>12. v # "trigger"
  <2>1. ASSUME v = "trigger" PROVE FALSE
    <3>1. o.status = "Accepted" /\ orders'[i] = Move(o, "Triggered")
      BY <1>1, <1>2, <1>4, <2>1 DEF LimitLive, AfterVerdict
    <3>2. orders'[i].status = "Triggered"
      BY <1>1, <3>1 DEF Move, LegalMoves, Order
    <3>3. QED BY <3>2
  <2>2. QED BY <2>1
<1>13. ASSUME v \in {"cancel", "reject"} PROVE FALSE
  <2>1. \/ orders'[i] = Move(o, "Canceled")
        \/ orders'[i] = Move(o, "Rejected")
    BY <1>1, <1>13 DEF AfterVerdict
  <2>2. orders'[i].status \in {"Canceled", "Rejected"}
    BY <1>1, <1>4, <2>1 DEF Move, LegalMoves, Order
  <2>3. QED BY <2>2 DEF IsLive, Working
<1>14. v \in Verdicts
  BY <1>2 DEF v
<1>15. v = "fill"
  BY <1>10, <1>11, <1>12, <1>13, <1>14 DEF Verdicts
<1>16. QED BY <1>2, <1>15 DEF v

\* Its trigger is behind it: a triggered order ends with its next evaluation.
LEMMA TriggeredBefore ==
  ASSUME TypeInv, TurnInv, HeardInv, WholeInv, EvaluatedOnce, [Next]_vars, NEW i \in DOMAIN orders,
         ~PlainMarket(orders[i]), orders[i].parent = NoOrder, orders[i].status = "Triggered",
         IsLive(orders'[i])
  PROVE  orders'[i].status = "Triggered"
<1> DEFINE o == orders[i]
           q == orders'[i]
<1>1. o \in Order
  BY DEF TypeInv, TypeOK, BookOK
<1>2. CASE Still(i)
  BY <1>2 DEF Still
<1>3. CASE Canceling(i)
  BY <1>1, <1>3, CanceledEnds DEF Canceling, IsLive, Working, Terminal
<1>4. ~Acknowledge(i)
  BY DEF Acknowledge
<1>5. CASE AnnounceVerdict(i)
  <2>1. q = Note(o, Announced[verdicts[i]])
    BY <1>5 DEF AnnounceVerdict
  <2>2. QED BY <1>1, <2>1 DEF Note, Order
<1>6. ASSUME NEW reach, Match(reach) PROVE q.status = "Triggered"
  <2>1. verdicts'[i] \in Verdicts /\ q = AfterVerdict(o, verdicts'[i])
    BY <1>6, MatchReasons
  <2>2. QED
    BY <1>1, <2>1 DEF AfterVerdict, Verdicts, Move, LegalMoves, IsLive, Working, Order
<1>7. ASSUME NEW k \in DOMAIN orders, FillOrder(k) PROVE q.status = "Triggered"
  <2>1. k # i
    BY <1>7, OneFillEnds DEF EvaluatedOnce, PassedOver, Ordinary
  <2>2. Touched(o, q, k)
    BY <1>7, <2>1, FillTurns DEF Turned
  <2>3. QED BY <2>2 DEF Touched, IsLive, Working
<1>8. QED BY <1>2, <1>3, <1>4, <1>5, <1>6, <1>7, OneOrderMoves

LEMMA OneShotStays ==
  ASSUME TypeInv, TurnInv, HeardInv, WholeInv, OneShotInv, [Next]_vars
  PROVE  OneShotInv'
<1> SUFFICES ASSUME EvaluatedOnce, NEW i \in DOMAIN orders', Single(orders'[i]),
                    IsLive(orders'[i])
             PROVE  CASE phase' \in Early -> idx' <= orders'[i].submittedIdx + 1
                      [] phase' = "apply" -> \/ idx' <= orders'[i].submittedIdx
                                             \/ i \in DOMAIN verdicts' /\ verdicts'[i] = "fill"
                      [] OTHER            -> idx' <= orders'[i].submittedIdx
    BY ConfigIsFixed DEF OneShotInv
<1> DEFINE o == orders[i]
           q == orders'[i]
           s == orders[i].submittedIdx
<1>1. Modes = {"Bar"} /\ ~MayPassOver /\ WholeLots /\ idx \in Nat
  BY ConfigTypes DEF EvaluatedOnce, TypeInv, TypeOK, ClockOK
<1>2. CASE i \notin DOMAIN orders
  <2>1. phase' = "observe" /\ idx' = idx /\ idx <= q.submittedIdx + 1
    <3>1. q \in Order
      BY NextType DEF TypeInv, TypeOK, BookOK
    <3>2. QED BY <1>1, <1>2, <3>1, NewIsFresh DEF Fresh, Order
  <2>2. QED BY <2>1 DEF Early
<1>3. CASE i \in DOMAIN orders
  <2>1. /\ o \in Order /\ Traced(o, q) /\ IsLive(o) /\ s \in Nat /\ q.submittedIdx = s
        /\ o.tif \in OneShot /\ ~PlainMarket(o) /\ o.parent = NoOrder
    BY <1>3, StepTraces
    DEF TypeInv, TypeOK, BookOK, Traced, Single, PlainMarket, StaysEnded, IsLive, Order, Statuses,
        Working, Terminal
  <2>2. Single(o)
    BY <1>3, <2>1, TriggeredBefore DEF Single
  <2>3. /\ phase \in Early => idx <= s + 1
        /\ phase = "apply" => idx <= s \/ (i \in DOMAIN verdicts /\ verdicts[i] = "fill")
        /\ phase \in {"signal", "sweeping", "sweep"} => idx <= s
    BY <1>3, <2>1, <2>2 DEF OneShotInv, Early
  <2>4. phase \in Early \cup {"expiry", "apply", "signal", "sweeping", "sweep"}
    BY DEF TypeInv, TypeOK, StepOK, Phases, Early
  <2>5. ~StepQuote /\ ~SettleExpiry
    BY <1>1, <1>3, <2>1, CanceledEnds DEF StepQuote, SettleExpiry, IsLive, Working, Terminal
  <2>6. CASE phase' = phase /\ UNCHANGED <<idx, now, bar>>
    <3>1. CASE phase = "apply" /\ ~(idx <= s)
      <4>1. i \in DOMAIN verdicts /\ verdicts[i] = "fill"
        BY <2>3, <3>1
      <4>2. ~FillOrder(i)
        BY <1>1, <1>3, <2>1, OneFillEnds DEF PassedOver, Ordinary
      <4>3. i \in DOMAIN verdicts' /\ verdicts'[i] = "fill"
        BY <1>3, <2>6, <3>1, <4>1, <4>2, FillWaits
      <4>4. QED BY <2>6, <3>1, <4>3 DEF Early
    <3>2. CASE ~(phase = "apply" /\ ~(idx <= s))
      BY <2>1, <2>3, <2>4, <2>6, <3>2 DEF Early
    <3>3. QED BY <3>1, <3>2
  <2>7. CASE phase \in Early /\ phase' \in Early /\ UNCHANGED <<idx, now>>
    BY <2>1, <2>3, <2>7 DEF Early
  <2>8. ASSUME NEW reach, Match(reach)
        PROVE  /\ phase' = "apply" /\ idx' = idx
               /\ idx <= s \/ (i \in DOMAIN verdicts' /\ verdicts'[i] = "fill")
    <3>1. phase' = "apply" /\ idx' = idx /\ bar.mode = "Bar"
      BY <1>1, <2>8 DEF Match, clockVars, TurnInv
    <3>2. QED
      BY <1>1, <1>3, <2>1, <2>8, <3>1, MatchDecides DEF Single
  <2>9. CASE EndMatch
    <3>1. phase' = "signal" /\ idx' = idx /\ idx <= s
      BY <2>3, <2>9 DEF EndMatch, clockVars, Pending
    <3>2. QED BY <2>1, <3>1 DEF Early
  <2>10. CASE phase = "signal" /\ phase' = "sweeping" /\ UNCHANGED <<orders, idx, now, bar>>
    BY <2>1, <2>3, <2>10 DEF Early
  <2>11. CASE StartSweep
    <3>1. phase = "sweeping" /\ phase' = "sweep" /\ idx' = idx
      BY <2>11 DEF StartSweep, clockVars
    <3>2. QED BY <2>1, <2>3, <3>1 DEF Early
  <2>12. CASE BarredEntry \/ EndStep
    <3>1. phase \in {"signal", "sweep"} /\ phase' = "observe" /\ idx' = idx + 1
      BY <2>12 DEF BarredEntry, EndStep, FinishStep, Advance
    <3>2. QED BY <1>1, <2>1, <2>3, <3>1 DEF Early
  <2>13. (\E reach : Match(reach)) =>
           CASE phase' \in Early -> idx' <= q.submittedIdx + 1
             [] phase' = "apply" -> \/ idx' <= q.submittedIdx
                                    \/ i \in DOMAIN verdicts' /\ verdicts'[i] = "fill"
             [] OTHER            -> idx' <= q.submittedIdx
    BY <2>1, <2>8 DEF Early
  <2>14. QED
    BY <2>5, <2>6, <2>7, <2>9, <2>10, <2>11, <2>12, <2>13, PhaseMoves
<1>4. QED BY <1>2, <1>3

-----------------------------------------------------------------------------
(* Every order ends at its event: the four parts together.                 *)

\* What the four parts of the property rest on, kept along every step.
EndInv ==
  /\ EntryInv /\ WholeInv /\ MarketInv /\ OneShotInv
  /\ LapsedOrderIsDead /\ RoutedOrderWorks

\* The strengthening of the theorem that follows.
LEMMA EndsHold ==
  /\ Init => EndInv
  /\ TypeInv /\ TurnInv /\ LifeInv /\ EndInv /\ [Next]_vars => EndInv'
<1>1. Init => EndInv
  <2> SUFFICES ASSUME Init PROVE EndInv
      OBVIOUS
  <2>1. DOMAIN orders = {} /\ ~bar.entry /\ ~halted
    BY DEF Init, NoBar
  <2>2. QED
    BY <2>1 DEF EndInv, EntryInv, WholeInv, MarketInv, OneShotInv, LapsedOrderIsDead,
                RoutedOrderWorks
<1>2. TypeInv /\ TurnInv /\ LifeInv /\ EndInv /\ [Next]_vars => EndInv'
  BY EntryStays, WholeStays, MarketStays, OneShotStays, LapsedStayDead, RoutedStay
  DEF EndInv, LifeInv
<1>3. QED BY <1>1, <1>2

\* No order outlives the event that should have been its last: on bars a market order
\* for whole lots is settled by the end of its own bar's step, an IOC or FOK order of
\* the book by its evaluation bar's; a dated order announced to its strategy does not
\* work past its date; on prints the sweep takes up whatever has reached the venue.
THEOREM OrdersEnd == Spec => []OrdersEndInTime
<1>1. TypeInv /\ TurnInv /\ EndInv => OrdersEndInTime
  <2> SUFFICES ASSUME TypeInv, TurnInv, EndInv PROVE OrdersEndInTime
      OBVIOUS
  <2>1. \A i \in DOMAIN orders : orders[i].submittedIdx \in Nat /\ idx \in Nat
    BY ConfigTypes DEF TypeInv, TypeOK, ClockOK, BookOK, Order
  <2>2. MarketSettlesOnItsBar
    BY <2>1 DEF MarketSettlesOnItsBar, EndInv, MarketInv
  <2>3. OneShotLivesOneBar
    BY <2>1 DEF OneShotLivesOneBar, EndInv, OneShotInv, Single, Early
  <2>4. QED BY <2>2, <2>3 DEF OrdersEndInTime, EndInv
<1>2. QED BY <1>1, EndsHold, LivesAreOrdered, TurnsAreOrdered, PTL DEF Spec

-----------------------------------------------------------------------------
(* No order is filled for more than it asked                               *)

\* A slice is no more than what is wanted, and lots are no more than the slice.
LEMMA SliceWithin ==
  ASSUME TypeInv, NEW n \in Nat
  PROVE  Slice(n) <= n /\ Slice(n) \in Nat /\ Lots(n) <= n
<1>1. LotSize \in Nat \ {0} /\ bar.volume \in Nat
  BY ConfigTypes DEF TypeInv, TypeOK, StepOK
<1>2. \A m \in Nat \ {0} : (n \div m) * m <= n
  OBVIOUS
<1>3. QED BY <1>1, <1>2 DEF Slice, Lots

\* A slice of an order for units is within what it has left to fill.
LEMMA FillWithin ==
  ASSUME TypeInv, NEW i \in DOMAIN orders, AddFill(i) \/ OpenFill(i) \/ CloseFill(i),
         orders[i].qty = "Units"
  PROVE  /\ orders'[i].qty = "Units" /\ orders'[i].units = orders[i].units
         /\ orders'[i].filled <= orders'[i].units
<1> DEFINE o == Presented(i)
           w == Wanted(o)
<1>1. o \in Order /\ SameFills(orders[i], o)
  BY PresentedOrder DEF TypeInv, TypeOK
<1>2. o.qty = "Units" /\ o.units = orders[i].units /\ o.filled = orders[i].filled
      /\ o.units \in Nat /\ o.filled \in Nat
  BY <1>1 DEF SameFills, SameTerms, Order
<1>3. ASSUME Sized(o, i), Trades(o, i)
      PROVE  w \in Nat /\ w <= o.units - o.filled
  <2>1. Slice(w) \in Nat \ {0}
    BY <1>1, <1>3, SlicePositive
  <2>2. ASSUME ~Flat PROVE positions[FirstPosition].size \in Nat \ {0}
    BY <2>2, FirstIsOpen DEF TypeInv, TypeOK, Position
  <2>3. w \in Int /\ w <= o.units - o.filled
    BY <1>2, <1>3, <2>2 DEF Wanted, Sized, Adding, Opening, Closing
  <2>4. bar.volume \in Nat
    BY DEF TypeInv, TypeOK, StepOK
  <2>5. QED BY <2>1, <2>3, <2>4 DEF Slice
<1>4. ASSUME NEW size \in Nat, size <= o.units - o.filled, NEW requested,
             orders' = RecordFill(Book(i), i, size, requested, idx)
      PROVE  orders'[i].filled <= orders[i].units
  BY <1>2, <1>4, RecordedBook
<1>5. Booked(i)
  BY FillBooked DEF FillOrder
<1> HIDE DEF o, w
<1>6. orders'[i].filled <= orders[i].units
  <2>1. CASE AddFill(i)
    <3>1. /\ Adding(o, i) /\ Trades(o, i) /\ Lots(Slice(w)) > 0
          /\ orders' = RecordFill(Book(i), i, Lots(Slice(w)), o.units, idx)
      BY <2>1 DEF AddFill, o, w
    <3>2. w \in Nat /\ w <= o.units - o.filled
      BY <1>3, <3>1 DEF Sized
    <3>3. Slice(w) \in Nat /\ Slice(w) <= w
      BY <3>2, SliceWithin
    <3>4. Lots(Slice(w)) <= Slice(w) /\ Lots(Slice(w)) \in Int
      BY <3>3, SliceWithin, LotsInt
    <3>5. Lots(Slice(w)) \in Nat /\ Lots(Slice(w)) <= o.units - o.filled
      BY <1>2, <3>1, <3>2, <3>3, <3>4
    <3>6. QED BY <1>4, <3>1, <3>5
  <2>2. CASE OpenFill(i)
    <3>1. /\ Opening(o, i) /\ Trades(o, i)
          /\ Lots(Slice(w)) > 0
          /\ orders' = RecordFill(Book(i), i, Lots(Slice(w)), o.units, idx)
      BY <1>2, <2>2 DEF OpenFill, o, w
    <3>2. w \in Nat /\ w <= o.units - o.filled
      BY <1>2, <1>3, <3>1 DEF Sized
    <3>3. Slice(w) \in Nat /\ Slice(w) <= w
      BY <3>2, SliceWithin
    <3>4. Lots(Slice(w)) <= Slice(w) /\ Lots(Slice(w)) \in Int
      BY <3>3, SliceWithin, LotsInt
    <3>5. Lots(Slice(w)) \in Nat /\ Lots(Slice(w)) <= o.units - o.filled
      BY <1>2, <3>1, <3>2, <3>3, <3>4
    <3>6. QED BY <1>4, <3>1, <3>5
  <2>3. CASE CloseFill(i)
    <3>1. /\ Closing(o) /\ Trades(o, i)
          /\ \E requested : orders' = RecordFill(Book(i), i, Slice(w), requested, idx)
      BY <2>3 DEF CloseFill, o, w
    <3>2. w \in Nat /\ w <= o.units - o.filled
      BY <1>3, <3>1 DEF Sized
    <3>3. Slice(w) \in Nat /\ Slice(w) <= w
      BY <3>2, SliceWithin
    <3>4. Slice(w) <= o.units - o.filled
      BY <1>2, <3>2, <3>3
    <3>5. QED BY <1>4, <3>1, <3>3, <3>4
  <2>4. QED BY <2>1, <2>2, <2>3
<1>7. QED BY <1>5, <1>6 DEF Booked, SameTerms

LEMMA WithinStays ==
  ASSUME TypeInv, TurnInv, WholeInv, FilledWithinRequest, [Next]_vars
  PROVE  FilledWithinRequest'
<1>1. /\ NewUnits' = NewUnits
      /\ ResizedUntraded' <=> ResizedUntraded
  BY ConfigIsFixed, RunIsFixed, RunKeepsPremises DEF ResizedUntraded, NewUnits
<1> SUFFICES ASSUME ResizedUntraded, NEW i \in DOMAIN orders', orders'[i].qty = "Units"
             PROVE  orders'[i].filled <= orders'[i].units
  BY <1>1 DEF FilledWithinRequest
<1> DEFINE o == orders[i]
           q == orders'[i]
<1>2. CASE i \notin DOMAIN orders
  <2>1. Fresh(q)
    BY <1>2, NewIsFresh
  <2>2. \A t \in Templates : t.units \in Nat
    BY ConfigTypes DEF TypeInv, TypeOK, Template
  <2>3. QED BY <2>1, <2>2 DEF Fresh
<1>3. CASE i \in DOMAIN orders
  <2>1. o \in Order /\ Traced(o, q)
    BY <1>3, StepTraces DEF TypeInv, TypeOK, BookOK
  <2>2. ASSUME q.filled = o.filled PROVE q.filled <= q.units
    <3>1. CASE q.qty = o.qty /\ q.units = o.units
      BY <1>3, <2>2, <3>1 DEF FilledWithinRequest
    <3>2. CASE q.units \in NewUnits /\ IsLive(o)
      <4>1. o.filled = 0
        BY <1>3, <3>2 DEF ResizedUntraded, WholeInv, Untraded
      <4>2. q.units \in Nat
        BY <3>2, ConfigTypes DEF TypeInv, TypeOK
      <4>3. QED BY <2>2, <4>1, <4>2
    <3>3. QED BY <2>1, <3>1, <3>2 DEF Traced, SameRequest
  <2>3. CASE BookKept
    BY <1>3, <2>2, <2>3 DEF BookKept, Kept, SameTrade
  <2>4. ASSUME NEW k \in DOMAIN orders, FillOrder(k) PROVE q.filled <= q.units
    <3>1. Booked(k)
      BY <2>4, FillBooked
    <3>2. CASE k # i
      BY <1>3, <2>2, <3>1, <3>2 DEF Booked, SameFills
    <3>3. CASE k = i /\ (LeaveWorking(i) \/ RefuseFill(i) \/ KillFill(i))
      BY <1>3, <2>2, <3>3, UntradedBooked DEF SameFills
    <3>4. CASE k = i /\ (AddFill(i) \/ OpenFill(i) \/ CloseFill(i))
      <4>1. o.qty = "Units"
        BY <1>3, <3>1 DEF Booked, SameTerms
      <4>2. QED BY <1>3, <3>4, <4>1, FillWithin
    <3>5. QED BY <2>4, <3>2, <3>3, <3>4 DEF FillOrder
  <2>5. QED BY <2>3, <2>4, FillOrQuiet
<1>4. QED BY <1>2, <1>3

-----------------------------------------------------------------------------
(* The ledger is the net of the book: how the two totals move              *)

Held(ledger) ==
  [p \in DOMAIN ledger |-> Signed(ledger[p].direction = "Long", ledger[p].size)]
NetOf(os) == [i \in DOMAIN os |-> Signed(os[i].side = "Buy", os[i].filled)]

\* What n units bought or sold add to either.
Amount(side, n) == IF side = "Buy" THEN n ELSE -n

Sides == {"Buy", "Sell"}

LEMMA HeldTypes ==
  ASSUME NEW D, NEW ledger, DOMAIN ledger = D, \A p \in D : ledger[p] \in Position
  PROVE  Held(ledger) \in [D -> Int]
<1>1. \A p \in D : Signed(ledger[p].direction = "Long", ledger[p].size) \in Int
  BY DEF Signed, Position
<1>2. QED BY <1>1 DEF Held

LEMMA NetTypes ==
  ASSUME NEW D, NEW os \in [D -> Order]
  PROVE  NetOf(os) \in [D -> Int]
<1>1. \A i \in D : Signed(os[i].side = "Buy", os[i].filled) \in Int
  BY DEF Signed, Order
<1>2. QED BY <1>1 DEF NetOf

\* A slice booked on one order moves the book's total by as much.
LEMMA NetMoves ==
  ASSUME NEW D, IsFiniteSet(D), NEW os \in [D -> Order], NEW rs \in [D -> Order],
         NEW k \in D, NEW size \in Nat,
         \A j \in D : rs[j].side = os[j].side,
         \A j \in D \ {k} : rs[j].filled = os[j].filled,
         rs[k].filled = os[k].filled + size
  PROVE  SumFunction(NetOf(rs)) = SumFunction(NetOf(os)) + Amount(os[k].side, size)
<1>1. NetOf(os) \in [D -> Int] /\ NetOf(rs) \in [D -> Int]
  BY NetTypes
<1>2. \A j \in D \ {k} : NetOf(rs)[j] = NetOf(os)[j]
  BY DEF NetOf
<1>3. NetOf(rs)[k] - NetOf(os)[k] = Amount(os[k].side, size)
  BY DEF NetOf, Signed, Order, Amount
<1>4. SumFunction(NetOf(rs)) = SumFunction(NetOf(os)) + (NetOf(rs)[k] - NetOf(os)[k])
  BY <1>1, <1>2, SumChanges
<1>5. QED BY <1>3, <1>4

\* An order that has traded nothing leaves it alone.
LEMMA NetGrows ==
  ASSUME NEW D, IsFiniteSet(D), NEW os, os \in [D -> Order], NEW x, x \notin D,
         NEW E, E = D \cup {x}, NEW rs, rs \in [E -> Order], \A j \in D : rs[j] = os[j],
         rs[x].filled = 0
  PROVE  SumFunction(NetOf(rs)) = SumFunction(NetOf(os))
<1>1. NetOf(os) \in [D -> Int] /\ NetOf(rs) \in [E -> Int]
  BY NetTypes
<1>2. \A j \in D : NetOf(rs)[j] = NetOf(os)[j]
  BY DEF NetOf
<1>3. NetOf(rs)[x] = 0
  BY DEF NetOf, Signed
<1>4. SumFunction(NetOf(rs)) = SumFunction(NetOf(os)) + NetOf(rs)[x]
  <2> DEFINE f == NetOf(os)
             h == NetOf(rs)
  <2>1. f \in [D -> Int] /\ h \in [E -> Int] /\ \A j \in D : h[j] = f[j]
    BY <1>1, <1>2
  <2>2. IsFiniteSet(D) /\ x \notin D /\ E = D \cup {x}
    OBVIOUS
  <2> HIDE DEF f, h
  <2>3. SumFunction(h) = SumFunction(f) + h[x]
    BY ONLY <2>1, <2>2, SumExtends
  <2>4. QED BY <2>3 DEF f, h
<1>5. SumFunction(NetOf(os)) \in Int
  BY <1>1, SumIsInt
<1>6. QED BY <1>3, <1>4, <1>5

\* A slice added to a position of its own side, or taken from one of the other.
LEMMA HeldMoves ==
  ASSUME NEW D, IsFiniteSet(D), NEW l, NEW m, DOMAIN l = D, DOMAIN m = D,
         \A p \in D : l[p] \in Position /\ m[p] \in Position,
         NEW k \in D, NEW size \in Nat, NEW side \in Sides,
         \A p \in D \ {k} : m[p] = l[p],
         m[k].direction = l[k].direction,
         m[k].size = l[k].size + (IF (side = "Buy") <=> (l[k].direction = "Long") THEN size ELSE -size)
  PROVE  SumFunction(Held(m)) = SumFunction(Held(l)) + Amount(side, size)
<1>1. Held(l) \in [D -> Int] /\ Held(m) \in [D -> Int]
  BY HeldTypes
<1>2. \A p \in D \ {k} : Held(m)[p] = Held(l)[p]
  BY DEF Held
<1>3. Held(m)[k] - Held(l)[k] = Amount(side, size)
  BY DEF Held, Signed, Position, Amount, Sides
<1>4. SumFunction(Held(m)) = SumFunction(Held(l)) + (Held(m)[k] - Held(l)[k])
  BY <1>1, <1>2, SumChanges
<1>5. QED BY <1>3, <1>4

\* A slice that opens a position.
LEMMA HeldGrows ==
  ASSUME NEW D, IsFiniteSet(D), NEW l, NEW x, x \notin D, NEW m, NEW E, E = D \cup {x},
         DOMAIN l = D, DOMAIN m = E,
         \A p \in D : l[p] \in Position, \A p \in E : m[p] \in Position,
         NEW size \in Nat, NEW side \in Sides,
         \A p \in D : m[p].direction = l[p].direction /\ m[p].size = l[p].size,
         (m[x].direction = "Long") <=> (side = "Buy"), m[x].size = size
  PROVE  SumFunction(Held(m)) = SumFunction(Held(l)) + Amount(side, size)
<1>1. Held(l) \in [D -> Int] /\ Held(m) \in [D \cup {x} -> Int]
  BY HeldTypes
<1>2. \A p \in D : Held(m)[p] = Held(l)[p]
  BY DEF Held
<1>3. Held(m)[x] = Amount(side, size)
  BY DEF Held, Signed, Amount, Sides
<1>4. SumFunction(Held(m)) = SumFunction(Held(l)) + Held(m)[x]
  <2> HIDE DEF Held
  <2> DEFINE f == Held(l)
             h == Held(m)
  <2>1. f \in [D -> Int] /\ h \in [E -> Int] /\ \A p \in D : h[p] = f[p]
    BY <1>1, <1>2
  <2>2. IsFiniteSet(D) /\ x \notin D /\ E = D \cup {x}
    OBVIOUS
  <2> HIDE DEF f, h
  <2>3. SumFunction(h) = SumFunction(f) + h[x]
    BY ONLY <2>1, <2>2, SumExtends
  <2>4. QED BY <2>3 DEF f, h
<1>5. QED BY <1>3, <1>4

\* A slice that takes the whole of a position of the other side.
LEMMA HeldShrinks ==
  ASSUME NEW D, IsFiniteSet(D), NEW l, DOMAIN l = D, \A p \in D : l[p] \in Position,
         NEW k \in D, NEW side \in Sides, (side = "Buy") <=> (l[k].direction # "Long")
  PROVE  SumFunction(Held([p \in D \ {k} |-> l[p]]))
           = SumFunction(Held(l)) + Amount(side, l[k].size)
<1> DEFINE m == [p \in D \ {k} |-> l[p]]
<1>1. Held(l) \in [D -> Int]
  BY HeldTypes
<1>2. Held(m) = [p \in D \ {k} |-> Held(l)[p]]
  BY DEF Held
<1>3. IsFiniteSet(D \ {k}) /\ Held(m) \in [D \ {k} -> Int]
  BY <1>1, <1>2, FS_RemoveElement
<1>4. Held(l)[k] = -Amount(side, l[k].size) /\ Amount(side, l[k].size) \in Int
  BY DEF Held, Signed, Position, Amount, Sides
<1> HIDE DEF m
<1>5. SumFunction(Held(l)) = Held(l)[k] + SumFunction(Held(m))
  <2>1. PICK f : f = Held(l)
    OBVIOUS
  <2>2. IsFiniteSet(D) /\ f \in [D -> Int] /\ k \in D
    BY <1>1, <2>1
  <2>3. SumFunction(f) = f[k] + SumFunction([p \in D \ {k} |-> f[p]])
    BY ONLY <2>2, SumSplits
  <2>4. Held(m) = [p \in D \ {k} |-> f[p]]
    BY <1>2, <2>1
  <2>5. QED BY <2>1, <2>3, <2>4
<1>6. SumFunction(Held(m)) \in Int
  BY <1>3, SumIsInt
<1>7. QED BY <1>4, <1>5, <1>6 DEF m

-----------------------------------------------------------------------------
(* Where only orders trade                                                 *)

\* Nothing but orders is ever asked for, and the data ends before the contract.
QuietInv ==
  OnlyOrdersTrade =>
    /\ now < ExpiryTs /\ closes = {}
    /\ ~bar.entry /\ ~bar.exit /\ ~deferred.entry /\ ~deferred.exit

LEMMA SettingsAreFixed ==
  ASSUME [Next]_vars
  PROVE  /\ OnlyOrdersTrade' <=> OnlyOrdersTrade
         /\ SidesAgree' <=> SidesAgree
         /\ ExpiryTs' = ExpiryTs /\ MaxNow' = MaxNow /\ Templates' = Templates
         /\ Hedging' = Hedging
BY RunIsFixed DEF OnlyOrdersTrade, SidesAgree, ExpiryTs, MaxNow, Templates, Hedging, Stops, Closes,
   Signals, Liquidates

\* A step keeps it, and moves the ledger by no more than a fill.
LEMMA QuietStays ==
  ASSUME TypeInv, TypeInv', QuietInv, OnlyOrdersTrade, [Next]_vars
  PROVE  /\ QuietInv'
         /\ \/ /\ DOMAIN positions' = DOMAIN positions
               /\ \A p \in DOMAIN positions : positions'[p] = positions[p]
            \/ \E i \in DOMAIN orders : AddFill(i) \/ OpenFill(i) \/ CloseFill(i)
<1> DEFINE Same == /\ DOMAIN positions' = DOMAIN positions
                   /\ \A p \in DOMAIN positions : positions'[p] = positions[p]
           Calm == /\ closes' = {} /\ ~bar'.entry /\ ~bar'.exit
                   /\ ~deferred'.entry /\ ~deferred'.exit
<1>1. /\ now < ExpiryTs /\ closes = {}
      /\ ~bar.entry /\ ~bar.exit /\ ~deferred.entry /\ ~deferred.exit
      /\ ~Stops /\ ~Closes /\ ~Signals /\ ~Liquidates
  BY DEF QuietInv, OnlyOrdersTrade
<1>2. now' < ExpiryTs
  <2>1. now' \in 0..MaxNow' /\ ExpiryTs \in Nat /\ MaxNow \in Nat /\ ExpiryTs > MaxNow
    BY ConfigTypes DEF TypeInv, TypeOK, ClockOK, OnlyOrdersTrade
  <2>2. QED BY <2>1, SettingsAreFixed
<1>3. ASSUME UNCHANGED <<closes, bar, deferred>> PROVE Calm
  BY <1>1, <1>3
<1>4. ~NoBar.entry /\ ~NoBar.exit /\ ~NoIntent.entry /\ ~NoIntent.exit
  BY DEF NoBar, NoIntent
<1>5. ASSUME UNCHANGED vars PROVE Same /\ Calm
  BY <1>1, <1>5 DEF vars, ledgerVars, stepVars
<1>6. ASSUME Strategy PROVE Same /\ Calm
  BY <1>1, <1>6 DEF Strategy, Submit, LinkOco, Cancel, Modify, RequestClose, ObserveEquity,
     HaltMargin, ledgerVars, stepVars
<1>7. ASSUME StartEvent PROVE Same /\ Calm
  <2>1. CASE StepQuote
    BY <1>1, <2>1 DEF StepQuote, ledgerVars, stepVars
  <2>2. ASSUME NEW mode, NEW volume, NEW entry \in BOOLEAN, NEW exit \in BOOLEAN,
               BeginStep(mode, volume, entry, exit)
        PROVE  Same /\ Calm
    BY <1>1, <2>2 DEF BeginStep, ledgerVars
  <2>3. QED BY <1>7, <2>1, <2>2 DEF StartEvent
<1>8. ASSUME SettleExpiry PROVE FALSE
  <2>1. now >= ExpiryTs /\ now \in Nat /\ ExpiryTs \in Nat
    BY <1>8, ConfigTypes DEF SettleExpiry, TypeInv, TypeOK, ClockOK
  <2>2. QED BY <1>1, <2>1
<1>9. ASSUME FillIntents PROVE Same /\ Calm
  BY <1>1, <1>4, <1>9 DEF FillIntents, stepVars
<1>10. ASSUME NEW hit \in SUBSET DOMAIN positions, Exits(hit) PROVE Same /\ Calm
  <2>1. hit = {}
    BY <1>1, <1>10 DEF Exits, MayHit
  <2>2. positions' = Closed({})
    BY <1>1, <1>10, <2>1 DEF Exits
  <2>3. Same
    BY <2>2 DEF Closed, Without
  <2>4. Calm
    BY <1>1, <1>10 DEF Exits, stepVars
  <2>5. QED BY <2>3, <2>4
<1>11. ASSUME NEW breach, MarginCheck(breach) PROVE Same /\ Calm
  BY <1>1, <1>11 DEF MarginCheck, stepVars
<1>12. ASSUME NEW reach, Match(reach) PROVE Same /\ Calm
  BY <1>1, <1>12 DEF Match, ledgerVars
<1>13. ASSUME NEW i \in DOMAIN orders, AnnounceVerdict(i) PROVE Same /\ Calm
  BY <1>1, <1>13 DEF AnnounceVerdict, ledgerVars
<1>14. ASSUME NEW i \in DOMAIN orders, FillOrder(i)
       PROVE  Calm /\ (Same \/ AddFill(i) \/ OpenFill(i) \/ CloseFill(i))
  <2>1. Calm
    BY <1>1, <1>14 DEF FillOrder, LeaveWorking, RefuseFill, KillFill, AddFill, OpenFill,
       CloseFill, FillFrame
  <2>2. LeaveWorking(i) \/ RefuseFill(i) \/ KillFill(i) => Same
    BY DEF LeaveWorking, RefuseFill, KillFill, ledgerVars
  <2>3. QED BY <1>14, <2>1, <2>2 DEF FillOrder
<1>15. ASSUME EndMatch \/ StashEntry \/ NoEntry \/ StartSweep PROVE Same /\ Calm
  BY <1>1, <1>15 DEF EndMatch, StashEntry, NoEntry, StartSweep, ledgerVars, stepVars
<1>16. ASSUME BarredEntry \/ EndStep PROVE Same /\ Calm
  BY <1>1, <1>4, <1>16 DEF BarredEntry, EndStep, FinishStep, ledgerVars
<1>17. ASSUME NEW size, EnterOnSignal(size) PROVE FALSE
  BY <1>1, <1>17 DEF EnterOnSignal, TriesEntry
<1>18. Calm /\ (Same \/ \E i \in DOMAIN orders : AddFill(i) \/ OpenFill(i) \/ CloseFill(i))
  <2> HIDE DEF Same, Calm
  <2>1. (Same /\ Calm) \/ \E i \in DOMAIN orders : FillOrder(i)
    <3>1. ASSUME Step PROVE (Same /\ Calm) \/ \E i \in DOMAIN orders : FillOrder(i)
      BY <1>8, <1>9, <1>10, <1>11, <1>12, <1>13, <1>15, <1>16, <1>17, <3>1 DEF Step, Same, Calm
    <3>2. QED BY <1>5, <1>6, <1>7, <3>1 DEF Next, Market, Same, Calm
  <2>2. QED BY <1>14, <2>1
<1>19. QED BY <1>2, <1>18, SettingsAreFixed DEF QuietInv

\* Every order has the side and the flag of a template, and every position the side
\* of an order that may open one.
SidesInv ==
  \A i \in DOMAIN orders :
    \E t \in Templates : t.side = orders[i].side /\ t.reduceOnly = orders[i].reduceOnly
HeldInv ==
  \A p \in DOMAIN positions :
    \E i \in DOMAIN orders :
      ~orders[i].reduceOnly /\ DirectionOf(orders[i]) = positions[p].direction

LEMMA OrdersKeepSides ==
  ASSUME TypeInv, [Next]_vars, NEW i \in DOMAIN orders
  PROVE  /\ i \in DOMAIN orders'
         /\ orders'[i].side = orders[i].side /\ orders'[i].reduceOnly = orders[i].reduceOnly
BY FillOrQuiet, FillBooked DEF BookKept, Kept, SameTrade, Booked, SameTerms

LEMMA SidesStay ==
  ASSUME TypeInv, SidesInv, [Next]_vars
  PROVE  SidesInv'
BY SettingsAreFixed, OrdersKeepSides, NewIsFresh DEF SidesInv, Fresh

\* Where only orders trade, what a fill that adds or closes meets: a position of
\* the order's own side, or of the other.
LEMMA FillMeets ==
  ASSUME TypeInv, SidesInv, HeldInv, SidesAgree, NEW i \in DOMAIN orders,
         AddFill(i) \/ CloseFill(i)
  PROVE  /\ ~Flat
         /\ IF AddFill(i) THEN positions[FirstPosition].direction = DirectionOf(orders[i])
            ELSE positions[FirstPosition].direction # DirectionOf(orders[i])
<1> DEFINE o == Presented(i)
           p == FirstPosition
<1>1. o \in Order /\ o.side = orders[i].side /\ o.reduceOnly = orders[i].reduceOnly
  BY PresentedOrder DEF TypeInv, TypeOK, SameFills, SameTerms
<1>2. DirectionOf(o) = DirectionOf(orders[i])
  BY <1>1 DEF DirectionOf
<1> HIDE DEF o
<1>3. ~Flat
  BY DEF AddFill, CloseFill, Adding, AddsTo, Closing
<1>4. p \in DOMAIN positions
  BY <1>3, FirstIsOpen DEF TypeInv, TypeOK
<1>5. PICK j \in DOMAIN orders :
        ~orders[j].reduceOnly /\ DirectionOf(orders[j]) = positions[p].direction
  BY <1>4 DEF HeldInv
<1>6. /\ orders[i].side \in Sides /\ orders[j].side \in Sides
      /\ orders[i].reduceOnly \in BOOLEAN
  BY DEF TypeInv, TypeOK, BookOK, Order, Sides
<1>7. \A k \in DOMAIN orders :
        IF Hedging THEN orders[i].side = orders[k].side
        ELSE orders[i].reduceOnly /\ ~orders[k].reduceOnly => orders[i].side # orders[k].side
  BY DEF SidesInv, SidesAgree
<1>8. CASE AddFill(i)
  <2>1. Opens(o) /\ ~o.reduceOnly
    BY <1>8 DEF AddFill, Adding, NoRoom, o
  <2>2. CASE Hedging
    BY <1>3, <1>5, <1>7, <1>8, <2>2 DEF DirectionOf
  <2>3. CASE ~Hedging
    BY <1>2, <1>3, <1>8, <2>1, <2>3 DEF Opens, Opposed
  <2>4. QED BY <2>2, <2>3
<1>9. CASE ~AddFill(i)
  <2>1. ~Opens(o)
    BY <1>9 DEF CloseFill, Closing, o
  <2>2. ~Hedging /\ (o.reduceOnly \/ Opposed(o))
    BY <2>1 DEF Opens
  <2>3. CASE Opposed(o)
    BY <1>2, <1>3, <1>9, <2>3 DEF Opposed
  <2>4. CASE o.reduceOnly
    <3>1. orders[i].side # orders[j].side
      BY <1>1, <1>5, <1>7, <2>2, <2>4
    <3>2. DirectionOf(orders[i]) # DirectionOf(orders[j])
      BY <1>6, <3>1 DEF DirectionOf, Sides
    <3>3. QED BY <1>3, <1>5, <1>9, <3>2
  <2>5. QED BY <2>2, <2>3, <2>4
<1>10. QED BY <1>8, <1>9

\* What a fill does to the ledger, as the order's side and the size of its slice.
LEMMA FillMovesLedger ==
  ASSUME TypeInv, TypeInv', SidesInv, HeldInv, SidesAgree, NEW i \in DOMAIN orders,
         AddFill(i) \/ OpenFill(i) \/ CloseFill(i)
  PROVE  \E size \in Nat :
           /\ \E requested : orders' = RecordFill(Book(i), i, size, requested, idx)
           /\ SumFunction(Held(positions'))
                = SumFunction(Held(positions)) + Amount(orders[i].side, size)
<1> DEFINE o == Presented(i)
           p == FirstPosition
           D == DOMAIN positions
           slice == Slice(Wanted(o))
<1>1. o \in Order /\ o.side = orders[i].side /\ o.side \in Sides
  BY PresentedOrder DEF TypeInv, TypeOK, SameFills, SameTerms, Order, Sides
<1>2. DirectionOf(o) = DirectionOf(orders[i])
  BY <1>1 DEF DirectionOf
<1>3. /\ IsFiniteSet(D) /\ nextPos \notin D
      /\ \A q \in D : positions[q] \in Position
      /\ \A q \in DOMAIN positions' : positions'[q] \in Position
  BY LedgerIsFinite DEF TypeInv, TypeOK, LedgerOK
<1>4. ASSUME Trades(o, i), Sized(o, i) PROVE slice \in Nat \ {0}
  BY <1>1, <1>4, SlicePositive
<1> HIDE DEF o, slice
<1>5. CASE AddFill(i)
  <2> DEFINE size == Lots(slice)
  <2>1. /\ Adding(o, i) /\ Trades(o, i) /\ size > 0
        /\ positions' = [positions EXCEPT ![p].size = @ + size]
        /\ orders' = RecordFill(Book(i), i, size, o.units, idx)
    BY <1>5 DEF AddFill, Added, o, slice
  <2>2. size \in Nat
    BY <1>4, <2>1, LotsInt DEF Sized
  <2>3. p \in D /\ positions[p].direction = DirectionOf(orders[i])
    BY <1>5, FillMeets, FirstIsOpen DEF TypeInv, TypeOK
  <2> HIDE DEF size
  <2>4. /\ DOMAIN positions' = D
        /\ \A q \in D \ {p} : positions'[q] = positions[q]
        /\ positions'[p].direction = positions[p].direction
        /\ positions'[p].size = positions[p].size + size
    BY <1>3, <2>1, <2>3 DEF Position
  <2>5. (o.side = "Buy") <=> (positions[p].direction = "Long")
    BY <1>1, <2>3 DEF DirectionOf, Sides
  <2> HIDE DEF D, p
  <2>6. SumFunction(Held(positions')) = SumFunction(Held(positions)) + Amount(o.side, size)
    <3>1. positions'[p].size = positions[p].size +
            (IF (o.side = "Buy") <=> (positions[p].direction = "Long") THEN size ELSE -size)
      BY <2>4, <2>5
    <3>2. \A q \in D : positions[q] \in Position /\ positions'[q] \in Position
      BY <1>3, <2>4
    <3>3. DOMAIN positions = D
      BY DEF D
    <3>4. QED BY <1>1, <1>3, <2>2, <2>3, <2>4, <3>1, <3>2, <3>3, HeldMoves
  <2>7. QED BY <1>1, <2>1, <2>2, <2>6
<1>6. CASE OpenFill(i)
  <2>1. PICK size \in (IF o.qty = "Units" THEN {Lots(slice)} ELSE Affordable) :
          /\ size > 0
          /\ positions' = OpenedBy(i, DirectionOf(o), size)
          /\ orders' = RecordFill(Book(i), i, size,
                                  IF o.qty = "Units" THEN o.units ELSE size, idx)
    BY <1>6 DEF OpenFill, o, slice
  <2>2. Opening(o, i) /\ Trades(o, i)
    BY <1>6 DEF OpenFill, o
  <2>3. size \in Nat
    <3>1. CASE o.qty = "Units"
      BY <1>4, <2>1, <2>2, <3>1, LotsInt DEF Sized
    <3>2. CASE o.qty # "Units"
      BY <2>1, <3>2, ConfigTypes DEF Affordable, TypeInv, TypeOK
    <3>3. QED BY <3>1, <3>2
  <2> DEFINE ledger == Opened(positions, DirectionOf(o), size)
  <2>4. /\ DOMAIN ledger = D \cup {nextPos}
        /\ \A q \in D : ledger[q] = positions[q]
        /\ ledger[nextPos] = [direction |-> DirectionOf(o), size |-> size, entryOrder |-> NoOrder]
    BY <1>3 DEF Opened
  <2>5. positions' = [ledger EXCEPT ![Earliest(DOMAIN ledger)].entryOrder = i]
    BY <2>1 DEF OpenedBy
  <2> HIDE DEF ledger
  <2>6. /\ DOMAIN positions' = D \cup {nextPos}
        /\ \A q \in D \cup {nextPos} : /\ positions'[q].direction = ledger[q].direction
                                       /\ positions'[q].size = ledger[q].size
    <3>1. \A q \in D \cup {nextPos} :
            positions'[q] = ledger[q] \/ positions'[q] = [ledger[q] EXCEPT !.entryOrder = i]
      BY <2>4, <2>5
    <3>2. \A q \in D \cup {nextPos} :
            [ledger[q] EXCEPT !.entryOrder = i].direction = ledger[q].direction
            /\ [ledger[q] EXCEPT !.entryOrder = i].size = ledger[q].size
      BY <1>3, <2>4 DEF Position
    <3>3. QED BY <2>4, <2>5, <3>1, <3>2
  <2>7. /\ \A q \in D : /\ positions'[q].direction = positions[q].direction
                        /\ positions'[q].size = positions[q].size
        /\ positions'[nextPos].direction = (IF o.side = "Buy" THEN "Long" ELSE "Short")
        /\ positions'[nextPos].size = size
    BY <2>4, <2>6 DEF DirectionOf
  <2> HIDE DEF D
  <2>8. SumFunction(Held(positions')) = SumFunction(Held(positions)) + Amount(o.side, size)
    <3>1. DOMAIN positions = D /\ \A q \in D \cup {nextPos} : positions'[q] \in Position
      BY <1>3, <2>6 DEF D
    <3> DEFINE l == positions
               m == positions'
               x == nextPos
               side == o.side
               E == D \cup {x}
    <3>2. /\ IsFiniteSet(D) /\ x \notin D /\ E = D \cup {x}
          /\ DOMAIN l = D /\ DOMAIN m = E
          /\ \A q \in D : l[q] \in Position
          /\ \A q \in E : m[q] \in Position
          /\ size \in Nat /\ side \in Sides
          /\ \A q \in D : m[q].direction = l[q].direction /\ m[q].size = l[q].size
          /\ (m[x].direction = "Long") <=> (side = "Buy")
          /\ m[x].size = size
      BY <1>1, <1>3, <2>3, <2>6, <2>7, <3>1
    <3> HIDE DEF l, m, x, side, E
    <3>3. SumFunction(Held(m)) = SumFunction(Held(l)) + Amount(side, size)
      BY ONLY <3>2, HeldGrows
    <3>4. QED BY <3>3 DEF l, m, side
  <2>9. QED BY <1>1, <2>1, <2>3, <2>8
<1>7. CASE CloseFill(i)
  <2>1. /\ Closing(o) /\ Trades(o, i)
        /\ positions' = Reduced(p, slice)
        /\ \E requested : orders' = RecordFill(Book(i), i, slice, requested, idx)
    BY <1>7 DEF CloseFill, o, slice
  <2>2. slice \in Nat
    BY <1>4, <2>1 DEF Sized
  <2>3. ~AddFill(i)
    BY <2>1 DEF AddFill, Adding, Closing, o
  <2>4. p \in D /\ positions[p].direction # DirectionOf(orders[i])
    BY <1>7, <2>3, FillMeets, FirstIsOpen DEF TypeInv, TypeOK
  <2>5. positions[p] \in Position /\ positions[p].size \in Nat
    BY <1>3, <2>4 DEF Position
  <2>6. slice <= positions[p].size
    <3>1. ~Opens(o)
      BY <2>1 DEF Closing
    <3>2. Wanted(o) \in Int /\ Wanted(o) <= positions[p].size
      BY <1>1, <2>5, <3>1 DEF Wanted, Order
    <3>3. slice <= Wanted(o)
      BY <3>2 DEF slice, Slice, TypeInv, TypeOK, StepOK
    <3>4. QED BY <2>2, <2>5, <3>2, <3>3
  <2>7. (o.side = "Buy") <=> (positions[p].direction # "Long")
    BY <1>1, <2>4, <2>5 DEF DirectionOf, Sides, Position
  <2>8. SumFunction(Held(positions')) = SumFunction(Held(positions)) + Amount(o.side, slice)
    <3>1. CASE slice >= positions[p].size
      <4>1. slice = positions[p].size
        BY <2>2, <2>5, <2>6, <3>1
      <4>2. positions' = [q \in D \ {p} |-> positions[q]]
        BY <2>1, <3>1 DEF Reduced, Closed, Without
      <4>3. DOMAIN positions = D
        OBVIOUS
      <4> HIDE DEF D, p
      <4>4. SumFunction(Held([q \in D \ {p} |-> positions[q]]))
              = SumFunction(Held(positions)) + Amount(o.side, positions[p].size)
        BY <1>1, <1>3, <2>4, <2>7, <4>3, HeldShrinks
      <4>5. QED BY <4>1, <4>2, <4>4
    <3>2. CASE ~(slice >= positions[p].size)
      <4>1. positions' = [positions EXCEPT ![p].size = @ - slice]
        BY <2>1, <3>2 DEF Reduced
      <4>2. /\ DOMAIN positions' = D
            /\ \A q \in D \ {p} : positions'[q] = positions[q]
            /\ positions'[p].direction = positions[p].direction
            /\ positions'[p].size = positions[p].size - slice
        BY <1>3, <2>4, <4>1 DEF Position
      <4>3. positions'[p].size = positions[p].size +
              (IF (o.side = "Buy") <=> (positions[p].direction = "Long") THEN slice ELSE -slice)
        BY <2>2, <2>5, <2>7, <4>2
      <4>4. \A q \in D : positions[q] \in Position /\ positions'[q] \in Position
        BY <1>3, <4>2
      <4>5. DOMAIN positions = D
        OBVIOUS
      <4> HIDE DEF D, p
      <4>6. QED BY <1>1, <1>3, <2>2, <2>4, <4>2, <4>3, <4>4, <4>5, HeldMoves
    <3>3. QED BY <3>1, <3>2
  <2>9. QED BY <1>1, <2>1, <2>2, <2>8
<1>8. QED BY <1>5, <1>6, <1>7

LEMMA HeldStays ==
  ASSUME TypeInv, TypeInv', QuietInv, OnlyOrdersTrade, HeldInv, SidesInv, SidesAgree,
         [Next]_vars
  PROVE  HeldInv'
<1> SUFFICES ASSUME NEW p \in DOMAIN positions'
             PROVE  \E i \in DOMAIN orders' :
                      ~orders'[i].reduceOnly
                      /\ DirectionOf(orders'[i]) = positions'[p].direction
  BY DEF HeldInv, DirectionOf
<1>1. ASSUME p \in DOMAIN positions, positions'[p].direction = positions[p].direction
      PROVE  \E i \in DOMAIN orders' :
               ~orders'[i].reduceOnly /\ DirectionOf(orders'[i]) = positions'[p].direction
  BY <1>1, OrdersKeepSides DEF HeldInv, DirectionOf
<1>2. ASSUME NEW i \in DOMAIN orders, AddFill(i) \/ CloseFill(i)
      PROVE  p \in DOMAIN positions /\ positions'[p].direction = positions[p].direction
  <2>1. /\ FirstPosition \in DOMAIN positions
        /\ \A q \in DOMAIN positions : positions[q] \in Position
    BY <1>2, FillMeets, FirstIsOpen DEF TypeInv, TypeOK, LedgerOK
  <2>2. \/ positions' = [q \in DOMAIN positions \ {FirstPosition} |-> positions[q]]
        \/ \E size : positions' = [positions EXCEPT ![FirstPosition].size = size]
    BY <1>2 DEF AddFill, CloseFill, Added, Reduced, Closed, Without
  <2>3. QED BY <2>1, <2>2 DEF Position
<1>3. ASSUME NEW i \in DOMAIN orders, OpenFill(i)
      PROVE  \/ p \in DOMAIN positions /\ positions'[p].direction = positions[p].direction
             \/ ~orders[i].reduceOnly /\ positions'[p].direction = DirectionOf(orders[i])
  <2> DEFINE o == Presented(i)
  <2>1. o.side = orders[i].side /\ o.reduceOnly = orders[i].reduceOnly
    BY PresentedOrder DEF TypeInv, TypeOK, SameFills, SameTerms
  <2>2. ~o.reduceOnly /\ \E size : positions' = OpenedBy(i, DirectionOf(o), size)
    BY <1>3 DEF OpenFill, Opening, NoRoom, o
  <2> HIDE DEF o
  <2>3. PICK size : positions' = OpenedBy(i, DirectionOf(o), size)
    BY <2>2
  <2> DEFINE ledger == Opened(positions, DirectionOf(o), size)
  <2>4. \A q \in DOMAIN ledger :
          IF q = nextPos
          THEN ledger[q] = [direction |-> DirectionOf(o), size |-> size, entryOrder |-> NoOrder]
          ELSE q \in DOMAIN positions /\ ledger[q] = positions[q] /\ ledger[q] \in Position
    BY DEF Opened, TypeInv, TypeOK, LedgerOK
  <2>5. positions' = [ledger EXCEPT ![Earliest(DOMAIN ledger)].entryOrder = i]
    BY <2>3 DEF OpenedBy
  <2> HIDE DEF ledger
  <2>6. p \in DOMAIN ledger
    BY <2>5
  <2>7. \/ positions'[p] = ledger[p]
        \/ positions'[p] = [ledger[p] EXCEPT !.entryOrder = i]
    BY <2>5, <2>6
  <2>8. positions'[p].direction = ledger[p].direction
    BY <2>4, <2>6, <2>7 DEF Position
  <2>9. DirectionOf(o) = DirectionOf(orders[i])
    BY <2>1 DEF DirectionOf
  <2>10. QED BY <2>1, <2>2, <2>4, <2>6, <2>8, <2>9
<1>4. CASE /\ DOMAIN positions' = DOMAIN positions
           /\ \A q \in DOMAIN positions : positions'[q] = positions[q]
  BY <1>1, <1>4
<1>5. ASSUME NEW i \in DOMAIN orders, OpenFill(i),
             ~orders[i].reduceOnly, positions'[p].direction = DirectionOf(orders[i])
      PROVE  \E j \in DOMAIN orders' :
               ~orders'[j].reduceOnly /\ DirectionOf(orders'[j]) = positions'[p].direction
  BY <1>5, OrdersKeepSides DEF DirectionOf
<1>6. QED BY <1>1, <1>2, <1>3, <1>4, <1>5, QuietStays

\* The two totals.
NetInv ==
  OnlyOrdersTrade /\ SidesAgree =>
    HeldInv /\ SumFunction(Held(positions)) = SumFunction(NetOf(orders))

LEMMA NetStays ==
  ASSUME TypeInv, TypeInv', QuietInv, SidesInv, NetInv, [Next]_vars
  PROVE  NetInv'
<1> SUFFICES ASSUME OnlyOrdersTrade, SidesAgree
             PROVE  HeldInv' /\ SumFunction(Held(positions')) = SumFunction(NetOf(orders'))
  BY SettingsAreFixed DEF NetInv, Held, NetOf, Signed
<1>1. HeldInv /\ SumFunction(Held(positions)) = SumFunction(NetOf(orders))
  BY DEF NetInv
<1>2. HeldInv'
  BY <1>1, HeldStays
<1>3. /\ orders \in [DOMAIN orders -> Order] /\ IsFiniteSet(DOMAIN orders)
      /\ orders' \in [DOMAIN orders' -> Order]
      /\ DOMAIN orders = 0..(nextId - 1) /\ nextId \in Nat
  <2>1. /\ orders \in [0..(nextId - 1) -> Order] /\ nextId \in Nat
        /\ orders' \in [0..(nextId' - 1) -> Order]
    <3>1. orders \in [0..(nextId - 1) -> Order] /\ nextId \in Nat
      BY ConfigTypes DEF TypeInv, TypeOK, BookOK
    <3>2. BookOK'
      BY DEF TypeInv, TypeOK
    <3>3. QED BY <3>1, <3>2 DEF BookOK
  <2>2. IsFiniteSet(0..(nextId - 1))
    <3>1. 0 \in Int /\ nextId - 1 \in Int
      BY <2>1
    <3>2. QED BY ONLY <3>1, FS_Interval
  <2>3. QED BY <2>1, <2>2
<1>4. CASE \E i \in DOMAIN orders : AddFill(i) \/ OpenFill(i) \/ CloseFill(i)
  <2>1. PICK i \in DOMAIN orders : AddFill(i) \/ OpenFill(i) \/ CloseFill(i)
    BY <1>4
  <2>2. PICK size \in Nat :
          /\ \E requested : orders' = RecordFill(Book(i), i, size, requested, idx)
          /\ SumFunction(Held(positions'))
               = SumFunction(Held(positions)) + Amount(orders[i].side, size)
    BY <1>1, <2>1, FillMovesLedger
  <2>3. /\ orders' \in [DOMAIN orders -> Order]
        /\ \A j \in DOMAIN orders : orders'[j].side = orders[j].side
        /\ \A j \in DOMAIN orders \ {i} : orders'[j].filled = orders[j].filled
        /\ orders'[i].filled = orders[i].filled + size
    BY <2>2, RecordedBook DEF SameTerms, SameFills
  <2>4. SumFunction(NetOf(orders')) = SumFunction(NetOf(orders)) + Amount(orders[i].side, size)
    <3> DEFINE D == DOMAIN orders
    <3>1. orders \in [D -> Order] /\ orders' \in [D -> Order] /\ IsFiniteSet(D) /\ i \in D
      BY <1>3, <2>3
    <3>2. /\ \A j \in D : orders'[j].side = orders[j].side
          /\ \A j \in D \ {i} : orders'[j].filled = orders[j].filled
      BY <2>3
    <3> HIDE DEF D
    <3>3. QED BY <2>3, <3>1, <3>2, NetMoves
  <2>5. QED BY <1>1, <1>2, <2>2, <2>4
<1>5. CASE ~\E i \in DOMAIN orders : AddFill(i) \/ OpenFill(i) \/ CloseFill(i)
  <2>1. /\ DOMAIN positions' = DOMAIN positions
        /\ \A p \in DOMAIN positions : positions'[p] = positions[p]
    BY <1>5, QuietStays
  <2>2. Held(positions') = Held(positions)
    BY <2>1 DEF Held
  <2>3. ASSUME NEW j \in DOMAIN orders
        PROVE  /\ j \in DOMAIN orders'
               /\ orders'[j].side = orders[j].side /\ orders'[j].filled = orders[j].filled
    <3>1. CASE BookKept
      BY <3>1 DEF BookKept, Kept, SameTrade
    <3>2. ASSUME NEW k \in DOMAIN orders, FillOrder(k)
          PROVE  /\ j \in DOMAIN orders'
                 /\ orders'[j].side = orders[j].side /\ orders'[j].filled = orders[j].filled
      <4>1. LeaveWorking(k) \/ RefuseFill(k) \/ KillFill(k)
        BY <1>5, <3>2 DEF FillOrder
      <4>2. QED BY <4>1, UntradedBooked DEF SameFills, SameTerms
    <3>3. QED BY <3>1, <3>2, FillOrQuiet
  <2>4. CASE DOMAIN orders' = DOMAIN orders
    <3>1. NetOf(orders') = NetOf(orders)
      BY <2>3, <2>4 DEF NetOf
    <3>2. QED BY <1>1, <1>2, <2>2, <3>1
  <2>5. CASE DOMAIN orders' # DOMAIN orders
    <3>1. PICK x \in DOMAIN orders' : x \notin DOMAIN orders
      BY <2>3, <2>5
    <3>2. Fresh(orders'[x]) /\ \A j \in DOMAIN orders : orders'[j] = orders[j]
      BY <3>1, NewIsFresh
    <3>3. DOMAIN orders' = DOMAIN orders \cup {x}
      <4>1. PICK t \in Templates, parent \in DOMAIN orders \cup {NoOrder}, stamp \in 0..idx :
              Submit(t, parent, stamp)
        BY <3>1, NewIsSubmitted
      <4>2. DOMAIN orders' = DOMAIN orders \cup {nextId}
        BY <4>1 DEF Submit
      <4>3. QED BY <3>1, <4>2
    <3>4. SumFunction(NetOf(orders')) = SumFunction(NetOf(orders))
      <4> DEFINE D == DOMAIN orders
                 rs == orders'
                 os == orders
      <4>1. /\ IsFiniteSet(D) /\ x \notin D /\ os \in [D -> Order]
            /\ rs \in [D \cup {x} -> Order]
            /\ \A j \in D : rs[j] = os[j]
            /\ rs[x].filled = 0
        BY <1>3, <3>1, <3>2, <3>3 DEF Fresh
      <4> HIDE DEF D, rs, os
      <4>2. SumFunction(NetOf(rs)) = SumFunction(NetOf(os))
        BY ONLY <4>1, NetGrows
      <4>3. QED BY <4>2 DEF rs, os
    <3>5. QED BY <1>1, <1>2, <2>2, <3>4
  <2>6. QED BY <2>4, <2>5
<1>6. QED BY <1>4, <1>5

\* What the two totals and the request rest on, kept along every step.
SliceInv == QuietInv /\ SidesInv /\ NetInv /\ FilledWithinRequest

\* Slices add up: where only orders trade the ledger holds the net of what they
\* filled, each slice booked once on its order and once on a position of its own
\* side or against one of the other; and no order is filled for more than it asked.
THEOREM FillsNetOut == Spec => []FillsAddUp
<1>1. Init => SliceInv
  <2> SUFFICES ASSUME Init PROVE SliceInv
      OBVIOUS
  <2>1. /\ DOMAIN orders = {} /\ DOMAIN positions = {} /\ now = 0 /\ closes = {}
        /\ ~bar.entry /\ ~bar.exit /\ ~deferred.entry /\ ~deferred.exit
    BY DEF Init, NoBar, NoIntent
  <2>2. MaxNow \in Nat /\ ExpiryTs \in Nat
    BY ConfigTypes DEF Init
  <2>3. Held(positions) \in [{} -> Int] /\ NetOf(orders) \in [{} -> Int]
    BY <2>1 DEF Held, NetOf
  <2>4. SumFunction(Held(positions)) = 0 /\ SumFunction(NetOf(orders)) = 0
    BY <2>3, SumOfNone
  <2>5. QED
    BY <2>1, <2>2, <2>4 DEF SliceInv, QuietInv, OnlyOrdersTrade, SidesInv, NetInv, HeldInv,
                            FilledWithinRequest
<1>2. TypeInv /\ TypeInv' /\ TurnInv /\ EndInv /\ SliceInv /\ [Next]_vars => SliceInv'
  <2> SUFFICES ASSUME TypeInv, TypeInv', TurnInv, EndInv, SliceInv, [Next]_vars
               PROVE  SliceInv'
      OBVIOUS
  <2>1. QuietInv'
    <3>1. CASE OnlyOrdersTrade
      BY <3>1, QuietStays DEF SliceInv
    <3>2. CASE ~OnlyOrdersTrade
      BY <3>2, SettingsAreFixed DEF QuietInv
    <3>3. QED BY <3>1, <3>2
  <2>2. SidesInv' /\ NetInv' /\ FilledWithinRequest'
    BY SidesStay, NetStays, WithinStays DEF SliceInv, EndInv
  <2>3. QED BY <2>1, <2>2 DEF SliceInv
<1>3. SliceInv => FillsAddUp
  BY DEF SliceInv, NetInv, FillsAddUp, PositionIsNetOfFills, Held, NetOf, Exposure, NetFill
<1>4. Spec => []EndInv
  BY EndsHold, LivesAreOrdered, TurnsAreOrdered, PTL DEF Spec
<1>5. QED BY <1>1, <1>2, <1>3, <1>4, TurnsAreOrdered, PTL DEF Spec

-----------------------------------------------------------------------------
(* The size of a slice *)

\* A schedule with a slice left cuts a natural number of units off its plan.
LEMMA SliceUnitsNat ==
  ASSUME NEW s, s.total \in Nat, s.slices \in Nat \ {0}, s.released \in Nat,
         s.released < s.slices
  PROVE  SliceUnits(s) \in Nat
<1> DEFINE total == s.total
           slices == s.slices
           k == s.released
<1>1. /\ total \in Nat /\ slices \in Nat \ {0} /\ k \in Nat /\ k < slices
      /\ total * k \in Nat /\ total * (k + 1) \in Nat /\ total * k <= total * (k + 1)
  <2>1. total \in Nat /\ slices \in Nat \ {0} /\ k \in Nat /\ k < slices
    OBVIOUS
  <2> HIDE DEF total, slices, k
  <2>2. total * (k + 1) = total * k + total /\ total * k \in Nat
    BY <2>1
  <2>3. QED BY <2>1, <2>2
<1>2. SliceUnits(s) = IF k + 1 = slices THEN total - (total * k) \div slices
                      ELSE (total * (k + 1)) \div slices - (total * k) \div slices
  BY DEF SliceUnits, Cut
<1> HIDE DEF total, slices, k
<1>3. (total * k) \div slices \in Nat /\ (total * (k + 1)) \div slices \in Nat
  BY <1>1, DivBounds
<1>4. (total * k) \div slices <= (total * (k + 1)) \div slices
  BY <1>1, DivMonotone
<1>5. (total * k) \div slices <= total
  <2>1. k + 1 <= slices
    BY <1>1
  <2>2. PICK d \in Nat : slices = k + d
    BY <1>1
  <2>3. total * slices = total * k + total * d /\ total * d \in Nat
    BY <1>1, <2>2
  <2>4. total * k <= slices * total /\ slices * total \in Nat
    BY <1>1, <2>3
  <2>5. (slices * total) \div slices <= total
    <3> DEFINE q == (slices * total) \div slices
    <3>1. q \in Nat /\ slices * q <= slices * total
      BY <1>1, <2>4, DivBounds
    <3> HIDE DEF q
    <3>2. SUFFICES ASSUME total + 1 <= q PROVE FALSE
      BY <1>1, <3>1 DEF q
    <3>3. PICK e \in Nat : q = total + 1 + e
      BY <1>1, <3>1, <3>2
    <3>4. slices * q = slices * total + slices + slices * e /\ slices * e \in Nat
      BY <1>1, <3>3
    <3>5. QED BY <1>1, <2>4, <3>1, <3>4
  <2>6. (total * k) \div slices <= (slices * total) \div slices
    BY <1>1, <2>4, DivMonotone
  <2>7. (slices * total) \div slices \in Nat
    BY <1>1, <2>4, DivBounds
  <2>8. QED BY <1>1, <1>3, <2>5, <2>6, <2>7
<1>6. QED BY <1>1, <1>2, <1>3, <1>4, <1>5

-----------------------------------------------------------------------------
(* The inductive invariant *)

\* The registry, the history and the book name each other's entries, and a
\* stopped schedule that is not drained yet is inactive.
RegistryInv ==
  /\ nextAlgo \in Nat
  /\ DOMAIN planned = 0..(nextAlgo - 1) /\ DOMAIN chances = DOMAIN planned
  /\ \A a \in DOMAIN planned : planned[a].every \in Nat \ {0}
  /\ DOMAIN schedules \subseteq DOMAIN planned /\ stopped \subseteq DOMAIN planned
  /\ \A a \in DOMAIN schedules : ScheduleOK(schedules[a]) /\ schedules[a].every = planned[a].every
  /\ \A a \in stopped \cap DOMAIN schedules : ~schedules[a].active
  /\ DOMAIN algoOf \subseteq DOMAIN orders
  /\ \A i \in DOMAIN algoOf : algoOf[i] \in DOMAIN planned

\* The next release is an interval past every slice, and still ahead only
\* because of one of them: what SlicesKeepPace rests on.
PaceInv ==
  \A a \in DOMAIN schedules :
    LET s == schedules[a] IN
    /\ \A i \in SlicesOf(a) : orders[i].submittedTs + s.every <= s.nextRelease
    /\ \/ s.nextRelease <= now
       \/ \E i \in SlicesOf(a) : /\ orders[i].submittedTs <= now
                                 /\ s.nextRelease = orders[i].submittedTs + s.every

TwapInv == TypeInv /\ RegistryInv /\ PaceInv /\ StoppedTwapIsQuiet /\ SlicesKeepPace

-----------------------------------------------------------------------------
(* What every step keeps of the orders and the clock *)

OrdersLast ==
  \A i \in DOMAIN orders :
    /\ i \in DOMAIN orders'
    /\ orders'[i].submittedTs = orders[i].submittedTs
    /\ StaysEnded(orders[i], orders'[i])

(* No step of the kernel drops an order, moves its placement or revives an ended one. *)
LEMMA KernelKeepsOrders == ASSUME TypeInv, [Next]_vars PROVE OrdersLast
<1>1. CASE BookKept
  BY <1>1 DEF BookKept, Kept, SameTrade, OrdersLast
<1>2. ASSUME NEW i \in DOMAIN orders, FillOrder(i) PROVE OrdersLast
  BY <1>2, FillBooked DEF Booked, SameTerms, OrdersLast
<1>3. QED BY <1>1, <1>2, FillOrQuiet

(* No step of the kernel turns the clock back. *)
LEMMA TimeMovesOn == ASSUME TypeInv, [Next]_vars PROVE now \in Nat /\ now' \in Nat /\ now <= now'
<1>1. now \in Nat /\ now' \in Nat
  BY NextType, ConfigTypes DEF TypeInv, TypeOK, ClockOK
<1>2. now' = now \/ Advance
  <2>1. UNCHANGED vars \/ Strategy \/ StartEvent => now' = now \/ Advance
    BY DEF vars, clockVars, Strategy, Submit, LinkOco, Cancel, Modify, RequestClose,
           ObserveEquity, HaltMargin, StartEvent, StepQuote, BeginStep
  <2>2. ASSUME NEW i, AnnounceVerdict(i) \/ FillOrder(i) PROVE now' = now
    BY <2>2 DEF AnnounceVerdict, FillOrder, LeaveWorking, RefuseFill, KillFill, AddFill,
                OpenFill, CloseFill, FillFrame, clockVars
  <2>3. Step => now' = now \/ Advance
    BY <2>2 DEF Step, SettleExpiry, FillIntents, Exits, MarginCheck, Match, EndMatch,
                StashEntry, BarredEntry, EnterOnSignal, NoEntry, StartSweep, EndStep,
                FinishStep, clockVars
  <2>4. QED BY <2>1, <2>3 DEF Next, Market
<1>3. Advance => now <= now'
  BY <1>1 DEF Advance
<1>4. QED BY <1>1, <1>2, <1>3

(* The clock and the stamps of the placed orders are numbers. *)
LEMMA StampsNat == ASSUME TypeInv PROVE /\ now \in Nat
                                        /\ \A i \in DOMAIN orders : orders[i].submittedTs \in Nat
BY ConfigTypes DEF TypeInv, TypeOK, BookOK, ClockOK, Order

\* A step of the kernel, or one that leaves the schedules alone.
LEMMA KernelStepInv ==
  ASSUME TwapInv, [Next]_vars, UNCHANGED twapVars
  PROVE  TwapInv'
<1>1. /\ TypeInv /\ RegistryInv /\ PaceInv /\ StoppedTwapIsQuiet /\ SlicesKeepPace
      /\ OrdersLast /\ now \in Nat /\ now' \in Nat /\ now <= now'
  BY KernelKeepsOrders, TimeMovesOn DEF TwapInv
<1>2. /\ \A a : SlicesOf(a)' = SlicesOf(a)
      /\ \A a : SlicesOf(a) \subseteq DOMAIN orders
      /\ \A a : \A i \in SlicesOf(a) : orders'[i].submittedTs = orders[i].submittedTs
  BY <1>1 DEF twapVars, SlicesOf, RegistryInv, OrdersLast
<1>3. TypeInv'
  BY <1>1, NextType
<1>4. RegistryInv'
  BY <1>1 DEF twapVars, RegistryInv, OrdersLast
<1>5. PaceInv'
  <2> SUFFICES ASSUME NEW a \in DOMAIN schedules
               PROVE  LET s == schedules[a] IN
                 /\ \A i \in SlicesOf(a) : orders'[i].submittedTs + s.every <= s.nextRelease
                 /\ \/ s.nextRelease <= now'
                    \/ \E i \in SlicesOf(a) : /\ orders'[i].submittedTs <= now'
                                              /\ s.nextRelease = orders'[i].submittedTs + s.every
      BY <1>2 DEF PaceInv, twapVars
  <2>1. schedules[a].nextRelease \in Nat
    BY <1>1 DEF RegistryInv, ScheduleOK, AlgoSchedule
  <2>2. \A i \in SlicesOf(a) : orders[i].submittedTs \in Nat
    BY <1>1, <1>2, StampsNat
  <2>3. QED BY <1>1, <1>2, <2>1, <2>2 DEF PaceInv
<1>6. StoppedTwapIsQuiet'
  <2>1. \A a \in stopped : \A i \in SlicesOf(a) : ~IsLive(orders'[i])
    <3>1. \A i \in DOMAIN orders : orders[i].status \in Working \cup Terminal
      BY <1>1 DEF TypeInv, TypeOK, BookOK, Order, Statuses
    <3>2. QED BY <1>1, <1>2, <3>1
              DEF StoppedTwapIsQuiet, IsLive, OrdersLast, StaysEnded, Working, Terminal
  <2>2. QED BY <1>2, <2>1 DEF StoppedTwapIsQuiet, twapVars
<1>7. SlicesKeepPace'
  <2>1. \A a : ReleaseTimes(a)' = ReleaseTimes(a)
    BY <1>2 DEF ReleaseTimes
  <2>2. QED BY <1>1, <1>2, <2>1 DEF SlicesKeepPace, twapVars
<1>8. QED BY <1>3, <1>4, <1>5, <1>6, <1>7 DEF TwapInv

-----------------------------------------------------------------------------
(* The strategy's calls *)

(* Every plan of the menu is a plan. *)
LEMMA PlanTypes == ASSUME TypeInv, NEW p \in Menu PROVE p \in Plan
BY PlanAssumption DEF TypeInv, TypeOK, Menu

(* Registering a schedule keeps the invariant of the registry. *)
LEMMA SubmitInv == ASSUME TwapInv, NEW p \in Menu, SubmitTwap(p) PROVE TwapInv'
<1> PICK a0 : a0 = nextAlgo
  OBVIOUS
<1>1. /\ TypeInv /\ RegistryInv /\ PaceInv /\ StoppedTwapIsQuiet /\ SlicesKeepPace
      /\ UNCHANGED <<vars, algoOf, stopped>> /\ now \in Nat /\ p \in Plan
  BY StampsNat, PlanTypes DEF TwapInv, SubmitTwap
<1>2. UNCHANGED <<orders, now>>
  BY <1>1 DEF vars, bookVars, clockVars
<1>3. /\ DOMAIN planned' = DOMAIN planned \cup {a0} /\ a0 \notin DOMAIN planned
      /\ DOMAIN schedules' = DOMAIN schedules \cup {a0} /\ a0 \notin DOMAIN schedules
      /\ DOMAIN planned' = 0..(nextAlgo' - 1) /\ nextAlgo' \in Nat
      /\ DOMAIN chances' = DOMAIN planned'
      /\ planned'[a0] = p /\ chances'[a0] = {}
      /\ \A a \in DOMAIN planned : planned'[a] = planned[a] /\ chances'[a] = chances[a]
      /\ \A a \in DOMAIN schedules : schedules'[a] = schedules[a]
  BY <1>1 DEF SubmitTwap, RegistryInv
<1>4. schedules'[a0] = [side |-> p.side, reduceOnly |-> p.reduceOnly, total |-> p.total,
                        slices |-> p.slices, every |-> p.every, nextRelease |-> now,
                        released |-> 0, active |-> TRUE]
  BY <1>3 DEF SubmitTwap
<1>5. p.slices \in Nat \ {0} /\ p.every \in Nat \ {0} /\ p.total \in Nat \ {0}
      /\ p.side \in {"Buy", "Sell"} /\ p.reduceOnly \in BOOLEAN
  BY <1>1 DEF SubmitTwap, Plan
<1>6. (\A a : SlicesOf(a)' = SlicesOf(a)) /\ SlicesOf(a0) = {}
  BY <1>1, <1>3 DEF SlicesOf, RegistryInv
<1>7. TypeInv'
  BY <1>1, NextType
<1>8. RegistryInv'
  <2>1. ScheduleOK(schedules'[a0]) /\ schedules'[a0].every = planned'[a0].every
    BY <1>1, <1>3, <1>4, <1>5 DEF ScheduleOK, AlgoSchedule
  <2>3. \A a \in stopped : a # a0
    BY <1>1, <1>3 DEF RegistryInv
  <2>4. \A a \in DOMAIN planned' : planned'[a].every \in Nat \ {0}
    BY <1>1, <1>3, <1>5 DEF RegistryInv
  <2>5. \A a \in DOMAIN schedules' :
          ScheduleOK(schedules'[a]) /\ schedules'[a].every = planned'[a].every
    BY <1>1, <1>3, <2>1 DEF RegistryInv
  <2>6. \A a \in stopped' \cap DOMAIN schedules' : ~schedules'[a].active
    BY <1>1, <1>3, <2>3 DEF RegistryInv
  <2>7. /\ DOMAIN schedules' \subseteq DOMAIN planned' /\ stopped' \subseteq DOMAIN planned'
        /\ DOMAIN algoOf' \subseteq DOMAIN orders'
        /\ \A i \in DOMAIN algoOf' : algoOf'[i] \in DOMAIN planned'
    BY <1>1, <1>2, <1>3 DEF RegistryInv
  <2>8. QED BY <1>3, <2>4, <2>5, <2>6, <2>7 DEF RegistryInv
<1>9. PaceInv'
  <2>1. schedules'[a0].nextRelease <= now
    BY <1>1, <1>4
  <2>2. QED BY <1>1, <1>2, <1>3, <1>6, <2>1 DEF PaceInv
<1>10. StoppedTwapIsQuiet'
  BY <1>1, <1>2, <1>6 DEF StoppedTwapIsQuiet
<1>11. SlicesKeepPace'
  <2>1. \A a : ReleaseTimes(a)' = ReleaseTimes(a)
    BY <1>2, <1>6 DEF ReleaseTimes
  <2>2. QED BY <1>1, <1>2, <1>3, <1>6, <2>1 DEF SlicesKeepPace
<1>12. QED BY <1>7, <1>8, <1>9, <1>10, <1>11 DEF TwapInv

(* A working order that was canceled is not live. *)
LEMMA CanceledIsEnded == ASSUME NEW o \in Order PROVE ~IsLive(CancelWorking(o))
<1>1. CASE IsLive(o)
  <2>1. Move(o, "Canceled").status = "Canceled"
    BY <1>1 DEF Move, LegalMoves, IsLive, Working, Order
  <2>2. CancelWorking(o).status = "Canceled"
    BY <1>1, <2>1, NotedStatus, EndedStatuses DEF CancelWorking
  <2>3. QED BY <2>2 DEF IsLive, Working
<1>2. CASE ~IsLive(o)
  BY <1>2 DEF CancelWorking
<1>3. QED BY <1>1, <1>2

(* Stopping a schedule keeps the invariant of the registry. *)
LEMMA CancelInv ==
  ASSUME TwapInv, NEW a0 \in DOMAIN schedules, CancelTwap(a0)
  PROVE  TwapInv'
<1>1. /\ TypeInv /\ RegistryInv /\ PaceInv /\ StoppedTwapIsQuiet /\ SlicesKeepPace
      /\ UNCHANGED <<run, nextId, ledgerVars, clockVars, phase, stepVars, deferred, closes,
                     gateVars, nextAlgo, algoOf, planned, chances>>
      /\ stopped' = stopped \cup {a0}
      /\ \A i \in DOMAIN orders : orders[i] \in Order
  BY DEF TwapInv, CancelTwap, TypeInv, TypeOK, BookOK
<1>2. /\ DOMAIN orders' = DOMAIN orders
      /\ \A i \in DOMAIN orders :
           orders'[i] = IF i \in SlicesOf(a0) THEN CancelWorking(orders[i]) ELSE orders[i]
  BY DEF CancelTwap
<1>3. ASSUME NEW i \in DOMAIN orders
      PROVE  /\ orders'[i] \in Order /\ SameTerms(orders[i], orders'[i])
             /\ i \in SlicesOf(a0) => ~IsLive(orders'[i])
             /\ ~IsLive(orders[i]) => ~IsLive(orders'[i])
  BY <1>1, <1>2, CancelWorkingOrder, CanceledIsEnded, SameFillsReflexive
  DEF SameFills, CancelWorking
<1>4. TypeInv'
  <2>1. orders' \in [DOMAIN orders -> Order]
        /\ \A i \in DOMAIN orders : orders'[i].parent = orders[i].parent
    <3>1. orders' = [i \in DOMAIN orders |-> orders'[i]]
      BY DEF CancelTwap
    <3>2. QED BY <1>3, <3>1 DEF SameTerms
  <2>2. BookOK' /\ LedgerOK' /\ ClockOK'
    BY <1>1, <1>2, <2>1, MappedBook, LedgerFrame, ClockFrame DEF TypeInv, TypeOK
  <2>3. QED BY <1>1, <1>2, <2>2
        DEF TypeInv, TypeOK, StepOK, stepVars, clockVars, gateVars, MaxIdx
<1>5. /\ \A a : SlicesOf(a)' = SlicesOf(a)
      /\ \A a : SlicesOf(a) \subseteq DOMAIN orders
      /\ \A i \in DOMAIN orders : orders'[i].submittedTs = orders[i].submittedTs
      /\ UNCHANGED now
  BY <1>1, <1>3 DEF SlicesOf, RegistryInv, SameTerms, clockVars
<1>6. /\ DOMAIN schedules' = DOMAIN schedules
      /\ schedules'[a0] = [schedules[a0] EXCEPT !.active = FALSE]
      /\ \A a \in DOMAIN schedules \ {a0} : schedules'[a] = schedules[a]
  BY DEF CancelTwap
<1>7. \A a \in DOMAIN schedules :
        /\ ScheduleOK(schedules'[a]) /\ schedules'[a].every = schedules[a].every
        /\ schedules'[a].nextRelease = schedules[a].nextRelease
  <2>1. \A a \in DOMAIN schedules : ScheduleOK(schedules[a])
    BY <1>1 DEF RegistryInv
  <2>2. \A s : ScheduleOK(s) => LET t == [s EXCEPT !.active = FALSE] IN
          ScheduleOK(t) /\ t.every = s.every /\ t.nextRelease = s.nextRelease /\ ~t.active
    BY DEF ScheduleOK, AlgoSchedule
  <2>3. ASSUME NEW a \in DOMAIN schedules
        PROVE  /\ ScheduleOK(schedules'[a]) /\ schedules'[a].every = schedules[a].every
               /\ schedules'[a].nextRelease = schedules[a].nextRelease
    <3>1. ScheduleOK(schedules[a])
      BY <2>1
    <3>2. CASE a = a0
      BY <1>6, <2>2, <3>1, <3>2
    <3>3. CASE a # a0
      BY <1>6, <3>1, <3>3
    <3>4. QED BY <3>2, <3>3
  <2>4. QED BY <2>3
<1>8. RegistryInv'
  <2>1. \A a \in stopped' \cap DOMAIN schedules' : ~schedules'[a].active
    <3>1. ScheduleOK(schedules[a0])
      BY <1>1 DEF RegistryInv
    <3>2. ~schedules'[a0].active
      BY <1>6, <3>1 DEF ScheduleOK, AlgoSchedule
    <3>3. QED BY <1>1, <1>6, <3>2 DEF RegistryInv
  <2>2. QED BY <1>1, <1>2, <1>6, <1>7, <2>1 DEF RegistryInv
<1>9. PaceInv'
  BY <1>1, <1>5, <1>6, <1>7 DEF PaceInv
<1>10. StoppedTwapIsQuiet'
  BY <1>1, <1>3, <1>5 DEF StoppedTwapIsQuiet
<1>11. SlicesKeepPace'
  <2>1. \A a : ReleaseTimes(a)' = ReleaseTimes(a)
    BY <1>5 DEF ReleaseTimes
  <2>2. QED BY <1>1, <1>5, <2>1 DEF SlicesKeepPace
<1>12. QED BY <1>4, <1>8, <1>9, <1>10, <1>11 DEF TwapInv

-----------------------------------------------------------------------------
(* The release phase *)

(* At any time finitely many schedules are due. *)
LEMMA DueIsFinite == ASSUME RegistryInv PROVE Cardinality(DueSchedules) \in Nat
<1>1. IsFiniteSet(0..(nextAlgo - 1))
  <2>1. 0 \in Int /\ nextAlgo - 1 \in Int
    BY DEF RegistryInv
  <2>2. QED BY ONLY <2>1, FS_Interval
<1>2. DueSchedules \subseteq 0..(nextAlgo - 1)
  BY DEF DueSchedules, RegistryInv
<1>3. QED BY <1>1, <1>2, FS_Subset, FS_CardinalityType

\* A slice is an order of the type the book holds.
LEMMA SliceOrderType ==
  ASSUME TypeInv, NEW s, ScheduleOK(s)
  PROVE  /\ SliceOrder(s) \in Order
         /\ SliceOrder(s).submittedTs = now /\ SliceOrder(s).parent = NoOrder
<1>1. SliceUnits(s) \in Nat /\ s.side \in {"Buy", "Sell"} /\ s.reduceOnly \in BOOLEAN
  BY SliceUnitsNat DEF ScheduleOK, AlgoSchedule
<1>2. idx \in Nat /\ now \in Nat /\ Latency \in Nat
  BY ConfigTypes DEF TypeInv, TypeOK, ClockOK
<1>3. /\ "Submitted" \in Statuses /\ <<>> \in Seq(Notices) /\ -1 \in Nat \cup {-1}
      /\ "Market" \in Kinds /\ "Gtc" \in Tifs /\ now + Latency \in Nat
  BY <1>2 DEF Statuses, Working, Kinds, Tifs
<1>4. QED BY <1>1, <1>2, <1>3 DEF SliceOrder, Order

\* The orders a release adds: each is stamped now and tagged with a schedule
\* that was due, and no two with the same.
LEMMA ReleasedOrders ==
  ASSUME TwapInv, NEW sent \in Releases, ReleaseSlices(sent)
  PROVE  /\ nextId' \in Nat /\ nextId <= nextId'
         /\ DOMAIN orders' = 0..(nextId' - 1)
         /\ SliceIds \subseteq Nat /\ SliceIds \cap DOMAIN orders = {}
         /\ DOMAIN orders' = DOMAIN orders \cup SliceIds
         /\ \A i \in DOMAIN orders : orders'[i] = orders[i]
         /\ \A i \in SliceIds : /\ sent[i] \in DueSchedules
                               /\ orders'[i] \in Order /\ orders'[i].submittedTs = now
                               /\ orders'[i].parent = NoOrder
<1> DEFINE n == Cardinality(DueSchedules)
<1>1. TypeInv /\ RegistryInv /\ n \in Nat /\ nextId \in Nat /\ DOMAIN orders = 0..(nextId - 1)
  BY DueIsFinite, ConfigTypes DEF TwapInv, TypeInv, TypeOK, BookOK
<1>2. nextId' = nextId + n
  BY DEF ReleaseSlices
<1>3. SliceIds = nextId..(nextId + n - 1)
  BY DEF SliceIds
<1> HIDE DEF n
<1>4. /\ SliceIds \subseteq Nat /\ SliceIds \cap DOMAIN orders = {}
      /\ DOMAIN orders \cup SliceIds = 0..(nextId' - 1)
  BY <1>1, <1>2, <1>3
<1>5. orders' = [i \in DOMAIN orders \cup SliceIds |->
                  IF i \in DOMAIN orders THEN orders[i] ELSE SliceOrder(schedules[sent[i]])]
  BY DEF ReleaseSlices
<1>6. ASSUME NEW i \in SliceIds
      PROVE  sent[i] \in DueSchedules /\ orders'[i] = SliceOrder(schedules[sent[i]])
             /\ ScheduleOK(schedules[sent[i]])
  <2>1. sent[i] \in DueSchedules
    BY DEF Releases
  <2>2. QED BY <1>1, <1>4, <1>5, <2>1 DEF RegistryInv, DueSchedules
<1>7. QED BY <1>1, <1>2, <1>4, <1>5, <1>6, SliceOrderType

(* Releasing what is due keeps the types. *)
LEMMA ReleaseType ==
  ASSUME TwapInv, NEW sent \in Releases, ReleaseSlices(sent)
  PROVE  TypeInv'
<1>1. /\ TypeInv /\ phase = "sweeping"
      /\ UNCHANGED <<run, ledgerVars, clockVars, phase, stepVars, deferred, closes, gateVars>>
      /\ nextId' <= MaxOrders
  BY DEF TwapInv, ReleaseSlices
<1>2. BookOK'
  <2>1. \A i \in DOMAIN orders' : orders'[i] \in Order
    BY <1>1, ReleasedOrders DEF TypeInv, TypeOK, BookOK
  <2>2. orders' \in [0..(nextId' - 1) -> Order]
    <3>1. orders' = [i \in DOMAIN orders' |-> orders'[i]]
      BY DEF ReleaseSlices
    <3>2. QED BY <2>1, <3>1, ReleasedOrders
  <2>3. nextId' \in 0..MaxOrders'
    <3>1. MaxOrders' = MaxOrders /\ MaxOrders \in Nat
      BY <1>1, ConfigTypes DEF MaxOrders, TypeInv, TypeOK
    <3>2. QED BY <1>1, <3>1, ReleasedOrders
  <2>4. \A i \in DOMAIN orders' : orders'[i].parent # NoOrder => orders'[i].parent < i
    BY <1>1, ReleasedOrders DEF TypeInv, TypeOK, BookOK
  <2>5. QED BY <2>2, <2>3, <2>4 DEF BookOK
<1>3. LedgerOK' /\ ClockOK'
  BY <1>1, LedgerFrame, ClockFrame DEF TypeInv, TypeOK
<1>4. StepOK'
  BY <1>1, ReleasedOrders DEF TypeInv, TypeOK, StepOK, stepVars
<1>5. QED BY <1>1, <1>2, <1>3, <1>4 DEF TypeInv, TypeOK, gateVars, clockVars, MaxIdx

\* A release adds one order to each schedule that is due and none to another.
LEMMA ReleasedSlices ==
  ASSUME TwapInv, NEW sent \in Releases, ReleaseSlices(sent), NEW a
  PROVE  /\ SlicesOf(a) \subseteq DOMAIN orders
         /\ a \notin DueSchedules => SlicesOf(a)' = SlicesOf(a)
         /\ a \in DueSchedules => \E k \in SliceIds : SlicesOf(a)' = SlicesOf(a) \cup {k}
<1>1. /\ RegistryInv /\ DOMAIN algoOf \subseteq DOMAIN orders
      /\ SliceIds \subseteq Nat /\ SliceIds \cap DOMAIN orders = {}
      /\ DueSchedules \subseteq Nat
  BY ReleasedOrders DEF TwapInv, RegistryInv, DueSchedules
<1>2. algoOf' = [i \in DOMAIN algoOf \cup SliceIds |->
                  IF i \in SliceIds THEN sent[i] ELSE algoOf[i]]
  BY DEF ReleaseSlices
<1>3. SlicesOf(a)' = SlicesOf(a) \cup {i \in SliceIds : sent[i] = a}
  BY <1>1, <1>2 DEF SlicesOf
<1>4. \A i \in SliceIds : sent[i] \in DueSchedules
  BY DEF Releases
<1>5. a \in DueSchedules => \E k \in SliceIds : {i \in SliceIds : sent[i] = a} = {k}
  <2> SUFFICES ASSUME a \in DueSchedules
               PROVE  \E k \in SliceIds : {i \in SliceIds : sent[i] = a} = {k}
      OBVIOUS
  <2>1. PICK k \in SliceIds : sent[k] = a
    BY DEF Releases
  <2>2. \A i, j \in SliceIds : i < j => sent[i] < sent[j]
    BY DEF Releases
  <2>3. \A i \in SliceIds : sent[i] = a => i = k
    BY <1>1, <1>4, <2>1, <2>2
  <2>4. QED BY <2>1, <2>3
<1>6. SlicesOf(a) \subseteq DOMAIN orders
  BY <1>1 DEF SlicesOf
<1>7. QED BY <1>3, <1>4, <1>5, <1>6

\* What the release leaves of a schedule that is not drained.
LEMMA SteppedSchedules ==
  ASSUME TwapInv, NEW sent \in Releases, ReleaseSlices(sent)
  PROVE  /\ DOMAIN schedules' \subseteq DOMAIN schedules
         /\ \A a \in DOMAIN schedules' :
              /\ ScheduleOK(schedules'[a]) /\ schedules'[a].every = schedules[a].every
              /\ schedules'[a].active = schedules[a].active
              /\ a \notin DueSchedules => schedules'[a] = schedules[a]
              /\ a \in DueSchedules => schedules'[a].nextRelease = now + schedules[a].every
<1>1. /\ \A a \in DOMAIN schedules : ScheduleOK(schedules[a])
      /\ now \in Nat
  BY StampsNat DEF TwapInv, RegistryInv
<1>2. schedules' = [a \in DOMAIN schedules \ Drained |-> Stepped(a)]
  BY DEF ReleaseSlices
<1>3. ASSUME NEW a \in DOMAIN schedules'
      PROVE  /\ a \in DOMAIN schedules /\ schedules'[a] = Stepped(a) /\ ~IsComplete(Stepped(a))
  <2>1. a \in DOMAIN schedules \ Drained /\ schedules'[a] = Stepped(a)
    BY <1>2, <1>3
  <2>2. QED BY <2>1 DEF Drained, IsDrained
<1>4. ASSUME NEW s, ScheduleOK(s), ~IsComplete(AfterRelease(s))
      PROVE  LET t == AfterRelease(s) IN
             /\ ScheduleOK(t) /\ t.every = s.every /\ t.active = s.active
             /\ t.nextRelease = now + s.every
  <2>1. s \in AlgoSchedule /\ now + s.every \in Nat /\ s.released + 1 \in Nat
    BY <1>1, <1>4 DEF ScheduleOK, AlgoSchedule
  <2>2. LET t == AfterRelease(s) IN
        /\ t \in AlgoSchedule /\ t.every = s.every /\ t.active = s.active
        /\ t.nextRelease = now + s.every /\ t.slices = s.slices
        /\ t.released = s.released + 1
    BY <2>1 DEF AlgoSchedule, AfterRelease
  <2>3. QED BY <1>4, <2>2 DEF ScheduleOK, IsComplete, AlgoSchedule
<1>5. ASSUME NEW a \in DOMAIN schedules'
      PROVE  /\ ScheduleOK(schedules'[a]) /\ schedules'[a].every = schedules[a].every
             /\ schedules'[a].active = schedules[a].active
             /\ a \notin DueSchedules => schedules'[a] = schedules[a]
             /\ a \in DueSchedules => schedules'[a].nextRelease = now + schedules[a].every
  <2>1. CASE a \in DueSchedules
    BY <1>1, <1>3, <1>4, <2>1 DEF Stepped
  <2>2. CASE a \notin DueSchedules
    BY <1>1, <1>3, <2>2 DEF Stepped
  <2>3. QED BY <2>1, <2>2
<1>6. QED BY <1>3, <1>5

(* Releasing what is due keeps the invariant of the registry. *)
LEMMA ReleaseInv ==
  ASSUME TwapInv, NEW sent \in Releases, ReleaseSlices(sent)
  PROVE  TwapInv'
<1>1. /\ TypeInv /\ RegistryInv /\ PaceInv /\ StoppedTwapIsQuiet /\ SlicesKeepPace
      /\ UNCHANGED <<now, nextAlgo, planned, stopped>> /\ now \in Nat
      /\ \A i \in DOMAIN orders : orders[i].submittedTs \in Nat
  BY StampsNat DEF TwapInv, ReleaseSlices, clockVars
<1>2. /\ DOMAIN orders' = DOMAIN orders \cup SliceIds
      /\ SliceIds \subseteq Nat /\ SliceIds \cap DOMAIN orders = {}
      /\ DOMAIN orders \subseteq Nat
      /\ \A i \in DOMAIN orders : orders'[i] = orders[i]
      /\ \A i \in SliceIds : sent[i] \in DueSchedules /\ orders'[i].submittedTs = now
      /\ \A i \in DOMAIN orders, j \in SliceIds : i < j
  <2>1. \A i \in DOMAIN orders, j \in SliceIds : i < j
    BY <1>1, DueIsFinite, ConfigTypes DEF SliceIds, TypeInv, TypeOK, BookOK
  <2>2. DOMAIN orders \subseteq Nat
    BY <1>1 DEF TypeInv, TypeOK, BookOK
  <2>3. QED BY <2>1, <2>2, ReleasedOrders
<1>3. \A a \in DueSchedules :
        /\ a \in DOMAIN schedules /\ schedules[a].active
        /\ schedules[a].nextRelease <= now /\ a \notin stopped
        /\ a \in DOMAIN planned
  BY <1>1 DEF DueSchedules, IsDue, RegistryInv, ScheduleOK, AlgoSchedule
<1>4. \A a \in DOMAIN schedules :
        /\ schedules[a].every = planned[a].every /\ schedules[a].every \in Nat \ {0}
        /\ schedules[a].nextRelease \in Nat /\ a \in DOMAIN planned
  BY <1>1 DEF RegistryInv, ScheduleOK, AlgoSchedule
<1>5. TypeInv'
  BY ReleaseType
<1>6. RegistryInv'
  <2>1. /\ DOMAIN chances' = DOMAIN chances
        /\ DOMAIN algoOf' = DOMAIN algoOf \cup SliceIds
        /\ \A i \in DOMAIN algoOf' : algoOf'[i] = IF i \in SliceIds THEN sent[i] ELSE algoOf[i]
    BY DEF ReleaseSlices
  <2>2. /\ DOMAIN algoOf' \subseteq DOMAIN orders'
        /\ \A i \in DOMAIN algoOf' : algoOf'[i] \in DOMAIN planned'
    BY <1>1, <1>2, <1>3, <2>1 DEF RegistryInv
  <2>3. QED BY <1>1, <1>4, <2>1, <2>2, SteppedSchedules DEF RegistryInv
<1>7. PaceInv'
  <2> SUFFICES ASSUME NEW a \in DOMAIN schedules'
               PROVE  LET s == schedules'[a] IN
                 /\ \A i \in SlicesOf(a)' : orders'[i].submittedTs + s.every <= s.nextRelease
                 /\ \/ s.nextRelease <= now
                    \/ \E i \in SlicesOf(a)' : /\ orders'[i].submittedTs <= now
                                               /\ s.nextRelease = orders'[i].submittedTs + s.every
      BY <1>1 DEF PaceInv
  <2>1. a \in DOMAIN schedules /\ schedules'[a].every = schedules[a].every
    BY SteppedSchedules
  <2>2. CASE a \in DueSchedules
    <3>1. PICK k \in SliceIds : SlicesOf(a)' = SlicesOf(a) \cup {k}
      BY <2>2, ReleasedSlices
    <3>2. schedules'[a].nextRelease = now + schedules[a].every
      BY <2>2, SteppedSchedules
    <3>3. \A i \in SlicesOf(a) : orders'[i].submittedTs + schedules[a].every <= now
      BY <1>1, <1>2, <1>3, <1>4, <2>1, <2>2, ReleasedSlices DEF PaceInv
    <3>4. \A i \in SlicesOf(a) : orders'[i].submittedTs \in Nat
      BY <1>1, <1>2, ReleasedSlices
    <3>5. QED BY <1>1, <1>2, <1>4, <2>1, <3>1, <3>2, <3>3, <3>4
  <2>3. CASE a \notin DueSchedules
    BY <1>1, <1>2, <2>1, <2>3, ReleasedSlices, SteppedSchedules DEF PaceInv
  <2>4. QED BY <2>2, <2>3
<1>8. StoppedTwapIsQuiet'
  BY <1>1, <1>2, <1>3, ReleasedSlices DEF StoppedTwapIsQuiet
<1>9. SlicesKeepPace'
  <2> SUFFICES ASSUME NEW a \in DOMAIN planned
               PROVE  /\ \A i, j \in SlicesOf(a)' :
                           i < j => orders'[j].submittedTs
                                      >= orders'[i].submittedTs + planned[a].every
                      /\ \A t \in chances'[a] :
                           \E i \in SlicesOf(a)' :
                             /\ orders'[i].submittedTs <= t
                             /\ t < orders'[i].submittedTs + planned[a].every
      BY <1>1 DEF SlicesKeepPace, ReleaseTimes
  <2>1. /\ \A i, j \in SlicesOf(a) :
             i < j => orders'[j].submittedTs >= orders'[i].submittedTs + planned[a].every
        /\ \A t \in chances[a] :
             \E i \in SlicesOf(a) : /\ orders'[i].submittedTs <= t
                                   /\ t < orders'[i].submittedTs + planned[a].every
    BY <1>1, <1>2, ReleasedSlices DEF SlicesKeepPace, ReleaseTimes
  <2>2. chances'[a] = IF a \in DOMAIN schedules /\ schedules[a].active
                      THEN chances[a] \cup {now} ELSE chances[a]
    BY <1>1 DEF ReleaseSlices, RegistryInv
  <2>3. CASE a \in DueSchedules
    <3>1. PICK k \in SliceIds : SlicesOf(a)' = SlicesOf(a) \cup {k}
      BY <2>3, ReleasedSlices
    <3>2. orders'[k].submittedTs = now /\ \A i \in SlicesOf(a) : i < k /\ i \in Nat /\ ~(k < i)
      BY <1>2, ReleasedSlices
    <3>3. \A i \in SlicesOf(a) : now >= orders'[i].submittedTs + planned[a].every
      BY <1>1, <1>2, <1>3, <1>4, <2>3, ReleasedSlices DEF PaceInv
    <3>4. now < now + planned[a].every /\ k \in Nat
      BY <1>1, <1>2, <1>3, <1>4, <2>3
    <3>5. QED BY <1>1, <2>1, <2>2, <3>1, <3>2, <3>3, <3>4
  <2>4. CASE a \notin DueSchedules
    <3>1. SlicesOf(a)' = SlicesOf(a)
      BY <2>4, ReleasedSlices
    <3>2. ASSUME a \in DOMAIN schedules, schedules[a].active
          PROVE  \E i \in SlicesOf(a) : /\ orders'[i].submittedTs <= now
                                        /\ now < orders'[i].submittedTs + planned[a].every
      <4>1. now < schedules[a].nextRelease
        BY <1>1, <1>4, <2>4, <3>2
        DEF DueSchedules, IsDue, IsComplete, RegistryInv, ScheduleOK, AlgoSchedule
      <4>2. PICK i \in SlicesOf(a) :
              /\ orders[i].submittedTs <= now
              /\ schedules[a].nextRelease = orders[i].submittedTs + schedules[a].every
        BY <1>1, <1>4, <3>2, <4>1 DEF PaceInv
      <4>3. QED BY <1>2, <1>4, <3>2, <4>1, <4>2, ReleasedSlices
    <3>3. QED BY <2>1, <2>2, <3>1, <3>2
  <2>5. QED BY <2>3, <2>4
<1>10. QED BY <1>5, <1>6, <1>7, <1>8, <1>9 DEF TwapInv

-----------------------------------------------------------------------------
(* The theorems *)

\* The inductive invariant of a kernel with schedules.
THEOREM SchedulesHold == TwapSpec => []TwapInv
<1>1. TwapInit => TwapInv
  <2> SUFFICES ASSUME TwapInit PROVE TwapInv
      OBVIOUS
  <2>1. TypeInv
    BY InitType DEF TwapInit
  <2>2. RegistryInv
    BY DEF TwapInit, RegistryInv, Init
  <2>3. PaceInv /\ StoppedTwapIsQuiet /\ SlicesKeepPace
    BY DEF TwapInit, PaceInv, StoppedTwapIsQuiet, SlicesKeepPace
  <2>4. QED BY <2>1, <2>2, <2>3 DEF TwapInv
<1>2. TwapInv /\ [TwapNext]_allVars => TwapInv'
  <2> SUFFICES ASSUME TwapInv, [TwapNext]_allVars PROVE TwapInv'
      OBVIOUS
  <2>1. CASE KernelStep
    BY <2>1, KernelStepInv DEF KernelStep
  <2>2. CASE UNCHANGED allVars
    BY <2>2, KernelStepInv DEF allVars
  <2>3. QED BY <2>1, <2>2, SubmitInv, CancelInv, ReleaseInv DEF TwapNext
<1>3. QED BY <1>1, <1>2, PTL DEF TwapSpec

\* A stopped schedule has nothing working and never will again, whatever the
\* strategy, the market and the kernel do after the call (cancel_algo).
THEOREM StoppedStaysQuiet == TwapSpec => []StoppedTwapIsQuiet
<1>1. TwapInv => StoppedTwapIsQuiet
  BY DEF TwapInv
<1>2. QED BY <1>1, SchedulesHold, PTL

\* Slices are never closer than their interval, and no step that reaches the
\* release phase passes over a due slice, for any timing of the events
\* (release_due).
THEOREM PaceHolds == TwapSpec => []SlicesKeepPace
<1>1. TwapInv => SlicesKeepPace
  BY DEF TwapInv
<1>2. QED BY <1>1, SchedulesHold, PTL

-----------------------------------------------------------------------------
(* The whole of a plan is cut *)

(* The cuts of a plan end at its whole quantity. *)
LEMMA WholeIsCut ==
  ASSUME NEW total \in Nat, NEW slices \in Nat \ {0}
  PROVE  (total * slices) \div slices = total
<1>1. PICK a : a = total * slices
  OBVIOUS
<1>2. a \in Nat
  BY <1>1
<1>3. PICK q : q = a \div slices
  OBVIOUS
<1>4. q \in Nat /\ slices * q <= a /\ a < slices * q + slices
  BY <1>2, <1>3, DivBounds
<1>5. ASSUME q + 1 <= total PROVE FALSE
  <2>1. PICK k \in Nat : total = q + 1 + k
    BY <1>4, <1>5
  <2>2. total * slices = slices * q + slices + slices * k /\ slices * k \in Nat
    BY <1>4, <2>1
  <2>3. slices * q \in Nat
    BY <1>4
  <2>4. QED BY <1>1, <1>4, <2>2, <2>3
<1>6. ASSUME total + 1 <= q PROVE FALSE
  <2>1. PICK k \in Nat : q = total + 1 + k
    BY <1>4, <1>6
  <2>2. slices * q = total * slices + slices + slices * k /\ slices * k \in Nat
    BY <2>1
  <2>3. total * slices \in Nat
    OBVIOUS
  <2>4. QED BY <1>1, <1>4, <2>2, <2>3
<1>7. q = total
  BY <1>4, <1>5, <1>6
<1>8. QED BY <1>1, <1>3, <1>7

\* What a schedule has left to cut begins where the last slice ended, and the last
\* one ends at the total.
LEMMA SliceReachesCut ==
  ASSUME NEW s, s.total \in Nat, s.slices \in Nat \ {0}, s.released \in Nat,
         s.released < s.slices
  PROVE  /\ Cut(s, s.released) \in Int
         /\ Cut(s, s.released) + SliceUnits(s) = Cut(s, s.released + 1)
<1> DEFINE total == s.total
           slices == s.slices
           k == s.released
<1>1. total \in Nat /\ slices \in Nat \ {0} /\ k \in Nat /\ k < slices
  OBVIOUS
<1>2. /\ SliceUnits(s) = IF k + 1 = slices THEN total - (total * k) \div slices
                         ELSE (total * (k + 1)) \div slices - (total * k) \div slices
      /\ Cut(s, s.released) = (total * k) \div slices
      /\ Cut(s, s.released + 1) = (total * (k + 1)) \div slices
  BY DEF SliceUnits, Cut
<1> HIDE DEF total, slices, k
<1>3. total * k \in Nat /\ total * (k + 1) \in Nat /\ total * slices \in Nat
  BY <1>1
<1>4. (total * k) \div slices \in Nat /\ (total * (k + 1)) \div slices \in Nat
  BY <1>1, <1>3, DivBounds
<1>5. (total * slices) \div slices = total
  BY <1>1, WholeIsCut
<1>6. k + 1 = slices => (total * (k + 1)) \div slices = total
  BY <1>5
<1>7. PICK q, r : q = (total * k) \div slices /\ r = (total * (k + 1)) \div slices
  OBVIOUS
<1>8. /\ SliceUnits(s) = IF k + 1 = slices THEN total - q ELSE r - q
      /\ Cut(s, s.released) = q /\ Cut(s, s.released + 1) = r
      /\ q \in Nat /\ r \in Nat /\ (k + 1 = slices => r = total)
  BY <1>2, <1>4, <1>6, <1>7
<1>9. QED BY ONLY <1>1, <1>8

\* With a unit for each slice, none is empty.
LEMMA SliceNotEmpty ==
  ASSUME NEW s, s.total \in Nat, s.slices \in Nat \ {0}, s.released \in Nat,
         s.released < s.slices, s.slices <= s.total
  PROVE  SliceUnits(s) > 0
<1> DEFINE total == s.total
           slices == s.slices
           k == s.released
<1>1. total \in Nat /\ slices \in Nat \ {0} /\ k \in Nat /\ k < slices /\ slices <= total
  OBVIOUS
<1>2. /\ Cut(s, s.released) = (total * k) \div slices
      /\ Cut(s, s.released + 1) = (total * (k + 1)) \div slices
      /\ (total * k) \div slices + SliceUnits(s) = (total * (k + 1)) \div slices
  BY SliceReachesCut DEF Cut
<1>3. SliceUnits(s) \in Nat
  BY SliceUnitsNat
<1> HIDE DEF total, slices, k
<1>4. PICK a, b : a = total * k /\ b = total * (k + 1)
  OBVIOUS
<1>5. a \in Nat /\ b \in Nat /\ a + slices <= b
  <2>1. b = a + total
    BY <1>1, <1>4
  <2>2. a \in Nat
    BY <1>1, <1>4
  <2>3. QED BY <1>1, <2>1, <2>2
<1>6. PICK q, r : q = a \div slices /\ r = b \div slices
  OBVIOUS
<1>7. /\ q \in Nat /\ slices * q <= a
      /\ r \in Nat /\ b < slices * r + slices
  BY <1>1, <1>5, <1>6, DivBounds
<1>8. q # r
  <2>1. slices * q \in Nat /\ slices * r \in Nat
    BY <1>1, <1>7
  <2>2. QED BY <1>1, <1>5, <1>7, <2>1
<1>9. QED BY <1>2, <1>3, <1>4, <1>6, <1>8
-----------------------------------------------------------------------------
(* The carving of a plan *)

\* What a schedule keeps of its plan, and what its slices have cut off it so far.
Carved(a) ==
  /\ planned[a] \in Menu /\ planned[a].slices # 0 /\ planned[a].total > 0
  /\ ReleasedCount(a) \in Nat /\ UnitsOut(a) = Cut(planned[a], ReleasedCount(a))
  /\ IF a \in DOMAIN schedules
     THEN /\ schedules[a].total = planned[a].total /\ schedules[a].slices = planned[a].slices
          /\ schedules[a].released = ReleasedCount(a)
          /\ completed[a] = 0 /\ (a \notin stopped => schedules[a].active)
     ELSE completed[a] = 1 /\ (a \notin stopped => ReleasedCount(a) = planned[a].slices)

\* A slice is a market order of its own.
SliceTerms(i) == PlainMarket(orders[i]) /\ orders[i].qty = "Units"

CarveInv ==
  /\ DOMAIN completed = DOMAIN planned
  /\ \A a \in DOMAIN planned : Carved(a)
  /\ \A i \in DOMAIN algoOf : SliceTerms(i)
  /\ releasedAt \in -1..idx

\* A plan of the menu, typed.
LEMMA PlannedTypes ==
  ASSUME TypeInv, NEW a, Carved(a)
  PROVE  /\ planned[a] \in Plan
         /\ planned[a].total \in Nat \ {0} /\ planned[a].slices \in Nat \ {0}
<1>1. planned[a] \in Plan
  BY PlanTypes DEF Carved
<1>2. QED BY <1>1 DEF Carved, Plan

\* A schedule's slices are finitely many orders.
LEMMA SlicesAreFinite ==
  ASSUME TypeInv, RegistryInv, NEW a
  PROVE  /\ IsFiniteSet(SlicesOf(a)) /\ SlicesOf(a) \subseteq DOMAIN orders
         /\ [i \in SlicesOf(a) |-> orders[i].units] \in [SlicesOf(a) -> Int]
<1>1. nextId \in Nat /\ DOMAIN orders = 0..(nextId - 1)
      /\ \A i \in DOMAIN orders : orders[i].units \in Int
  BY ConfigTypes DEF TypeInv, TypeOK, BookOK, Order
<1>2. IsFiniteSet(0..(nextId - 1))
  <2>1. 0 \in Int /\ nextId - 1 \in Int
    BY <1>1
  <2>2. QED BY ONLY <2>1, FS_Interval
<1>3. SlicesOf(a) \subseteq DOMAIN orders
  BY DEF SlicesOf, RegistryInv
<1>4. IsFiniteSet(SlicesOf(a))
  BY <1>1, <1>2, <1>3, FS_Subset
<1>5. QED BY <1>1, <1>3, <1>4

\* Nothing changes what a slice asked for: market orders are not resized.
LEMMA MarketKeepsSize ==
  ASSUME TypeInv, [Next]_vars, NEW i \in DOMAIN orders, PlainMarket(orders[i])
  PROVE  /\ i \in DOMAIN orders' /\ PlainMarket(orders'[i])
         /\ orders'[i].qty = orders[i].qty /\ orders'[i].units = orders[i].units
<1>1. i \in DOMAIN orders' /\ Traced(orders[i], orders'[i])
  BY StepTraces
<1>2. PlainMarket(orders'[i])
  BY <1>1 DEF Traced, PlainMarket
<1>3. \A j \in DOMAIN orders : orders[j] \in Order
  BY DEF TypeInv, TypeOK, BookOK
<1>4. orders'[i].qty = orders[i].qty /\ orders'[i].units = orders[i].units
  <2>1. CASE UNCHANGED orders
    BY <2>1
  <2>2. CASE Strategy
    <3>1. ASSUME NEW t, NEW parent, NEW stamp, Submit(t, parent, stamp)
          PROVE  orders'[i] = orders[i]
      <4>1. i # nextId
        BY ConfigTypes DEF TypeInv, TypeOK, BookOK
      <4>2. QED BY <3>1, <4>1 DEF Submit
    <3>2. ASSUME NEW j \in DOMAIN orders, NEW units, Modify(j, units)
          PROVE  orders'[i] = orders[i]
      BY <3>2 DEF Modify, PlainMarket
    <3>3. ASSUME NEW group \in SUBSET DOMAIN orders, LinkOco(group)
          PROVE  orders'[i].qty = orders[i].qty /\ orders'[i].units = orders[i].units
      <4>1. orders[i] \in Order
        BY <1>3
      <4>2. QED BY <3>3, <4>1 DEF LinkOco, Order
    <3>4. ASSUME NEW ids, Cancel(ids)
          PROVE  orders'[i].qty = orders[i].qty /\ orders'[i].units = orders[i].units
      <4>1. SameFills(orders[i], CancelWorking(orders[i]))
        BY <1>3, CancelWorkingOrder
      <4>2. QED BY <3>4, <4>1 DEF Cancel, SameFills, SameTerms
    <3>5. CASE (\E p : RequestClose(p)) \/ ObserveEquity \/ HaltMargin
      BY <3>5 DEF RequestClose, ObserveEquity, HaltMargin, bookVars
    <3>6. QED BY <2>2, <3>1, <3>2, <3>3, <3>4, <3>5 DEF Strategy
  <2>3. ASSUME NEW k \in DOMAIN orders, FillOrder(k)
        PROVE  orders'[i].qty = orders[i].qty /\ orders'[i].units = orders[i].units
    BY <2>3, FillBooked DEF Booked, SameTerms
  <2>5. ASSUME NEW k \in DOMAIN orders, AnnounceVerdict(k)
        PROVE  orders'[i].qty = orders[i].qty /\ orders'[i].units = orders[i].units
    <3>1. verdicts[k] \in DOMAIN Announced
      BY <2>5 DEF AnnounceVerdict, Due, Pending, TypeInv, TypeOK, StepOK, Verdicts, Announced
    <3>2. Announced[verdicts[k]] \in Notices
      BY <3>1 DEF Announced, Notices
    <3>3. orders'[i] = IF i = k THEN Note(orders[i], Announced[verdicts[k]]) ELSE orders[i]
      BY <2>5 DEF AnnounceVerdict
    <3>4. QED BY <1>3, <3>2, <3>3, NoteOrder DEF SameFills, SameTerms
  <2>6. ASSUME NEW reach, Match(reach)
        PROVE  orders'[i].qty = orders[i].qty /\ orders'[i].units = orders[i].units
    <3>1. orders'[i] = AfterVerdict(orders[i], verdicts'[i])
      BY <2>6 DEF Match
    <3>2. SameFills(orders[i], orders'[i])
      BY <1>3, <3>1, AfterVerdictOrder
    <3>3. QED BY <3>2 DEF SameFills, SameTerms
  <2>7. CASE SettleExpiry
    <3>1. orders'[i] = CancelWorking(orders[i])
      BY <2>7 DEF SettleExpiry
    <3>2. QED BY <1>3, <3>1, CancelWorkingOrder DEF SameFills, SameTerms
  <2>8. CASE StartSweep
    <3>1. orders'[i] = orders[i] \/ orders'[i] = Acknowledged(orders[i])
      BY <2>8 DEF StartSweep
    <3>2. QED BY <1>3, <3>1, AcknowledgedOrder DEF SameFills, SameTerms
  <2>9. CASE StartEvent
    BY <2>9 DEF StartEvent, StepQuote, BeginStep, bookVars
  <2>10. CASE FillIntents \/ EndMatch \/ StashEntry \/ BarredEntry \/ NoEntry \/ EndStep
    BY <2>10 DEF FillIntents, EndMatch, StashEntry, BarredEntry, NoEntry, EndStep, bookVars
  <2>11. ASSUME NEW x, Exits(x) \/ MarginCheck(x) \/ EnterOnSignal(x)
         PROVE  UNCHANGED orders
    BY <2>11 DEF Exits, MarginCheck, EnterOnSignal, bookVars
  <2>12. QED
    BY <2>1, <2>2, <2>3, <2>5, <2>6, <2>7, <2>8, <2>9, <2>10, <2>11
    DEF Next, Market, Step, vars, bookVars
<1>5. QED BY <1>1, <1>2, <1>4

\* Where the slices, the registry and the plans stay, so does the carving.
LEMMA CarvingStays ==
  ASSUME TypeInv, RegistryInv, CarveInv, [Next]_vars, UNCHANGED twapVars
  PROVE  CarveInv'
<1>1. \A i \in DOMAIN algoOf :
        /\ i \in DOMAIN orders /\ SliceTerms(i)'
        /\ orders'[i].units = orders[i].units
  BY MarketKeepsSize DEF CarveInv, SliceTerms, RegistryInv
<1>2. \A a : SlicesOf(a)' = SlicesOf(a) /\ SlicesOf(a) \subseteq DOMAIN algoOf
  BY DEF SlicesOf, twapVars
<1>3. \A a : [i \in SlicesOf(a) |-> orders'[i].units] = [i \in SlicesOf(a) |-> orders[i].units]
  BY <1>1, <1>2
<1>4. \A a : UnitsOut(a)' = UnitsOut(a) /\ ReleasedCount(a)' = ReleasedCount(a)
  BY <1>2, <1>3 DEF UnitsOut, ReleasedCount
<1>5. Menu' = Menu
  BY RunIsFixed DEF Menu
<1>6. \A a : Carved(a)' <=> Carved(a)
  BY <1>4, <1>5 DEF Carved, twapVars
<1>7. releasedAt' \in -1..idx'
  <2>1. idx \in Nat /\ (idx' = idx \/ idx' = idx + 1)
    BY ClockMoves, ConfigTypes DEF TypeInv, TypeOK, ClockOK
  <2>2. QED BY <2>1 DEF CarveInv, twapVars
<1>8. QED BY <1>1, <1>6, <1>7 DEF CarveInv, twapVars
\* A new schedule has cut nothing of its plan.
LEMMA SubmitCarves ==
  ASSUME TypeInv, RegistryInv, CarveInv, NEW p \in Menu, SubmitTwap(p)
  PROVE  CarveInv'
<1> PICK a0 : a0 = nextAlgo
  OBVIOUS
<1>1. /\ DOMAIN planned = 0..(nextAlgo - 1) /\ nextAlgo \in Nat
      /\ UNCHANGED <<vars, algoOf, releasedAt, stopped>>
      /\ p \in Plan /\ p.slices # 0 /\ p.total > 0
  BY PlanTypes DEF SubmitTwap, RegistryInv
<1>2. UNCHANGED <<run, orders, idx>>
  BY <1>1 DEF vars, bookVars, clockVars
<1>3. /\ DOMAIN planned' = DOMAIN planned \cup {a0} /\ a0 \notin DOMAIN planned
      /\ DOMAIN completed' = DOMAIN planned' /\ a0 \notin DOMAIN schedules
      /\ planned'[a0] = p /\ completed'[a0] = 0 /\ a0 \in DOMAIN schedules'
      /\ \A a \in DOMAIN planned :
           /\ planned'[a] = planned[a] /\ completed'[a] = completed[a]
           /\ a \in DOMAIN schedules' <=> a \in DOMAIN schedules
      /\ \A a \in DOMAIN schedules : schedules'[a] = schedules[a]
  BY <1>1 DEF SubmitTwap, RegistryInv
<1>4. schedules'[a0] = [side |-> p.side, reduceOnly |-> p.reduceOnly, total |-> p.total,
                        slices |-> p.slices, every |-> p.every, nextRelease |-> now,
                        released |-> 0, active |-> TRUE]
  BY <1>3 DEF SubmitTwap
<1>5. \A a : SlicesOf(a)' = SlicesOf(a)
  BY <1>1 DEF SlicesOf
<1>6. \A a : UnitsOut(a)' = UnitsOut(a) /\ ReleasedCount(a)' = ReleasedCount(a)
  BY <1>2, <1>5 DEF UnitsOut, ReleasedCount
<1>7. Menu' = Menu
  BY <1>2 DEF Menu
<1>8. SlicesOf(a0) = {}
  BY <1>3 DEF SlicesOf, RegistryInv
<1>9. ReleasedCount(a0) = 0 /\ UnitsOut(a0) = 0
  <2>1. PICK f : f = [i \in {} |-> orders[i].units]
    OBVIOUS
  <2>2. f \in [{} -> Int]
    BY <2>1
  <2>3. SumFunction(f) = 0
    BY <2>2, SumOfNone
  <2>4. QED BY <1>8, <2>1, <2>3, FS_EmptySet DEF ReleasedCount, UnitsOut
<1>10. Cut(p, 0) = 0
  <2>1. p.total * 0 = 0 /\ p.slices \in Nat \ {0}
    BY <1>1 DEF Plan
  <2>2. 0 \div p.slices = 0
    BY <2>1
  <2>3. QED BY <2>1, <2>2 DEF Cut
<1>11. Carved(a0)'
  BY <1>1, <1>3, <1>4, <1>6, <1>7, <1>9, <1>10 DEF Carved
<1>12. ASSUME NEW a \in DOMAIN planned PROVE Carved(a)'
  <2>1. Carved(a)
    BY DEF CarveInv
  <2>2. QED BY <1>1, <1>3, <1>6, <1>7, <2>1 DEF Carved
<1>13. \A i \in DOMAIN algoOf' : SliceTerms(i)'
  BY <1>1, <1>2 DEF CarveInv, SliceTerms
<1>14. QED BY <1>1, <1>2, <1>3, <1>11, <1>12, <1>13 DEF CarveInv

\* Stopping a schedule cuts nothing more, and cancels without resizing.
LEMMA CancelCarves ==
  ASSUME TypeInv, RegistryInv, CarveInv, NEW a0 \in DOMAIN schedules, CancelTwap(a0)
  PROVE  CarveInv'
<1>1. /\ UNCHANGED <<run, idx, algoOf, planned, completed, releasedAt>>
      /\ stopped' = stopped \cup {a0}
      /\ DOMAIN orders' = DOMAIN orders
      /\ \A i \in DOMAIN orders :
           orders'[i] = IF i \in SlicesOf(a0) THEN CancelWorking(orders[i]) ELSE orders[i]
  BY DEF CancelTwap, clockVars
<1>2. ASSUME NEW i \in DOMAIN orders
      PROVE  SameFills(orders[i], orders'[i])
  <2>1. orders[i] \in Order
    BY DEF TypeInv, TypeOK, BookOK
  <2>2. QED BY <1>1, <2>1, CancelWorkingOrder, SameFillsReflexive
<1>3. \A i \in DOMAIN algoOf :
        i \in DOMAIN orders /\ SliceTerms(i)' /\ orders'[i].units = orders[i].units
  BY <1>1, <1>2 DEF CarveInv, SliceTerms, PlainMarket, SameFills, SameTerms, RegistryInv
<1>4. \A a : SlicesOf(a)' = SlicesOf(a) /\ SlicesOf(a) \subseteq DOMAIN algoOf
  BY <1>1 DEF SlicesOf
<1>5. \A a : [i \in SlicesOf(a) |-> orders'[i].units] = [i \in SlicesOf(a) |-> orders[i].units]
  BY <1>3, <1>4
<1>6. \A a : UnitsOut(a)' = UnitsOut(a) /\ ReleasedCount(a)' = ReleasedCount(a)
  BY <1>4, <1>5 DEF UnitsOut, ReleasedCount
<1>7. Menu' = Menu
  BY <1>1 DEF Menu
<1>8. /\ DOMAIN schedules' = DOMAIN schedules
      /\ schedules'[a0] = [schedules[a0] EXCEPT !.active = FALSE]
      /\ \A a \in DOMAIN schedules \ {a0} : schedules'[a] = schedules[a]
  BY DEF CancelTwap
<1>9. ASSUME NEW a \in DOMAIN schedules
      PROVE  /\ schedules'[a].total = schedules[a].total
             /\ schedules'[a].slices = schedules[a].slices
             /\ schedules'[a].released = schedules[a].released
             /\ a \notin stopped' => schedules'[a].active = schedules[a].active
  <2>1. schedules[a] \in AlgoSchedule
    BY DEF RegistryInv, ScheduleOK
  <2>2. QED BY <1>1, <1>8, <2>1 DEF AlgoSchedule
<1>10. ASSUME NEW a \in DOMAIN planned PROVE Carved(a)'
  <2>1. Carved(a)
    BY DEF CarveInv
  <2>2. CASE a \in DOMAIN schedules
    BY <1>1, <1>6, <1>7, <1>8, <1>9, <2>1, <2>2 DEF Carved
  <2>3. CASE a \notin DOMAIN schedules
    BY <1>1, <1>6, <1>7, <1>8, <2>1, <2>3 DEF Carved
  <2>4. QED BY <2>2, <2>3
<1>11. QED BY <1>1, <1>3, <1>10 DEF CarveInv

\* The slice that a schedule due is given, and what the schedule has left.
LEMMA NewSlice ==
  ASSUME TwapInv, NEW sent \in Releases, ReleaseSlices(sent), NEW a \in DueSchedules
  PROVE  \E k \in SliceIds :
           /\ SlicesOf(a)' = SlicesOf(a) \cup {k} /\ k \notin SlicesOf(a)
           /\ orders'[k] = SliceOrder(schedules[a])
<1>1. PICK k \in SliceIds : SlicesOf(a)' = SlicesOf(a) \cup {k}
  BY ReleasedSlices
<1>2. /\ k \notin DOMAIN orders /\ SlicesOf(a) \subseteq DOMAIN orders
      /\ DOMAIN orders' = DOMAIN orders \cup SliceIds
  BY ReleasedOrders, ReleasedSlices
<1>3. sent[k] = a
  <2>1. k \in SlicesOf(a)'
    BY <1>1
  <2>2. k \in DOMAIN algoOf' /\ algoOf'[k] = a
    BY <2>1 DEF SlicesOf
  <2>3. algoOf' = [i \in DOMAIN algoOf \cup SliceIds |->
                     IF i \in SliceIds THEN sent[i] ELSE algoOf[i]]
    BY DEF ReleaseSlices
  <2>4. QED BY <2>2, <2>3
<1>4. orders'[k] = SliceOrder(schedules[sent[k]])
  <2>1. orders' = [i \in DOMAIN orders \cup SliceIds |->
                  IF i \in DOMAIN orders THEN orders[i]
                  ELSE SliceOrder(schedules[sent[i]])]
    BY DEF ReleaseSlices
  <2>2. QED BY <1>2, <2>1
<1>5. QED BY <1>1, <1>2, <1>3, <1>4

\* What a released order is, whichever schedule sent it.
LEMMA SliceIsMarket ==
  ASSUME TwapInv, NEW sent \in Releases, ReleaseSlices(sent), NEW i \in SliceIds
  PROVE  /\ i \in DOMAIN algoOf' /\ sent[i] \in DueSchedules
         /\ algoOf'[i] = sent[i] /\ orders'[i] = SliceOrder(schedules[sent[i]])
<1>1. i \notin DOMAIN orders /\ sent[i] \in DueSchedules
  BY ReleasedOrders
<1>2. algoOf' = [j \in DOMAIN algoOf \cup SliceIds |->
                   IF j \in SliceIds THEN sent[j] ELSE algoOf[j]]
  BY DEF ReleaseSlices
<1>3. orders' = [j \in DOMAIN orders \cup SliceIds |->
                   IF j \in DOMAIN orders THEN orders[j] ELSE SliceOrder(schedules[sent[j]])]
  BY DEF ReleaseSlices
<1>4. QED BY <1>1, <1>2, <1>3

\* A slice released brings the schedule that was due to its next boundary.
LEMMA NextBoundary ==
  ASSUME TwapInv, CarveInv, NEW sent \in Releases, ReleaseSlices(sent), NEW a \in DueSchedules
  PROVE  /\ ReleasedCount(a) \in Nat /\ ReleasedCount(a) < planned[a].slices
         /\ ReleasedCount(a)' = ReleasedCount(a) + 1
         /\ UnitsOut(a)' = Cut(planned[a], ReleasedCount(a) + 1)
<1>1. /\ TypeInv /\ RegistryInv /\ a \in DOMAIN schedules /\ a \in DOMAIN planned
      /\ ScheduleOK(schedules[a]) /\ Carved(a)
  BY DEF TwapInv, DueSchedules, RegistryInv, CarveInv
<1>2. PICK s, n : s = schedules[a] /\ n = ReleasedCount(a)
  OBVIOUS
<1>3. /\ s.total \in Nat /\ s.slices \in Nat \ {0} /\ s.released = n /\ n \in Nat
      /\ n < s.slices /\ s.slices = planned[a].slices /\ s.total = planned[a].total
      /\ UnitsOut(a) = Cut(planned[a], n)
  BY <1>1, <1>2 DEF Carved, ScheduleOK, AlgoSchedule
<1>4. \A k : Cut(planned[a], k) = Cut(s, k)
  BY <1>3 DEF Cut
<1>5. Cut(s, n) \in Int /\ Cut(s, n) + SliceUnits(s) = Cut(s, n + 1)
  BY <1>3, SliceReachesCut
<1>6. PICK k \in SliceIds :
        /\ SlicesOf(a)' = SlicesOf(a) \cup {k} /\ k \notin SlicesOf(a)
        /\ orders'[k] = SliceOrder(s)
  BY <1>2, NewSlice
<1>7. PICK D : D = SlicesOf(a)
  OBVIOUS
<1>8. PICK f : f = [i \in D |-> orders[i].units]
  OBVIOUS
<1>9. PICK E : E = D \cup {k}
  OBVIOUS
<1>10. PICK h : h = [i \in E |-> orders'[i].units]
  OBVIOUS
<1>11. IsFiniteSet(D) /\ f \in [D -> Int] /\ D \subseteq DOMAIN orders /\ k \notin D
  BY <1>1, <1>6, <1>7, <1>8, SlicesAreFinite
<1>12. orders'[k].units = SliceUnits(s) /\ SliceUnits(s) \in Int
  BY <1>3, <1>6, SliceUnitsNat DEF SliceOrder
<1>13. \A i \in D : orders'[i] = orders[i]
  BY <1>11, ReleasedOrders
<1>14. h \in [E -> Int] /\ h[k] = SliceUnits(s) /\ \A i \in D : h[i] = f[i]
  BY <1>8, <1>9, <1>10, <1>11, <1>12, <1>13
<1>15. SumFunction(h) = SumFunction(f) + h[k]
  BY <1>9, <1>11, <1>14, SumExtends
<1>16. UnitsOut(a) = SumFunction(f)
  BY <1>7, <1>8 DEF UnitsOut
<1>17. UnitsOut(a)' = SumFunction(h)
  BY <1>6, <1>7, <1>9, <1>10 DEF UnitsOut
<1>18. ReleasedCount(a)' = n + 1
  <2>1. Cardinality(E) = Cardinality(D) + 1
    BY <1>9, <1>11, FS_AddElement
  <2>2. QED BY <1>2, <1>6, <1>7, <1>9, <2>1 DEF ReleasedCount
<1>19. QED BY <1>2, <1>3, <1>4, <1>5, <1>14, <1>15, <1>16, <1>17, <1>18
\* A release leaves every plan carved: a schedule that was due is a slice further,
\* and one that was drained has cut the whole of it, or was stopped.
LEMMA ReleaseCarves ==
  ASSUME TwapInv, CarveInv, NEW sent \in Releases, ReleaseSlices(sent)
  PROVE  CarveInv'
<1>1. /\ TypeInv /\ RegistryInv
      /\ UNCHANGED <<run, idx, planned, stopped>> /\ releasedAt' = idx /\ idx \in Nat
      /\ schedules' = [a \in DOMAIN schedules \ Drained |-> Stepped(a)]
      /\ completed' = [a \in DOMAIN completed |->
                         IF a \in DOMAIN schedules /\ IsDrained(Stepped(a))
                         THEN completed[a] + 1 ELSE completed[a]]
  BY ConfigTypes DEF TwapInv, ReleaseSlices, clockVars, TypeInv, TypeOK, ClockOK
<1>2. Menu' = Menu
  BY <1>1 DEF Menu
<1>3. ASSUME NEW i \in DOMAIN algoOf'
      PROVE  SliceTerms(i)'
  <2>1. CASE i \in SliceIds
    <3>1. PICK s : s = schedules[sent[i]]
      OBVIOUS
    <3>2. orders'[i] = SliceOrder(s)
      BY <2>1, <3>1, SliceIsMarket
    <3>3. /\ orders'[i].kind = "Market" /\ orders'[i].parent = NoOrder
          /\ orders'[i].tif = "Gtc" /\ orders'[i].qty = "Units"
      BY <3>2 DEF SliceOrder
    <3>4. QED BY <3>3 DEF SliceTerms, PlainMarket, AtPhase
  <2>2. CASE i \notin SliceIds
    <3>1. i \in DOMAIN algoOf
      BY <1>3, <2>2 DEF ReleaseSlices
    <3>2. i \in DOMAIN orders
      BY <1>1, <3>1 DEF RegistryInv
    <3>3. orders'[i] = orders[i]
      BY <3>2, ReleasedOrders
    <3>4. QED BY <3>1, <3>3 DEF CarveInv, SliceTerms
  <2>3. QED BY <2>1, <2>2
<1>4. ASSUME NEW a \in DOMAIN planned, a \notin DueSchedules
      PROVE  UnitsOut(a)' = UnitsOut(a) /\ ReleasedCount(a)' = ReleasedCount(a)
  <2>1. SlicesOf(a)' = SlicesOf(a) /\ SlicesOf(a) \subseteq DOMAIN orders
    BY <1>4, ReleasedSlices
  <2>2. [i \in SlicesOf(a) |-> orders'[i].units] = [i \in SlicesOf(a) |-> orders[i].units]
    BY <2>1, ReleasedOrders
  <2>3. QED BY <2>1, <2>2 DEF UnitsOut, ReleasedCount
<1>5. ASSUME NEW a \in DOMAIN planned
      PROVE  Carved(a)'
  <2>1. Carved(a) /\ a \in DOMAIN completed
    BY DEF CarveInv
  <2>2. CASE a \notin DOMAIN schedules
    <3>1. a \notin DueSchedules
      BY <2>2 DEF DueSchedules
    <3>2. UnitsOut(a)' = UnitsOut(a) /\ ReleasedCount(a)' = ReleasedCount(a)
      BY <1>4, <3>1
    <3>3. completed'[a] = completed[a] /\ a \notin DOMAIN schedules'
      BY <1>1, <2>1, <2>2
    <3>4. QED BY <1>1, <1>2, <2>1, <2>2, <3>2, <3>3 DEF Carved
  <2>3. CASE a \in DOMAIN schedules
    <3>1. PICK s, t : s = schedules[a] /\ t = Stepped(a)
      OBVIOUS
    <3>2. /\ s \in AlgoSchedule /\ s.total = planned[a].total /\ s.slices = planned[a].slices
          /\ s.released = ReleasedCount(a) /\ s.released < s.slices
          /\ completed[a] = 0 /\ (a \notin stopped => s.active)
      BY <1>1, <2>1, <2>3, <3>1 DEF Carved, RegistryInv, ScheduleOK
    <3>3. /\ ReleasedCount(a)' = t.released
          /\ UnitsOut(a)' = Cut(planned[a], t.released)
          /\ t.released \in Nat /\ t.released <= t.slices
          /\ t.total = s.total /\ t.slices = s.slices /\ t.active = s.active
      <4>1. CASE a \in DueSchedules
        <5>1. t = AfterRelease(s)
          BY <3>1, <4>1 DEF Stepped
        <5>2. /\ t.released = s.released + 1
              /\ t.total = s.total /\ t.slices = s.slices /\ t.active = s.active
          BY <3>2, <5>1 DEF AfterRelease, AlgoSchedule
        <5>3. s.released \in Nat /\ s.slices \in Nat
          BY <3>2 DEF AlgoSchedule
        <5>4. /\ ReleasedCount(a)' = s.released + 1
              /\ UnitsOut(a)' = Cut(planned[a], s.released + 1)
          BY <3>2, <4>1, NextBoundary
        <5>5. QED BY <3>2, <5>2, <5>3, <5>4
      <4>2. CASE a \notin DueSchedules
        <5>1. t = s
          BY <3>1, <4>2 DEF Stepped
        <5>2. QED BY <1>4, <2>1, <3>2, <4>2, <5>1 DEF Carved, AlgoSchedule
      <4>3. QED BY <4>1, <4>2
    <3>4. CASE IsDrained(t)
      <4>1. completed'[a] = 1 /\ a \notin DOMAIN schedules'
        BY <1>1, <2>1, <2>3, <3>1, <3>2, <3>4 DEF Drained
      <4>2. a \notin stopped => t.released = t.slices
        <5>1. t.slices \in Nat
          BY <3>2, <3>3 DEF AlgoSchedule
        <5>2. QED BY <3>2, <3>3, <3>4, <5>1 DEF IsDrained, IsComplete
      <4>3. QED BY <1>1, <1>2, <2>1, <3>2, <3>3, <4>1, <4>2 DEF Carved
    <3>5. CASE ~IsDrained(t)
      <4>1. completed'[a] = 0 /\ a \in DOMAIN schedules' /\ schedules'[a] = t
        BY <1>1, <2>1, <2>3, <3>1, <3>2, <3>5 DEF Drained
      <4>2. QED BY <1>1, <1>2, <2>1, <3>2, <3>3, <4>1 DEF Carved
    <3>6. QED BY <3>4, <3>5
  <2>4. QED BY <2>2, <2>3
<1>6. QED BY <1>1, <1>3, <1>5 DEF CarveInv

-----------------------------------------------------------------------------
(* Slices settle on their step *)

\* Where a slice stands while it works, on bars: unfilled, and either of this event
\* and before or in its sweep, or waiting for the sweep of the next event.
Standing(i) ==
  LET o == orders[i] IN
  /\ o.filled = 0
  /\ NextBarOpen /\ o.status = "Submitted" => o.submittedIdx = idx /\ phase = "sweeping"
  /\ \/ o.submittedIdx = idx /\ phase = "sweeping"
     \/ o.submittedIdx = idx /\ phase = "sweep" /\ (NextBarOpen \/ i \in sweep)
     \/ NextBarOpen /\ o.submittedIdx + 1 = idx /\ (phase = "sweep" => i \in sweep)

SettleInv ==
  /\ TurnInv /\ PicksAreRight
  /\ Modes = {"Bar"} /\ WholeSlices =>
       \A i \in DOMAIN algoOf :
         orders[i].units > 0 /\ (IsLive(orders[i]) => Standing(i))

\* A slice that is filled does not go on working.
LEMMA SliceFillEnds ==
  ASSUME TypeInv, CarveInv, SettleInv, Modes = {"Bar"}, WholeSlices,
         NEW i \in DOMAIN algoOf, i \in DOMAIN orders, FillOrder(i)
  PROVE  ~IsLive(orders'[i])
<1> DEFINE o == orders[i]
<1> SUFFICES ASSUME IsLive(o) PROVE ~IsLive(orders'[i])
  <2>1. StaysEnded(o, orders'[i]) /\ o \in Order
    BY FillBooked DEF Booked, TypeInv, TypeOK, BookOK
  <2>2. QED BY <2>1 DEF StaysEnded, IsLive, Order, Statuses, Working, Terminal
<1>1. /\ o \in Order /\ PlainMarket(o) /\ o.qty = "Units" /\ o.units > 0 /\ Standing(i)
      /\ TurnInv /\ PicksAreRight
  BY DEF CarveInv, SliceTerms, SettleInv, TypeInv, TypeOK, BookOK
<1>2. phase = "sweep"
  BY <1>1, FillPicks DEF PicksAreRight
<1>3. bar.mode = "Bar"
  BY <1>1, <1>2 DEF TurnInv
<1>4. IsLive(Presented(i)) /\ Presented(i).status # "Submitted"
  <2>1. CASE NextBarOpen
    BY <1>1, <1>2, <1>3, <2>1 DEF Presented, Defers, Standing
  <2>2. CASE ~NextBarOpen /\ o.status = "Submitted"
    <3>1. Presented(i) = Acknowledged(o)
      BY <1>2, <2>2 DEF Presented, Defers
    <3>2. Presented(i).status = "Accepted"
      BY <1>1, <2>2, <3>1, AcknowledgedStatus
    <3>3. QED BY <3>2 DEF IsLive, Working
  <2>3. CASE ~NextBarOpen /\ o.status # "Submitted"
    BY <2>3 DEF Presented
  <2>4. QED BY <2>1, <2>2, <2>3
<1>5. Untraded(o)
  <2>1. Lots(o.units) = o.units
    <3>1. LotSize = 1 /\ o.units \in Nat
      BY <1>1 DEF WholeSlices, Order
    <3>2. QED BY <3>1 DEF Lots
  <2>2. QED BY <1>1, <2>1 DEF Untraded, WholeUnits, Standing
<1>6. ~PassedOver(Presented(i))
  <2>1. Presented(i).kind = o.kind
    BY PresentedOrder DEF SameFills, SameTerms, TypeInv, TypeOK
  <2>2. QED BY <1>1, <2>1 DEF PassedOver, IsLimitFill, PlainMarket
<1>7. QED BY <1>1, <1>4, <1>5, <1>6, WholeFillEnds
\* A kernel's step keeps the slices that still work where they should stand.
LEMMA StandingStays ==
  ASSUME TypeInv, RegistryInv, CarveInv, SettleInv, [Next]_vars,
         Modes = {"Bar"}, WholeSlices, NEW i \in DOMAIN algoOf, IsLive(orders'[i])
  PROVE  IsLive(orders[i]) /\ Standing(i)'
<1> DEFINE o == orders[i]
           q == orders'[i]
<1>1. /\ i \in DOMAIN orders /\ o \in Order /\ Traced(o, q) /\ IsLive(o)
      /\ PlainMarket(o) /\ idx \in Nat /\ idx + 1 # idx
  <2>1. i \in DOMAIN orders /\ o \in Order /\ idx \in Nat /\ PlainMarket(o)
    BY ConfigTypes DEF RegistryInv, TypeInv, TypeOK, BookOK, ClockOK, CarveInv, SliceTerms
  <2>2. Traced(o, q)
    BY <2>1, StepTraces
  <2>3. IsLive(o)
    BY <2>1, <2>2
    DEF Traced, StaysEnded, IsLive, Order, Statuses, Working, Terminal
  <2>4. QED BY <2>1, <2>2, <2>3
<1>2. Standing(i) /\ TurnInv /\ PicksAreRight
  BY <1>1 DEF SettleInv
<1>3. ~FillOrder(i)
  BY <1>1, SliceFillEnds
<1>4. phase # "observe" => bar.mode = "Bar" /\ (Defers <=> NextBarOpen)
  BY <1>2 DEF TurnInv, Defers
<1>5. ~StepQuote /\ ~SettleExpiry
  BY <1>1, CanceledEnds DEF StepQuote, SettleExpiry, IsLive, Working, Terminal
<1>6. ~BarredEntry
  <2>1. BarredEntry => phase = "signal" /\ ~Defers
    BY DEF BarredEntry, TriesEntry
  <2>2. phase = "signal" => NextBarOpen
    BY <1>2 DEF Standing
  <2>3. QED BY <1>4, <2>1, <2>2
<1>7. NextBarOpen' = NextBarOpen /\ q.submittedIdx = o.submittedIdx
  BY <1>1, ConfigIsFixed DEF Traced
<1>8. q.filled = 0
  <2>1. CASE BookKept
    BY <1>1, <1>2, <2>1 DEF BookKept, Kept, SameTrade, Standing
  <2>2. ASSUME NEW k \in DOMAIN orders, FillOrder(k)
        PROVE  q.filled = 0
    <3>1. k # i
      BY <1>3, <2>2
    <3>2. QED BY <1>1, <1>2, <2>2, <3>1, FillBooked DEF Booked, SameFills, Standing
  <2>3. QED BY <2>1, <2>2, FillOrQuiet
<1>9. StartSweep =>
        /\ phase = "sweeping" /\ phase' = "sweep" /\ idx' = idx
        /\ sweep' = {j \in DOMAIN orders : Swept(orders[j])}
        /\ NextBarOpen => q.status # "Submitted"
  <2>1. ASSUME StartSweep, NextBarOpen, o.status = "Submitted"
        PROVE  q.status = "Accepted"
    <3>1. o.submittedIdx = idx /\ Defers
      BY <1>2, <1>4, <2>1 DEF Standing, StartSweep
    <3>2. q = Acknowledged(o)
      BY <1>1, <2>1, <3>1 DEF StartSweep
    <3>3. QED BY <1>1, <2>1, <3>2, AcknowledgedStatus
  <2>2. q.status = "Submitted" => o.status = "Submitted"
    BY <1>1 DEF Traced, Begun
  <2>3. StartSweep =>
          /\ phase = "sweeping" /\ phase' = "sweep" /\ idx' = idx
          /\ sweep' = {j \in DOMAIN orders : Swept(orders[j])}
    BY DEF StartSweep, clockVars
  <2>4. QED BY <2>1, <2>2, <2>3
<1>10. CASE phase' = "sweep" /\ phase = "sweep"
  <2>1. idx' = idx
    BY <1>4, <1>5, <1>6, <1>10, ClockMoves DEF EndStep, FinishStep
  <2>2. i \in sweep => i \in sweep'
    BY <1>3, <1>10, SweepWaits
  <2>3. q.status = "Submitted" => o.status = "Submitted"
    BY <1>1 DEF Traced, Begun
  <2>4. QED BY <1>1, <1>2, <1>7, <1>8, <1>10, <2>1, <2>2, <2>3 DEF Standing
<1>11. CASE phase' = "sweep" /\ phase # "sweep"
  <2>1. StartSweep
    BY <1>11, ClockMoves
  <2>2. Swept(o) => i \in sweep'
    BY <1>1, <1>9, <2>1
  <2>3. ~NextBarOpen /\ o.submittedIdx = idx => Swept(o)
    BY <1>1, <1>4, <1>9, <2>1 DEF Swept
  <2>4. NextBarOpen /\ o.submittedIdx + 1 = idx => Swept(o)
    <3>1. o.submittedIdx \in Nat
      BY <1>1 DEF Order
    <3>2. QED BY <1>1, <1>4, <1>9, <2>1, <3>1 DEF Swept
  <2>5. QED BY <1>1, <1>2, <1>7, <1>8, <1>9, <1>11, <2>1, <2>2, <2>3, <2>4 DEF Standing
<1>12. CASE phase' # "sweep" /\ idx' = idx
  <2>1. phase # "sweep"
    BY <1>1, <1>12, ClockMoves DEF EndStep, FinishStep, Advance
  <2>2. phase = "sweeping" => phase' = "sweeping"
    BY <1>5, <1>6, <1>12, PhaseMoves DEF Early, Match, EndMatch, StartSweep, EndStep
  <2>3. q.status = "Submitted" => o.status = "Submitted"
    BY <1>1 DEF Traced, Begun
  <2>4. QED BY <1>1, <1>2, <1>7, <1>8, <1>12, <2>1, <2>2, <2>3 DEF Standing
<1>13. CASE phase' # "sweep" /\ idx' # idx
  <2>1. EndStep
    BY <1>5, <1>6, <1>13, ClockMoves
  <2>2. phase = "sweep" /\ sweep = {} /\ phase' = "observe" /\ idx' = idx + 1
    BY <2>1 DEF EndStep, FinishStep, Advance
  <2>3. NextBarOpen /\ o.submittedIdx = idx /\ o.status # "Submitted"
    BY <1>2, <2>2 DEF Standing
  <2>4. q.status # "Submitted"
    BY <1>1, <2>3 DEF Traced, Begun
  <2>5. QED BY <1>1, <1>7, <1>8, <2>2, <2>3, <2>4 DEF Standing
<1>14. QED BY <1>1, <1>10, <1>11, <1>12, <1>13

(* A slice that waits for its sweep goes on waiting while nothing is swept. *)
LEMMA SettlingStays ==
  ASSUME TypeInv, RegistryInv, CarveInv, SettleInv, [Next]_vars, UNCHANGED twapVars
  PROVE  SettleInv'
<1>1. TurnInv' /\ PicksAreRight'
  BY TurnHolds, PicksStayRight DEF SettleInv
<1>2. Modes' = Modes /\ WholeSlices' = WholeSlices
  BY RunIsFixed, ConfigIsFixed DEF WholeSlices, Menu
<1>3. \A i \in DOMAIN algoOf : orders'[i].units = orders[i].units
  BY MarketKeepsSize DEF CarveInv, SliceTerms, RegistryInv
<1>4. DOMAIN algoOf' = DOMAIN algoOf
  BY DEF twapVars
<1>5. QED BY <1>1, <1>2, <1>3, <1>4, StandingStays DEF SettleInv

\* Between steps nothing is picked, so a registration or a stop leaves it so.
LEMMA IdlePicks ==
  ASSUME TypeInv, TurnInv, PicksAreRight, phase \notin {"apply", "sweep"},
         UNCHANGED <<run, idx, phase, bar, verdicts, sweep>>,
         \A i \in DOMAIN orders' : orders'[i].submittedIdx <= idx
  PROVE  TurnInv' /\ PicksAreRight'
<1>1. sweep' = {} /\ Pending' = {} /\ Modes' = Modes
  BY DEF TurnInv, Pending, Modes
<1>2. TurnInv'
  BY <1>1, NonePicked DEF TurnInv
<1>3. \A i \in DOMAIN verdicts' : verdicts'[i] # "fill"
  BY <1>1 DEF Pending
<1>4. QED BY <1>1, <1>2, <1>3 DEF PicksAreRight

(* Registering a schedule leaves every slice as near to its sweep as it was. *)
LEMMA SubmitSettles ==
  ASSUME TypeInv, RegistryInv, SettleInv, NEW p \in Menu, SubmitTwap(p)
  PROVE  SettleInv'
<1>1. UNCHANGED vars /\ DOMAIN algoOf' = DOMAIN algoOf
  BY DEF SubmitTwap
<1>2. UNCHANGED <<run, orders, idx, phase, bar, verdicts, sweep>>
  BY <1>1 DEF vars, bookVars, clockVars, stepVars
<1>3. phase = "observe" /\ (\A i \in DOMAIN orders : orders[i].submittedIdx <= idx)
  BY DEF SubmitTwap, SettleInv, TurnInv
<1>4. TurnInv' /\ PicksAreRight'
  BY <1>2, <1>3, IdlePicks DEF SettleInv
<1>5. Modes' = Modes /\ WholeSlices' = WholeSlices /\ NextBarOpen' = NextBarOpen
  BY <1>2 DEF Modes, WholeSlices, NextBarOpen, LotSize, Menu
<1>6. \A i : Standing(i)' <=> Standing(i)
  BY <1>2, <1>5 DEF Standing
<1>7. QED BY <1>1, <1>2, <1>4, <1>5, <1>6 DEF SettleInv

(* Stopping a schedule ends its slices and leaves the others as they were. *)
LEMMA CancelSettles ==
  ASSUME TypeInv, RegistryInv, SettleInv, NEW a0 \in DOMAIN schedules, CancelTwap(a0)
  PROVE  SettleInv'
<1>1. /\ UNCHANGED <<run, idx, phase, bar, verdicts, sweep, algoOf>> /\ phase = "observe"
      /\ DOMAIN orders' = DOMAIN orders
      /\ \A i \in DOMAIN orders :
           orders'[i] = IF i \in SlicesOf(a0) THEN CancelWorking(orders[i]) ELSE orders[i]
  BY DEF CancelTwap, clockVars, stepVars
<1>2. ASSUME NEW i \in DOMAIN orders
      PROVE  /\ SameFills(orders[i], orders'[i])
             /\ IsLive(orders'[i]) => orders'[i] = orders[i]
  <2>1. orders[i] \in Order
    BY DEF TypeInv, TypeOK, BookOK
  <2>2. QED BY <1>1, <2>1, CancelWorkingOrder, CanceledIsEnded, SameFillsReflexive
<1>3. \A i \in DOMAIN orders' : orders'[i].submittedIdx <= idx
  BY <1>1, <1>2 DEF SettleInv, TurnInv, SameFills, SameTerms
<1>4. TurnInv' /\ PicksAreRight'
  BY <1>1, <1>3, IdlePicks DEF SettleInv
<1>5. Modes' = Modes /\ WholeSlices' = WholeSlices /\ NextBarOpen' = NextBarOpen
  BY <1>1 DEF Modes, WholeSlices, NextBarOpen, LotSize, Menu
<1>6. ASSUME NEW i \in DOMAIN algoOf
      PROVE  /\ orders'[i].units = orders[i].units
             /\ IsLive(orders'[i]) => IsLive(orders[i]) /\ (Standing(i) => Standing(i)')
  <2>1. i \in DOMAIN orders
    BY DEF RegistryInv
  <2>2. QED BY <1>1, <1>2, <1>5, <2>1 DEF SameFills, SameTerms, Standing
<1>7. QED BY <1>1, <1>4, <1>5, <1>6 DEF SettleInv

\* A slice released has units and comes right before its sweep.
LEMMA ReleaseSettles ==
  ASSUME TwapInv, CarveInv, SettleInv, NEW sent \in Releases, ReleaseSlices(sent)
  PROVE  SettleInv'
<1>1. /\ UNCHANGED <<run, idx, phase, bar, verdicts, sweep>> /\ phase = "sweeping"
      /\ TypeInv /\ RegistryInv /\ idx \in Nat
  BY ConfigTypes DEF ReleaseSlices, clockVars, stepVars, TwapInv, TypeInv, TypeOK, ClockOK
<1>2. /\ DOMAIN orders' = DOMAIN orders \cup SliceIds
      /\ \A i \in DOMAIN orders : orders'[i] = orders[i]
      /\ \A i \in SliceIds :
           /\ orders'[i].submittedIdx = idx /\ orders'[i].filled = 0
           /\ sent[i] \in DueSchedules
           /\ orders'[i].units = SliceUnits(schedules[sent[i]])
  <2>1. ASSUME NEW i \in SliceIds
        PROVE  /\ orders'[i].submittedIdx = idx /\ orders'[i].filled = 0
               /\ sent[i] \in DueSchedules
               /\ orders'[i].units = SliceUnits(schedules[sent[i]])
    <3>1. PICK s : s = schedules[sent[i]]
      OBVIOUS
    <3>2. orders'[i] = SliceOrder(s) /\ sent[i] \in DueSchedules
      BY <3>1, SliceIsMarket
    <3>3. QED BY <3>1, <3>2 DEF SliceOrder
  <2>2. QED BY <2>1, ReleasedOrders
<1>3. \A i \in DOMAIN orders' : orders'[i].submittedIdx <= idx
  BY <1>1, <1>2 DEF SettleInv, TurnInv
<1>4. TurnInv' /\ PicksAreRight'
  BY <1>1, <1>3, IdlePicks DEF SettleInv
<1>5. Modes' = Modes /\ WholeSlices' = WholeSlices /\ NextBarOpen' = NextBarOpen
  BY <1>1 DEF Modes, WholeSlices, NextBarOpen, LotSize, Menu
<1>6. ASSUME WholeSlices, NEW i \in SliceIds
      PROVE  orders'[i].units > 0 /\ Standing(i)'
  <2>1. PICK a, s : a = sent[i] /\ s = schedules[a]
    OBVIOUS
  <2>2. a \in DOMAIN schedules /\ a \in DOMAIN planned /\ ScheduleOK(s) /\ Carved(a)
    BY <1>1, <1>2, <2>1 DEF DueSchedules, RegistryInv, CarveInv
  <2>3. /\ s.total \in Nat /\ s.slices \in Nat \ {0} /\ s.released \in Nat
        /\ s.released < s.slices /\ s.slices <= s.total
    BY <1>6, <2>1, <2>2 DEF ScheduleOK, AlgoSchedule, Carved, WholeSlices
  <2>4. SliceUnits(s) > 0
    BY <2>3, SliceNotEmpty
  <2>5. QED BY <1>1, <1>2, <2>1, <2>4 DEF Standing
<1>7. ASSUME NEW i \in DOMAIN algoOf
      PROVE  orders'[i] = orders[i] /\ (Standing(i) => Standing(i)')
  <2>1. i \in DOMAIN orders
    BY <1>1 DEF RegistryInv
  <2>2. QED BY <1>1, <1>2, <1>5, <2>1 DEF Standing
<1>8. DOMAIN algoOf' = DOMAIN algoOf \cup SliceIds
  BY DEF ReleaseSlices
<1>9. QED BY <1>4, <1>5, <1>6, <1>7, <1>8 DEF SettleInv
-----------------------------------------------------------------------------
(* A plan is kept *)

PlanInv == TwapInv /\ CarveInv /\ SettleInv

\* The invariant says all that the plan's property does.
LEMMA PlanFollows == PlanInv => PlanIsKept
<1> SUFFICES ASSUME PlanInv PROVE PlanIsKept
  OBVIOUS
<1>1. /\ TypeInv /\ RegistryInv /\ CarveInv /\ SettleInv
      /\ \A a \in DOMAIN planned : Carved(a)
  BY DEF PlanInv, TwapInv, CarveInv
<1>2. TwapTypeOK
  <2>1. DOMAIN orders = 0..(nextId - 1) /\ \A i \in DOMAIN orders : orders[i] \in Order
    BY <1>1 DEF TypeInv, TypeOK, BookOK
  <2>2. QED BY <1>1, <2>1 DEF TwapTypeOK, RegistryInv, CarveInv
<1>3. SlicesAddUp
  <2> SUFFICES ASSUME NEW a \in DOMAIN planned
               PROVE  /\ UnitsOut(a) = Cut(planned[a], ReleasedCount(a))
                      /\ a \notin DOMAIN schedules /\ a \notin stopped
                           => UnitsOut(a) = planned[a].total
      BY DEF SlicesAddUp
  <2>1. Carved(a) /\ planned[a].total \in Nat /\ planned[a].slices \in Nat \ {0}
    BY <1>1, PlannedTypes
  <2>2. Cut(planned[a], planned[a].slices) = planned[a].total
    BY <2>1, WholeIsCut DEF Cut
  <2>3. QED BY <2>1, <2>2 DEF Carved
<1>4. CompletedOnce
  BY <1>1 DEF CompletedOnce, Carved
<1>5. SlicesSettle
  <2> SUFFICES ASSUME phase = "observe", Modes = {"Bar"}, WholeSlices, NEW i \in DOMAIN algoOf,
                      IsLive(orders[i])
               PROVE  ~(orders[i].submittedIdx + (IF NextBarOpen THEN 1 ELSE 0) < idx)
      BY DEF SlicesSettle
  <2>1. Standing(i)
    BY <1>1 DEF SettleInv
  <2>2. NextBarOpen /\ orders[i].submittedIdx + 1 = idx
    BY <2>1 DEF Standing
  <2>3. orders[i].submittedIdx \in Nat /\ idx \in Nat
    BY <1>1, ConfigTypes DEF TypeInv, TypeOK, BookOK, ClockOK, Order, RegistryInv
  <2>4. QED BY <2>2, <2>3
<1>6. QED BY <1>2, <1>3, <1>4, <1>5 DEF PlanIsKept

(* Both invariants hold before the first event. *)
LEMMA PlanStart == TwapInit => CarveInv /\ SettleInv
<1> SUFFICES ASSUME TwapInit PROVE CarveInv /\ SettleInv
  OBVIOUS
<1>1. DOMAIN planned = {} /\ DOMAIN completed = {} /\ DOMAIN algoOf = {}
      /\ releasedAt = -1 /\ Init
  BY DEF TwapInit
<1>2. TurnInv /\ idx = 0
  BY <1>1, TurnHolds DEF Init
<1>3. PicksAreRight
  BY <1>1 DEF Init, PicksAreRight
<1>4. -1 \in -1..idx
  BY <1>2
<1>5. QED BY <1>1, <1>2, <1>3, <1>4 DEF CarveInv, SettleInv

(* Every step, of the kernel or of the registry, keeps both invariants. *)
LEMMA PlanStep == TwapInv /\ CarveInv /\ SettleInv /\ [TwapNext]_allVars => CarveInv' /\ SettleInv'
<1> SUFFICES ASSUME TwapInv, CarveInv, SettleInv, [TwapNext]_allVars
             PROVE  CarveInv' /\ SettleInv'
  OBVIOUS
<1>1. TypeInv /\ RegistryInv
  BY DEF TwapInv
<1>2. CASE KernelStep \/ UNCHANGED allVars
  <2>1. [Next]_vars /\ UNCHANGED twapVars
    BY <1>2 DEF KernelStep, allVars
  <2>2. QED BY <1>1, <2>1, CarvingStays, SettlingStays
<1>3. ASSUME NEW p \in Menu, SubmitTwap(p) PROVE CarveInv' /\ SettleInv'
  BY <1>1, <1>3, SubmitCarves, SubmitSettles
<1>4. ASSUME NEW a \in DOMAIN schedules, CancelTwap(a) PROVE CarveInv' /\ SettleInv'
  BY <1>1, <1>4, CancelCarves, CancelSettles
<1>5. ASSUME NEW sent \in Releases, ReleaseSlices(sent) PROVE CarveInv' /\ SettleInv'
  BY <1>5, ReleaseCarves, ReleaseSettles
<1>6. QED BY <1>2, <1>3, <1>4, <1>5 DEF TwapNext

\* The slices cut a plan whole, whichever of them trade: what is out is the plan's
\* share of the slices released, a schedule that ends unstopped has released all of it,
\* it is told complete once, and no whole slice trails the step it came out on
\* (slice_units, drain_completed, release_algo_slices).
THEOREM PlansAreKept == TwapSpec => []PlanIsKept
<1>1. TwapSpec => [](CarveInv /\ SettleInv)
  <2>1. TwapInit => CarveInv /\ SettleInv
    BY PlanStart
  <2>2. TwapInv /\ (CarveInv /\ SettleInv) /\ [TwapNext]_allVars => (CarveInv /\ SettleInv)'
    BY PlanStep
  <2>3. QED BY <2>1, <2>2, SchedulesHold, PTL DEF TwapSpec
<1>2. TwapInv /\ (CarveInv /\ SettleInv) => PlanIsKept
  BY PlanFollows DEF PlanInv
<1>3. QED BY <1>1, <1>2, SchedulesHold, PTL
=============================================================================
