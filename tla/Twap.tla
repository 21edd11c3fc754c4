-------------------------------- MODULE Twap --------------------------------
(***************************************************************************)
(* Execution schedules (src/execution/algos.rs) over one kernel.           *)
(*                                                                         *)
(* A TWAP is no order: it is a plan whose slices the kernel submits as     *)
(* ordinary market orders, at most one per schedule and step, just before  *)
(* the market sweep.  This module composes the registry of schedules with  *)
(* Kernel: the strategy registers and stops schedules between steps, and   *)
(* ReleaseSlices takes its place in the step's `sweeping` phase.           *)
(*                                                                         *)
(* Units are natural numbers and a cut is rounded down, as floating-point  *)
(* cuts are rounded: the parts must add up all the same.                   *)
(***************************************************************************)
EXTENDS KernelProps

CONSTANTS
  Plans   \* per configuration: the schedules the strategy may register, how many,
          \* and how many orders of its own it may submit beside them

Plan ==
  [side: {"Buy", "Sell"}, reduceOnly: BOOLEAN, total: Nat, slices: Nat, every: Nat]

ASSUME PlanAssumption ==
  \A c \in DOMAIN Configs :
    c \in DOMAIN Plans /\ Plans[c] \in [menu: SUBSET Plan, max: Nat, orders: Nat]

VARIABLES
  schedules,    \* AlgoEngine::schedules, by algo id
  nextAlgo,     \* AlgoEngine::next_id
  algoOf,       \* Order::algo_id of the orders a schedule released
  releasedAt,   \* ordinal of the last step that passed the release phase, or -1
  \* history
  planned,      \* what was registered, by algo id
  stopped,      \* the schedules cancel_algo stopped
  completed,    \* how many AlgoCompleted events each schedule was given
  chances       \* timestamps of the steps that could have released a slice of it

twapVars == <<schedules, nextAlgo, algoOf, releasedAt, planned, stopped, completed, chances>>
allVars == <<vars, twapVars>>

Menu         == Plans[run].menu
MaxTwaps     == Plans[run].max
MaxOwnOrders == Plans[run].orders

TwapInit ==
  /\ Init
  /\ schedules = [a \in {} |-> a] /\ nextAlgo = 0
  /\ algoOf = [i \in {} |-> i]
  /\ releasedAt = -1
  /\ planned = [a \in {} |-> a] /\ stopped = {}
  /\ completed = [a \in {} |-> 0] /\ chances = [a \in {} |-> {}]

-----------------------------------------------------------------------------
(* One schedule: AlgoSchedule *)

\* The cumulative boundary before slice k.
Cut(s, k) == (s.total * k) \div s.slices

MutSliceUnits(s) == s.total \div s.slices

\* slice_units: the last slice takes whatever remains.
SliceUnits(s) ==
  IF s.released + 1 = s.slices
  THEN s.total - Cut(s, s.released)
  ELSE Cut(s, s.released + 1) - Cut(s, s.released)

IsComplete(s) == s.released >= s.slices

\* release_due's condition.
IsDue(s) == s.active /\ ~IsComplete(s) /\ now >= s.nextRelease

MutAfterRelease(s) ==
  [s EXCEPT !.released = @ + 1, !.nextRelease = @ + s.every]

\* The next release counts from this one, so a gap stretches the schedule.
AfterRelease(s) ==
  [s EXCEPT !.released = @ + 1, !.nextRelease = now + s.every]

\* drain_completed keeps the others.
IsDrained(s) == IsComplete(s) \/ ~s.active

\* A slice as submit_order_full registers it: a market order of this event.
SliceOrder(s) ==
  [side |-> s.side, qty |-> "Units", units |-> SliceUnits(s), kind |-> "Market",
   tif |-> "Gtc", expire |-> 0, postOnly |-> FALSE, reduceOnly |-> s.reduceOnly,
   status |-> "Submitted", submittedIdx |-> idx, submittedTs |-> now,
   arrivalTs |-> now + Latency, parent |-> NoOrder, oco |-> NoOrder,
   filled |-> 0, faulted |-> FALSE, notices |-> <<>>, fillIdx |-> -1]

-----------------------------------------------------------------------------
(* The strategy's calls *)

\* submit_algo: the first slice is due at once; an empty plan is refused.
SubmitTwap(p) ==
  /\ phase = "observe" /\ nextAlgo < MaxTwaps
  /\ p.slices # 0 /\ p.every > 0 /\ p.total > 0
  /\ schedules' = [a \in DOMAIN schedules \cup {nextAlgo} |->
                     IF a \in DOMAIN schedules THEN schedules[a]
                     ELSE [side |-> p.side, reduceOnly |-> p.reduceOnly,
                           total |-> p.total, slices |-> p.slices, every |-> p.every,
                           nextRelease |-> now, released |-> 0, active |-> TRUE]]
  /\ nextAlgo' = nextAlgo + 1
  /\ planned' = [a \in 0..nextAlgo |-> IF a = nextAlgo THEN p ELSE planned[a]]
  /\ completed' = [a \in 0..nextAlgo |-> IF a = nextAlgo THEN 0 ELSE completed[a]]
  /\ chances' = [a \in 0..nextAlgo |-> IF a = nextAlgo THEN {} ELSE chances[a]]
  /\ UNCHANGED <<vars, algoOf, releasedAt, stopped>>

\* algo_order_ids
SlicesOf(a) == {i \in DOMAIN algoOf : algoOf[i] = a}

MutCancelTwap(a) ==
  /\ phase = "observe"
  /\ a \in DOMAIN schedules /\ schedules[a].active
  /\ schedules' = [schedules EXCEPT ![a].active = FALSE]
  /\ stopped' = stopped \cup {a}
  /\ UNCHANGED <<vars, nextAlgo, algoOf, releasedAt, planned, completed, chances>>

\* cancel_algo.  A schedule that has released its last slice is gone, and
\* the call returns false with nothing done.
CancelTwap(a) ==
  /\ phase = "observe"
  /\ a \in DOMAIN schedules /\ schedules[a].active
  /\ schedules' = [schedules EXCEPT ![a].active = FALSE]
  /\ orders' = [i \in DOMAIN orders |->
                  IF i \in SlicesOf(a) THEN CancelWorking(orders[i]) ELSE orders[i]]
  /\ stopped' = stopped \cup {a}
  /\ UNCHANGED <<run, nextId, ledgerVars, clockVars, phase, stepVars, deferred, closes,
                 gateVars, nextAlgo, algoOf, releasedAt, planned, completed, chances>>

-----------------------------------------------------------------------------
(* The release phase of a step: release_algo_slices *)

DueSchedules == {a \in DOMAIN schedules : IsDue(schedules[a])}

\* Slices of one step are submitted in the order of their schedules.
SliceIds == nextId..(nextId + Cardinality(DueSchedules) - 1)
Releases ==
  {sent \in [SliceIds -> DueSchedules] :
     /\ \A a \in DueSchedules : \E i \in SliceIds : sent[i] = a
     /\ \A i, j \in SliceIds : i < j => sent[i] < sent[j]}

Stepped(a) ==
  IF a \in DueSchedules THEN AfterRelease(schedules[a]) ELSE schedules[a]

Drained == {a \in DOMAIN schedules : IsDrained(Stepped(a))}

ReleaseSlices(sent) ==
  /\ phase = "sweeping" /\ releasedAt # idx
  /\ nextId + Cardinality(DueSchedules) <= MaxOrders
  /\ orders' = [i \in DOMAIN orders \cup SliceIds |->
                  IF i \in DOMAIN orders THEN orders[i]
                  ELSE SliceOrder(schedules[sent[i]])]
  /\ nextId' = nextId + Cardinality(DueSchedules)
  /\ algoOf' = [i \in DOMAIN algoOf \cup SliceIds |->
                  IF i \in SliceIds THEN sent[i] ELSE algoOf[i]]
  /\ schedules' = [a \in DOMAIN schedules \ Drained |-> Stepped(a)]
  /\ completed' = [a \in DOMAIN completed |->
                     IF a \in DOMAIN schedules /\ IsDrained(Stepped(a))
                     THEN completed[a] + 1 ELSE completed[a]]
  /\ chances' = [a \in DOMAIN chances |->
                   IF a \in DOMAIN schedules /\ schedules[a].active
                   THEN chances[a] \cup {now} ELSE chances[a]]
  /\ releasedAt' = idx
  /\ UNCHANGED <<run, ledgerVars, clockVars, phase, stepVars, deferred, closes, gateVars,
                 nextAlgo, planned, stopped>>

\* Everything else a kernel does; the sweep follows the release.
KernelStep ==
  /\ Next
  /\ phase = "sweeping" => releasedAt = idx
  /\ nextId' - Cardinality(DOMAIN algoOf) <= MaxOwnOrders
  /\ UNCHANGED twapVars

-----------------------------------------------------------------------------
TwapNext ==
  \/ \E p \in Menu : SubmitTwap(p)
  \/ \E a \in DOMAIN schedules : CancelTwap(a)
  \/ \E sent \in Releases : ReleaseSlices(sent)
  \/ KernelStep

TwapSpec == TwapInit /\ [][TwapNext]_allVars

-----------------------------------------------------------------------------
(* Properties *)

AlgoSchedule ==
  [side: {"Buy", "Sell"}, reduceOnly: BOOLEAN, total: Nat \ {0}, slices: Nat \ {0},
   every: Nat \ {0}, nextRelease: Nat, released: Nat, active: BOOLEAN]

ScheduleOK(s) == s \in AlgoSchedule /\ s.released < s.slices

\* A schedule in the registry has something left to release, and its slices
\* are orders of the book (AlgoEngine, AlgoSchedule).
TwapTypeOK ==
  /\ nextAlgo \in Nat /\ releasedAt \in -1..idx
  /\ DOMAIN orders = 0..(nextId - 1) /\ DOMAIN algoOf \subseteq DOMAIN orders
  /\ DOMAIN schedules \subseteq DOMAIN planned /\ DOMAIN planned = 0..(nextAlgo - 1)
  /\ \A a \in DOMAIN schedules : ScheduleOK(schedules[a])
  /\ \A i \in DOMAIN orders : orders[i] \in Order
  /\ \A i \in DOMAIN algoOf : algoOf[i] \in DOMAIN planned

UnitsOut(a) == SumFunction([i \in SlicesOf(a) |-> orders[i].units])
ReleasedCount(a) == Cardinality(SlicesOf(a))

\* The slices released so far carve the plan at its boundaries, whichever of
\* them traded: nothing of the size is lost or invented, and a finished
\* schedule has released all of it (slice_units).
SlicesAddUp ==
  \A a \in DOMAIN planned :
    /\ UnitsOut(a) = Cut(planned[a], ReleasedCount(a))
    /\ a \notin DOMAIN schedules /\ a \notin stopped
         => UnitsOut(a) = planned[a].total

ReleaseTimes(a) == {orders[i].submittedTs : i \in SlicesOf(a)}

\* Two slices of a schedule are an interval apart, however the events fall
\* (a gap is not made up for); and no step that reaches the release phase
\* passes over a slice that is due (release_due).
SlicesKeepPace ==
  \A a \in DOMAIN planned :
    LET every == planned[a].every IN
    /\ \A i, j \in SlicesOf(a) :
         i < j => orders[j].submittedTs >= orders[i].submittedTs + every
    /\ \A t \in chances[a] :
         \E r \in ReleaseTimes(a) : r <= t /\ t < r + every

\* Stopping a schedule cancels the slices it has working, and it never
\* releases another (cancel_algo): nothing of it trades any more.
StoppedTwapIsQuiet == \A a \in stopped : \A i \in SlicesOf(a) : ~IsLive(orders[i])

\* on_algo_completed comes once for a schedule, after its last slice or after
\* it was stopped, and no slice follows it (drain_completed).
CompletedOnce ==
  \A a \in DOMAIN planned :
    /\ completed[a] <= 1
    /\ completed[a] = 1 => a \notin DOMAIN schedules
    /\ completed[a] = 1 /\ a \notin stopped => ReleasedCount(a) = planned[a].slices

\* Slices are whole lots and none of them is empty.
WholeSlices == LotSize = 1 /\ \A p \in Menu : p.slices <= p.total

\* "A slice fills on the step it was released on rather than trailing a step
\* behind": on bars no whole slice outlives its step, or the next one where fills
\* wait for the next open (release_algo_slices).
SlicesSettle ==
  phase = "observe" /\ Modes = {"Bar"} /\ WholeSlices =>
    \A i \in DOMAIN algoOf :
      orders[i].submittedIdx + (IF NextBarOpen THEN 1 ELSE 0) < idx => ~IsLive(orders[i])

\* A plan is carried out: cut whole, released to the end unless stopped, told of
\* once, and no slice trails the step it came out on.
PlanIsKept == TwapTypeOK /\ SlicesAddUp /\ CompletedOnce /\ SlicesSettle
=============================================================================
