------------------------------- MODULE Signals -------------------------------
(***************************************************************************)
(* The signal operators the array simulators are built on: cleaning        *)
(* (signals/processor.rs), synchronising the votes of several instruments  *)
(* (signals/synchronizer.rs) and combining several strategies               *)
(* (strategies/multi.rs).  The code maps them over whole arrays; every one  *)
(* of them reads its arrays left to right, so here each is a step over one  *)
(* bar.                                                                    *)
(***************************************************************************)
EXTENDS Integers, FiniteSets, FiniteSetsExt

NoDecision == [enter |-> FALSE, leave |-> FALSE]

(* Cleaning: what a bar's raw entry and exit become with `count` entries   *)
(* open, at most `max` of them.                                            *)
Cleaned(count, max, entry, exit) ==
  CASE count = 0 -> [enter |-> entry, leave |-> FALSE]
    [] count > 0 /\ exit /\ ~entry -> [enter |-> FALSE, leave |-> TRUE]
    [] OTHER -> [enter |-> entry /\ max > 1 /\ count < max, leave |-> FALSE]

CountAfter(count, max, clean) ==
  CASE clean.enter -> count + 1
    [] clean.leave -> IF max > 1 THEN count - 1 ELSE 0
    [] OTHER -> count

(* Cleaning long and short signals together: an entry of the other         *)
(* direction closes the position and reverses it on the same bar.          *)
CleanedBothWays(side, raw) ==
  LET other == IF side = "Long" THEN "Short" ELSE "Long"
      nothing == [d \in {"Long", "Short"} |-> NoDecision]
  IN CASE side = "None" /\ raw["Long"].enter -> [nothing EXCEPT !["Long"].enter = TRUE]
       [] side = "None" /\ ~raw["Long"].enter /\ raw["Short"].enter ->
            [nothing EXCEPT !["Short"].enter = TRUE]
       [] side # "None" /\ raw[side].leave -> [nothing EXCEPT ![side].leave = TRUE]
       [] side # "None" /\ ~raw[side].leave /\ raw[other].enter ->
            [nothing EXCEPT ![side].leave = TRUE, ![other].enter = TRUE]
       [] OTHER -> nothing

SideAfter(side, clean) ==
  IF \E d \in {"Long", "Short"} : clean[d].enter
  THEN CHOOSE d \in {"Long", "Short"} : clean[d].enter
  ELSE IF side # "None" /\ clean[side].leave THEN "None" ELSE side

(* position_signals: entries raise it, exits lower it, the exit last. *)
Holding(held, clean) == (held \/ clean.enter) /\ ~clean.leave

(* How many of several instruments vote, and what the group does. *)
Votes(votes) == Cardinality({i \in DOMAIN votes : votes[i]})
HalfUp(n) == (n + 1) \div 2

SyncEntry(sync, votes) ==
  LET n == Cardinality(DOMAIN votes) IN
  CASE sync.mode = "All"      -> Votes(votes) = n
    [] sync.mode = "Any"      -> Votes(votes) > 0
    [] sync.mode = "Majority" -> Votes(votes) >= (IF sync.min = 0 THEN HalfUp(n) ELSE sync.min)
    [] sync.mode = "Master"   -> votes[1]

SyncExit(sync, votes) ==
  CASE sync.mode = "All" -> Votes(votes) > 0
    [] sync.mode = "Any" -> Votes(votes) = Cardinality(DOMAIN votes)
    [] OTHER             -> SyncEntry(sync, votes)

(* Several strategies on one instrument: how their signals become one.  A  *)
(* strategy without a weight votes with one, and the weights are never     *)
(* taken to add up to less than the strategies there are.                  *)
CombinedEntry(mode, votes, weights) ==
  LET n == Cardinality(DOMAIN votes)
      Weight(i) == IF i \in DOMAIN weights THEN weights[i] ELSE 1
      cast == MapThenSumSet(Weight, {i \in DOMAIN votes : votes[i]})
      given == MapThenSumSet(Weight, DOMAIN weights)
  IN CASE mode = "Any"      -> Votes(votes) > 0
       [] mode = "All"      -> Votes(votes) = n
       [] mode = "Majority" -> Votes(votes) > n \div 2
       [] mode = "Weighted" -> 2 * cast > (IF given > n THEN given ELSE n)

CombinedExit(votes) == Votes(votes) > 0
=============================================================================
