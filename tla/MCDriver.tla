------------------------------ MODULE MCDriver ------------------------------
(***************************************************************************)
(* Model values for the runs of the Python run loops.                      *)
(***************************************************************************)
EXTENDS Driver

Event(s, k, ts) == [symbol |-> s, kind |-> k, ts |-> ts]

Two == {1, 2}

Timer(next, every, stop) == [next |-> next, every |-> every, stop |-> stop]
Never == 99

Quiet == [tape |-> <<>>, started |-> {}, orders |-> 0, cancels |-> 0, intents |-> 0, timers |-> 0]

\* Time leaps over scheduled points, on two clocks.
Clocked ==
  [Quiet EXCEPT !.timers = 2, !.started = {Timer(2, 1, Never), Timer(1, 2, 4), Timer(3, 2, 2)},
     !.tape = <<Event(1, "bar", 1), Event(2, "bar", 2), Event(1, "bar", 4), Event(1, "bar", 5)>>]

\* Two instruments' bars interleaved.
Interleaved ==
  [Quiet EXCEPT !.orders = 2, !.cancels = 1, !.intents = 1,
     !.tape = <<Event(1, "bar", 1), Event(2, "bar", 1), Event(1, "bar", 2)>>]

\* Prints after another instrument's quote.
Printed ==
  [Quiet EXCEPT !.orders = 2, !.intents = 2,
     !.tape = <<Event(2, "quote", 1), Event(1, "trade", 2), Event(2, "trade", 2)>>]

MCRuns == {Clocked, Interleaved, Printed}

RoutedRuns == {[Quiet EXCEPT !.orders = 2, !.tape = <<Event(1, "bar", 1), Event(2, "bar", 1)>>]}
=============================================================================
