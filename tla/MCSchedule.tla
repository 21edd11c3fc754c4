----------------------------- MODULE MCSchedule -----------------------------
(***************************************************************************)
(* Model values for the run of the schedule: two instruments; the first    *)
(* has bars, prints and quotes, the second bars, quotes and snapshots.     *)
(* Equal times occur within a stream, between streams and between phases.  *)
(***************************************************************************)
EXTENDS Schedule

Stream(i, p, times) == [instrument |-> i, phase |-> p, times |-> times]

TwoInstruments == 1..2

SmallStreams ==
  {Stream(1, Bar, <<0, 1>>), Stream(1, Bar, <<1>>),
   Stream(1, Trade, <<0, 0>>), Stream(1, Trade, <<1>>), Stream(1, Quote, <<0>>),
   Stream(2, Bar, <<0>>), Stream(2, Trade, <<1, 1>>),
   Stream(2, Quote, <<1>>), Stream(2, Quote, <<>>), Stream(2, Depth, <<0, 1>>)}
=============================================================================
