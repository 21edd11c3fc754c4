--------------------------- MODULE OrderedDelivery ---------------------------
(***************************************************************************)
(* What a merge of event streams promises, whatever it is built with: the  *)
(* event delivered next is the least of all the events not delivered yet,  *)
(* by (timestamp, phase, stream, sequence).                                *)
(***************************************************************************)
EXTENDS Integers, Sequences

VARIABLES
  pending,     \* the events registered and not delivered
  delivered    \* the events delivered, in order

Event == [ts: Nat, phase: 0..3, stream: Nat, seq: Nat]

\* The documented order of two events.
Precedes(d, e) ==
  \/ d.ts < e.ts
  \/ d.ts = e.ts /\ d.phase < e.phase
  \/ d.ts = e.ts /\ d.phase = e.phase /\ d.stream < e.stream
  \/ d.ts = e.ts /\ d.phase = e.phase /\ d.stream = e.stream /\ d.seq < e.seq

Init == pending = {} /\ delivered = <<>>

\* A stream is registered, before the first delivery.
Register ==
  /\ delivered = <<>>
  /\ pending \subseteq pending'
  /\ pending' \subseteq Event
  /\ UNCHANGED delivered

Deliver ==
  \E e \in pending :
    /\ \A d \in pending \ {e} : Precedes(e, d)
    /\ pending' = pending \ {e}
    /\ delivered' = Append(delivered, e)

Next == Register \/ Deliver

Spec == Init /\ [][Next]_<<pending, delivered>>

\* Delivered events are in strict order, so none is delivered twice; and none
\* still pending should have come earlier.
InOrder ==
  /\ \A k, l \in DOMAIN delivered : k < l => Precedes(delivered[k], delivered[l])
  /\ \A k \in DOMAIN delivered, e \in pending : Precedes(delivered[k], e)
=============================================================================
