----------------------------- MODULE LimitProofs -----------------------------
(***************************************************************************)
(* Proofs about the limits of the array simulators, for every plan, list   *)
(* of bars and list of ticks: a structure of options is held between its   *)
(* entry and its legs' expiries, trades on ticks keep their distance, the  *)
(* shared pool spends what it has, the operators of a desk hand out one    *)
(* side at a time, and the stops of a position only tighten.               *)
(***************************************************************************)
EXTENDS SimulatorProofs, SequenceTheorems

-----------------------------------------------------------------------------
(* A structure between its entry and its expiries *)

\* Two disjoint parts add up to their sums.
LEMMA SumOfTwo ==
  ASSUME NEW A, NEW B, IsFiniteSet(A), IsFiniteSet(B), A \cap B = {}, NEW f \in [A \cup B -> Int]
  PROVE  SumFunction(f) = SumFunction([x \in A |-> f[x]]) + SumFunction([x \in B |-> f[x]])
<1>1. PICK D : D = A \cup B
  OBVIOUS
<1>2. IsFiniteSet(D) /\ f \in [D -> Int] /\ A \in SUBSET D /\ B \in SUBSET D
  BY <1>1, FS_Union
<1>3. PICK h : h = [x \in D |-> IF x \in A THEN 0 ELSE f[x]]
  OBVIOUS
<1>4. h \in [D -> Int] /\ (\A x \in D : h[x] = IF x \in A THEN 0 ELSE f[x]) /\ \A x \in D \ B : h[x] = 0
  BY <1>1, <1>2, <1>3
<1>5. SumFunction(f) = SumFunction(h) + SumFunction([x \in A |-> f[x]])
  BY <1>2, <1>4, SumEmpties
<1>6. SumFunction(h) = SumFunction([x \in B |-> h[x]])
  BY <1>2, <1>4, SumOnPart
<1>7. [x \in B |-> h[x]] = [x \in B |-> f[x]]
  BY <1>2, <1>4
<1>8. PICK a, b : a = [x \in A |-> f[x]] /\ b = [x \in B |-> f[x]]
  OBVIOUS
<1>9. a \in [A -> Int] /\ b \in [B -> Int]
  BY <1>1, <1>2, <1>8
<1>10. SumFunction(a) \in Int /\ SumFunction(b) \in Int
  BY <1>9, SumIsInt
<1>11. QED BY <1>5, <1>6, <1>7, <1>8, <1>10

\* The legs that have settled, and what a set of legs has made.
Dead(s) == {k \in Contracts : s.legs[k].settled}
Made(s, S) == SumFunction([k \in S |-> Spreads!LegPnL(s.legs[k])])
Credited(s) == s.realized = Made(s, Dead(s))

Dated == \A k \in Contracts : plan.expiry[k] \in Int
LegalAt(s, bar) ==
  /\ ~Spreads!Squareoff(bar) /\ ~Spreads!AllSettled(s)
  /\ \A k \in Contracts : Spreads!Expired(k, bar) <=> s.legs[k].settled

LEMMA MadeIsInt ==
  ASSUME SpreadPlan, NEW s, Structure(s), NEW S \in SUBSET Contracts
  PROVE  Made(s, S) \in Int /\ IsFiniteSet(S)
<1> DEFINE f == [k \in S |-> Spreads!LegPnL(s.legs[k])]
<1>1. f \in [S -> Int]
  BY LegGains DEF Structure
<1>2. IsFiniteSet(S)
  BY FS_Subset DEF SpreadPlan
<1>3. Made(s, S) = SumFunction(f)
  BY DEF Made
<1> HIDE DEF f
<1>4. QED BY <1>1, <1>2, <1>3, SumIsInt

\* A settled leg keeps the premium of its expiry.
LEMMA RepricingKeeps ==
  ASSUME NEW s, Structure(s), Credited(s), NEW premiums
  PROVE  LET r == Spreads!Repriced(s, premiums) IN
         Credited(r) /\ \A k \in Contracts : r.legs[k].settled = s.legs[k].settled
<1> DEFINE legs == [k \in DOMAIN s.legs |->
                     IF s.legs[k].settled THEN s.legs[k] ELSE [s.legs[k] EXCEPT !.premium = premiums[k]]]
           r == Spreads!Repriced(s, premiums)
<1>1. r = [s EXCEPT !.legs = legs] /\ r.legs = legs /\ r.realized = s.realized
  BY DEF Spreads!Repriced, Structure, Record
<1>2. DOMAIN s.legs = Contracts /\ \A k \in Contracts : s.legs[k] \in LegType
  BY DEF Structure
<1>3. ASSUME NEW k \in Contracts
      PROVE  r.legs[k].settled = s.legs[k].settled /\ (s.legs[k].settled => r.legs[k] = s.legs[k])
  <2>1. r.legs[k] = IF s.legs[k].settled THEN s.legs[k] ELSE [s.legs[k] EXCEPT !.premium = premiums[k]]
    BY <1>1, <1>2
  <2>2. [s.legs[k] EXCEPT !.premium = premiums[k]].settled = s.legs[k].settled
    BY <1>2 DEF LegType
  <2>3. QED BY <2>1, <2>2
<1> HIDE DEF r
<1>4. Dead(r) = Dead(s)
  BY <1>3 DEF Dead
<1>5. [k \in Dead(s) |-> Spreads!LegPnL(r.legs[k])] = [k \in Dead(s) |-> Spreads!LegPnL(s.legs[k])]
  BY <1>3 DEF Dead
<1>6. Made(r, Dead(r)) = Made(s, Dead(s))
  BY <1>4, <1>5 DEF Made
<1>7. QED BY <1>1, <1>3, <1>6 DEF Credited, r

\* The legs that expire settle at once, and only they are credited.
LEMMA SettlingKeeps ==
  ASSUME SpreadPlan, NEW b, SpreadBalance(b), Spreads!Holds(b), Credited(b.spread), NEW now
  PROVE  LET s == Spreads!Settled(b, now).spread IN
         /\ Credited(s)
         /\ \A k \in Contracts : s.legs[k].settled <=> b.spread.legs[k].settled \/ Spreads!Expired(k, now)
<1> DEFINE p == b.spread
           due == Spreads!Due(p, now)
           legs == [k \in DOMAIN p.legs |-> [p.legs[k] EXCEPT !.settled = @ \/ k \in due]]
           c == Spreads!Settled(b, now)
           s == c.spread
<1>1. Structure(p) /\ SpreadBook(b)
  BY DEF SpreadBalance
<1>2. DOMAIN p.legs = Contracts /\ \A k \in Contracts : p.legs[k] \in LegType
  BY <1>1 DEF Structure
<1>3. due \in SUBSET Contracts /\ \A k \in Contracts : k \in due <=> ~p.legs[k].settled /\ Spreads!Expired(k, now)
  BY <1>2 DEF Spreads!Due
<1>4. s.legs = legs /\ s.realized = p.realized + Spreads!SumFunction([k \in due |-> Spreads!LegPnL(p.legs[k])])
  <2> DEFINE credit == Spreads!SumFunction([k \in due |-> Spreads!LegPnL(p.legs[k])])
  <2>1. c = [b EXCEPT !.cash = @ + credit, !.spread.realized = @ + credit, !.spread.legs = legs]
    BY DEF Spreads!Settled
  <2> HIDE DEF credit, legs, c, due
  <2>2. s.legs = legs /\ s.realized = p.realized + credit
    BY <1>1, <2>1 DEF SpreadBook, Structure, Record
  <2>3. QED BY <2>2 DEF credit
<1>5. Spreads!SumFunction([k \in due |-> Spreads!LegPnL(p.legs[k])]) = Made(p, due)
  BY DEF Spreads!SumFunction, Spreads!SumFunctionOnSet, Spreads!FoldFunctionOnSet, Spreads!MapThenFoldSet,
         SumFunction, SumFunctionOnSet, FoldFunctionOnSet, MapThenFoldSet, Made
<1> HIDE DEF due
<1>6. ASSUME NEW k \in Contracts
      PROVE  /\ s.legs[k].settled <=> p.legs[k].settled \/ k \in due
             /\ Spreads!LegPnL(s.legs[k]) = Spreads!LegPnL(p.legs[k])
  <2>1. s.legs[k] = [p.legs[k] EXCEPT !.settled = @ \/ k \in due]
    BY <1>2, <1>4
  <2> HIDE DEF s
  <2>2. QED BY <1>2, <2>1 DEF LegType, Spreads!LegPnL, Spreads!Units
<1> HIDE DEF s, p
<1>7. Dead(s) = Dead(p) \cup due /\ Dead(p) \cap due = {} /\ Dead(p) \in SUBSET Contracts
  BY <1>3, <1>6 DEF Dead
<1>8. [k \in Dead(s) |-> Spreads!LegPnL(s.legs[k])] = [k \in Dead(s) |-> Spreads!LegPnL(p.legs[k])]
  BY <1>6 DEF Dead
<1>9. Made(p, Dead(p) \cup due) = Made(p, Dead(p)) + Made(p, due)
  <2> DEFINE A == Dead(p)
             f == [k \in A \cup due |-> Spreads!LegPnL(p.legs[k])]
  <2>1. IsFiniteSet(A) /\ IsFiniteSet(due)
    BY <1>1, <1>3, <1>7, MadeIsInt
  <2>2. f \in [A \cup due -> Int]
    BY <1>2, <1>3, <1>7, LegGains
  <2>3. [k \in A |-> f[k]] = [k \in A |-> Spreads!LegPnL(p.legs[k])] /\ [k \in due |-> f[k]] = [k \in due |-> Spreads!LegPnL(p.legs[k])]
    OBVIOUS
  <2> HIDE DEF f, A
  <2>4. SumFunction(f) = SumFunction([k \in A |-> f[k]]) + SumFunction([k \in due |-> f[k]])
    BY <1>7, <2>1, <2>2, SumOfTwo DEF A
  <2>5. QED BY <2>3, <2>4 DEF Made, f, A
<1>10. Made(s, Dead(s)) = Made(p, Dead(p)) + Made(p, due)
  BY <1>7, <1>8, <1>9 DEF Made
<1>11. Credited(s)
  BY <1>4, <1>5, <1>10 DEF Credited, p
<1>12. QED BY <1>3, <1>6, <1>11 DEF s, p

HeldTo(b, bar) == Spreads!Holds(b) => Credited(b.spread) /\ LegalAt(b.spread, bar)
SpreadLegal ==
  /\ SpreadHeld /\ Dated /\ Contracts # {} /\ book.bar \in Nat
  /\ HeldTo(book, book.bar)

\* What is left of a structure after a bar's exits may stay.
LEMMA SpreadLeaves ==
  ASSUME SpreadPlan, Dated, NEW b, SpreadBalance(b), NEW now \in Nat, HeldTo(b, now),
         NEW bar \in SpreadBars, PremiumsQuoted(bar.value)
  PROVE  HeldTo(Spreads!Left(b, bar, now + 1), now + 1)
<1> SUFFICES ASSUME Spreads!Holds(b), Spreads!Holds(Spreads!Left(b, bar, now + 1))
             PROVE  Credited(Spreads!Left(b, bar, now + 1).spread) /\ LegalAt(Spreads!Left(b, bar, now + 1).spread, now + 1)
  BY DEF HeldTo, Spreads!Left
<1> DEFINE r == [b EXCEPT !.spread = Spreads!Repriced(@, bar.value)]
           c == Spreads!Settled(r, now + 1)
           exit == Spreads!Acts(b, bar).leave
           l == Spreads!Left(b, bar, now + 1)
<1>1. SpreadBalance(r) /\ Spreads!Holds(r)
  BY SpreadReprices
<1>2. /\ r.spread = Spreads!Repriced(b.spread, bar.value) /\ Credited(r.spread)
      /\ \A k \in Contracts : r.spread.legs[k].settled = b.spread.legs[k].settled
  <2>1. r.spread = Spreads!Repriced(b.spread, bar.value)
    BY DEF SpreadBalance, SpreadBook, Record
  <2>2. Structure(b.spread) /\ Credited(b.spread)
    BY DEF SpreadBalance, HeldTo
  <2> HIDE DEF r
  <2>3. QED BY <2>1, <2>2, RepricingKeeps
<1> HIDE DEF r
<1>3. /\ Credited(c.spread)
      /\ \A k \in Contracts : c.spread.legs[k].settled <=> r.spread.legs[k].settled \/ Spreads!Expired(k, now + 1)
  BY <1>1, <1>2, SettlingKeeps
<1>4. l = Spreads!Exited(c, exit, now + 1, bar.open)
  BY DEF Spreads!Left, r
<1> HIDE DEF c, exit
<1>5. l = c /\ ~Spreads!AllSettled(c.spread) /\ ~Spreads!Squareoff(now + 1)
  <2>1. \A s, reason : Spreads!Recorded(c, s, reason).spread = Spreads!None
    <3>1. SpreadBook(c)
      <4>1. SpreadBalance(c)
        BY <1>1, SpreadSettles DEF c
      <4>2. QED BY <4>1 DEF SpreadBalance
    <3>2. QED BY <3>1 DEF Spreads!Recorded, SpreadBook, Record
  <2>2. \A s, reason : ~Spreads!Holds(Spreads!Recorded(c, s, reason))
    BY <2>1 DEF Spreads!Holds
  <2>3. QED BY <1>4, <2>2 DEF Spreads!Exited
<1>6. \A k \in Contracts : Spreads!Expired(k, now + 1) <=> c.spread.legs[k].settled
  <2> SUFFICES ASSUME NEW k \in Contracts PROVE Spreads!Expired(k, now + 1) <=> c.spread.legs[k].settled
    OBVIOUS
  <2>1. Spreads!Expired(k, now) <=> r.spread.legs[k].settled
    BY <1>2 DEF HeldTo, LegalAt
  <2>2. Spreads!Expired(k, now) => Spreads!Expired(k, now + 1)
    <3>1. plan.expiry[k] \in Int
      BY DEF Dated
    <3>2. QED BY <3>1 DEF Spreads!Expired
  <2>3. QED BY <1>3, <2>1, <2>2
<1>7. QED BY <1>3, <1>5, <1>6 DEF LegalAt, l

\* What a bar opens has every leg before its expiry.
LEMMA SpreadEnters ==
  ASSUME Contracts # {}, NEW b, SpreadBook(b), NEW bar, NEW enters, NEW now, HeldTo(b, now)
  PROVE  HeldTo(Spreads!Entered(b, bar, enters, now), now)
<1> SUFFICES ASSUME enters, ~Spreads!Holds(b), Spreads!MayOpen(now)
             PROVE  LET s == Spreads!Opened(b, Spreads!FillPremiums(bar)).spread IN Credited(s) /\ LegalAt(s, now)
  BY DEF HeldTo, Spreads!Entered
<1> DEFINE s == Spreads!Opened(b, Spreads!FillPremiums(bar)).spread
<1>1. /\ DOMAIN s.legs = Contracts /\ \A k \in Contracts : ~s.legs[k].settled
      /\ s.realized = 0
  BY DEF Spreads!Opened, SpreadBook, Record, Contracts
<1> HIDE DEF s
<1>2. Dead(s) = {}
  BY <1>1 DEF Dead
<1>3. Made(s, {}) = 0
  <2>1. [k \in {} |-> Spreads!LegPnL(s.legs[k])] \in [{} -> Int]
    OBVIOUS
  <2>2. QED BY <2>1, SumOfNone DEF Made
<1>4. Credited(s)
  BY <1>1, <1>2, <1>3 DEF Credited
<1>5. ~Spreads!AllSettled(s)
  BY <1>1 DEF Spreads!AllSettled
<1>6. ~Spreads!Squareoff(now) /\ \A k \in Contracts : ~Spreads!Expired(k, now)
  BY DEF Spreads!MayOpen, Contracts
<1>7. QED BY <1>1, <1>4, <1>5, <1>6 DEF LegalAt, s

LEMMA SpreadLegalStarts ==
  ASSUME Spreads!Init
  PROVE  SpreadLegal
<1>1. SpreadHeld
  BY SpreadStarts
<1>2. Dated /\ Contracts # {}
  BY StructureAssumption DEF Spreads!Init, Dated, Contracts
<1>3. book.bar = 0 /\ ~Spreads!Holds(book)
  BY DEF Spreads!Init, Spreads!Holds
<1>4. QED BY <1>1, <1>2, <1>3 DEF SpreadLegal, HeldTo

LEMMA SpreadLegalBar ==
  ASSUME SpreadLegal, NEW bar \in SpreadBars, Spreads!Bar(bar)
  PROVE  SpreadLegal'
<1> DEFINE n == book.bar
           l == Spreads!Left(book, bar, n + 1)
           enters == Spreads!Acts(book, bar).enter
           e == Spreads!Entered(l, bar, enters, n + 1)
<1>1. SpreadHeld' /\ plan' = plan /\ book' = Spreads!Seen(e, bar, n + 1)
  BY SpreadBar DEF SpreadLegal, Spreads!Bar, Spreads!OnBar
<1>2. PremiumsQuoted(bar.value) /\ n \in Nat
  BY SpreadAssumption DEF PremiumsQuoted, Contracts, SpreadLegal, SpreadHeld
<1>3. SpreadPlan /\ SpreadBalance(book) /\ SpreadBook(book) /\ Dated /\ Contracts # {} /\ HeldTo(book, n)
  BY DEF SpreadLegal, SpreadHeld, SpreadBalance
<1> HIDE DEF n
<1>4. HeldTo(l, n + 1)
  BY <1>2, <1>3, SpreadLeaves
<1>5. SpreadBook(l)
  BY <1>3, SpreadKeepsItsFields
<1> HIDE DEF l, enters
<1>6. HeldTo(e, n + 1) /\ SpreadBook(e)
  BY <1>3, <1>4, <1>5, SpreadEnters, SpreadKeepsItsFields
<1> HIDE DEF e
<1>7. book'.spread = e.spread /\ book'.bar = n + 1
  BY <1>1, <1>6 DEF SpreadBook, Record, Spreads!Seen
<1>8. HeldTo(book', book'.bar) /\ book'.bar \in Nat
  BY <1>2, <1>6, <1>7 DEF HeldTo, Spreads!Holds
<1>9. HeldTo(book, book.bar)'
  BY <1>1, <1>8 DEF HeldTo, Spreads!Holds, Credited, Made, Dead, Contracts, LegalAt, Spreads!Squareoff, Spreads!Expired,
                    Spreads!AllSettled
<1>10. (Dated /\ Contracts # {})'
  BY <1>1, <1>3 DEF Dated, Contracts
<1>11. QED BY <1>1, <1>8, <1>9, <1>10 DEF SpreadLegal

LEMMA SpreadLegalStep ==
  ASSUME SpreadLegal, Spreads!Next
  PROVE  SpreadLegal'
<1>1. ASSUME NEW bar \in SpreadBars, Spreads!Bar(bar) PROVE SpreadLegal'
  BY <1>1, SpreadLegalBar
<1>2. ASSUME Spreads!Finish PROVE SpreadLegal'
  <2> DEFINE c == IF Spreads!Holds(book) THEN Spreads!Recorded(book, book.spread, "EndOfData") ELSE book
  <2>1. book' = [c EXCEPT !.ended = TRUE] /\ plan' = plan /\ SpreadHeld'
    BY <1>2, SpreadFinish DEF Spreads!Finish, SpreadLegal
  <2>2. SpreadBook(book) /\ book.bar \in Nat
    BY DEF SpreadLegal, SpreadHeld, SpreadBalance
  <2>3. ~Spreads!Holds(c) /\ c.bar = book.bar /\ SpreadBook(c)
    BY <2>2 DEF Spreads!Recorded, SpreadBook, Record, Spreads!Holds
  <2> HIDE DEF c
  <2>4. book'.spread = c.spread /\ book'.bar = book.bar
    BY <2>1, <2>3 DEF SpreadBook, Record
  <2>5. ~Spreads!Holds(book)'
    BY <2>3, <2>4 DEF Spreads!Holds
  <2>6. HeldTo(book, book.bar)'
    BY <2>5 DEF HeldTo
  <2>7. QED BY <2>1, <2>2, <2>4, <2>6 DEF SpreadLegal, Dated, Contracts
<1>3. QED BY <1>1, <1>2 DEF Spreads!Next

LEMMA SpreadsWithin ==
  ASSUME SpreadLegal
  PROVE  Spreads!HeldLegally /\ Spreads!LegsSettleOnce
<1> SUFFICES ASSUME Spreads!Holds(book) PROVE Spreads!HeldLegally /\ Spreads!LegsSettleOnce
  BY DEF Spreads!HeldLegally, Spreads!LegsSettleOnce
<1> DEFINE s == book.spread
<1>1. Structure(s) /\ Credited(s) /\ LegalAt(s, book.bar)
  BY DEF SpreadLegal, SpreadHeld, SpreadBalance, HeldTo
<1>2. DOMAIN s.legs = Contracts /\ \A k \in Contracts : s.legs[k].settled \in BOOLEAN
  BY <1>1 DEF Structure, LegType
<1>3. Spreads!HeldLegally
  <2>1. \A k \in Contracts : Spreads!Expired(k, book.bar) = s.legs[k].settled
    BY <1>1, <1>2 DEF LegalAt, Spreads!Expired
  <2>2. QED BY <1>1, <1>2, <2>1 DEF LegalAt, Spreads!HeldLegally
<1>4. Spreads!LegsSettleOnce
  <2>1. {k \in DOMAIN s.legs : s.legs[k].settled} = Dead(s)
    BY <1>2 DEF Dead
  <2>2. Spreads!SumFunction([k \in Dead(s) |-> Spreads!LegPnL(s.legs[k])]) = Made(s, Dead(s))
    BY DEF Spreads!SumFunction, Spreads!SumFunctionOnSet, Spreads!FoldFunctionOnSet, Spreads!MapThenFoldSet,
           SumFunction, SumFunctionOnSet, FoldFunctionOnSet, MapThenFoldSet, Made
  <2>3. QED BY <1>1, <2>1, <2>2 DEF Credited, Spreads!LegsSettleOnce
<1>5. QED BY <1>3, <1>4

-----------------------------------------------------------------------------
(* The tick simulator: what its list of trades says. *)

\* s is a sequence, of whatever.
Listed(s) == \E S : s \in Seq(S)

LEMMA ListGrows ==
  ASSUME NEW s, Listed(s), NEW e
  PROVE  /\ Listed(Append(s, e)) /\ Len(s) \in Nat /\ Len(Append(s, e)) = Len(s) + 1
         /\ \A i \in 1..Len(s) : Append(s, e)[i] = s[i]
         /\ Append(s, e)[Len(s) + 1] = e
<1>1. PICK S : s \in Seq(S)
  BY DEF Listed
<1>2. s \in Seq(S \cup {e}) /\ e \in S \cup {e}
  BY <1>1
<1>3. Append(s, e) \in Seq(S \cup {e})
  BY <1>2
<1>4. QED BY <1>1, <1>2, <1>3 DEF Listed

TickFields == {"tick", "clock", "position", "cooldown", "trades", "ended"}
Apart == GreaterOf(plan.cooldown, 1)

TickPlan ==
  /\ plan.cooldown \in Nat /\ plan.quantity \in Nat /\ plan.lot \in Nat /\ plan.maxTrades \in Nat \ {0}
  /\ plan.stop \in Int /\ plan.target \in Int /\ plan.slippage \in Int
  /\ \A x \in Ticks :
       TickSim!Ask(x) > 0 => Portion(plan.stop, TickSim!Ask(x)) > 0 /\ Portion(plan.target, TickSim!Ask(x)) > 0

\* A trade loses at its stop and gains at its target.
Fair(t) ==
  /\ t.opened \in Nat /\ t.closed \in Nat /\ t.opened < t.closed
  /\ plan.slippage = 0 => (t.reason = "StopLoss" => t.gross < 0) /\ (t.reason = "TakeProfit" => t.gross > 0)

\* An open position, with its levels on either side of it.
Bracketed(p) ==
  /\ p.at \in Nat /\ p.price \in Int /\ p.stop \in Int /\ p.target \in Int
  /\ plan.slippage = 0 => p.stop < p.price /\ p.price < p.target

\* The list of trades, the last of them behind the clock and the cooldown after it.
Traded(b) ==
  /\ Listed(b.trades) /\ b.tick \in Nat /\ b.cooldown \in Nat
  /\ \A k \in 1..Len(b.trades) : Fair(b.trades[k])
  /\ \A k \in 2..Len(b.trades) : b.trades[k].opened >= b.trades[k - 1].closed + Apart
  /\ Len(b.trades) > 0 => LET t == b.trades[Len(b.trades)] IN
                          t.closed < b.tick /\ b.cooldown = t.closed + plan.cooldown

Waited(b) == Len(b.trades) > 0 => b.position.at >= b.trades[Len(b.trades)].closed + Apart

TickKept(b) ==
  /\ Record(b, TickFields) /\ Traded(b)
  /\ Len(b.trades) <= plan.maxTrades
  /\ ~b.ended => Len(b.trades) < plan.maxTrades /\ TickSim!Contracts > 0
  /\ TickSim!Holds(b) => Bracketed(b.position) /\ b.position.at < b.tick /\ Waited(b)
  /\ b.ended /\ TickSim!Holds(b) => b.position.at = b.tick - 1

LEMMA TickShares ==
  /\ \A r, v : TickSim!Portion(r, v) = Portion(r, v)
  /\ \A a, b : TickSim!GreaterOf(a, b) = GreaterOf(a, b)
BY DEF TickSim!Portion, Portion, TickSim!GreaterOf, GreaterOf

LEMMA PortionOfPrice ==
  ASSUME NEW rate \in Int, NEW price \in Int
  PROVE  Portion(rate, price) \in Int /\ (rate = 0 => Portion(rate, price) = 0)
<1> DEFINE v == rate * price
<1>1. v \in Int /\ (rate = 0 => v = 0)
  OBVIOUS
<1> HIDE DEF v
<1>2. v \div 1000 \in Int /\ (v = 0 => v \div 1000 = 0)
  BY <1>1
<1>3. QED BY <1>1, <1>2 DEF Portion, v

\* The contracts times what a contract makes has its sign.
LEMMA SignOfProduct ==
  ASSUME NEW a \in Int, NEW c \in Int, c > 0
  PROVE  a * c \in Int /\ (a < 0 => a * c < 0) /\ (a > 0 => a * c > 0)
OBVIOUS

LEMMA TickExits ==
  ASSUME TickPlan, NEW b, Record(b, TickFields), Traded(b), TickSim!Contracts > 0,
         TickSim!Holds(b), Bracketed(b.position), b.position.at < b.tick, Waited(b),
         NEW now, NEW tick \in Ticks, NEW last, NEW reason, reason = TickSim!Reason(b.position, now, tick, last)
  PROVE  LET c == TickSim!Exited(b, now, tick, reason) IN
         /\ Record(c, TickFields) /\ ~TickSim!Holds(c) /\ Traded([c EXCEPT !.tick = @ + 1])
         /\ Len(c.trades) = Len(b.trades) + 1 /\ c.tick = b.tick /\ c.ended = b.ended
<1> DEFINE p == b.position
           price == TickSim!ExitPrice(p, tick, reason)
           t == [opened |-> p.at, closed |-> b.tick, reason |-> reason,
                 gross |-> (price - p.price) * TickSim!Contracts,
                 fees |-> p.fees + TickSim!Charge(price, FALSE)]
           c == TickSim!Exited(b, now, tick, reason)
           s == Append(b.trades, t)
<1>1. c = [b EXCEPT !.trades = s, !.position = TickSim!None, !.cooldown = b.tick + plan.cooldown]
  BY DEF TickSim!Exited, Record, TickFields
<1>2. plan.slippage = 0 => /\ reason = "StopLoss" => price = p.stop
                           /\ reason = "TakeProfit" => price = p.target
  <2> SUFFICES ASSUME plan.slippage = 0 PROVE (reason = "StopLoss" => price = p.stop) /\ (reason = "TakeProfit" => price = p.target)
    OBVIOUS
  <2>1. Portion(plan.slippage, p.stop) = 0 /\ Portion(plan.slippage, p.target) = 0
    BY PortionOfPrice DEF Bracketed, TickPlan
  <2>2. QED BY <2>1, TickShares DEF TickSim!ExitPrice, TickSim!Under, Bracketed
<1>3. Fair(t)
  <2>1. p.at \in Nat /\ b.tick \in Nat /\ p.at < b.tick
    BY DEF Bracketed, Traded
  <2>2. TickSim!Contracts \in Int /\ p.price \in Int /\ p.stop \in Int /\ p.target \in Int
    BY DEF TickSim!Contracts, TickPlan, Bracketed
  <2> DEFINE gross == (price - p.price) * TickSim!Contracts
  <2>3. ASSUME plan.slippage = 0, reason = "StopLoss" PROVE gross < 0
    <3>1. price = p.stop /\ p.stop < p.price
      BY <1>2, <2>3 DEF Bracketed
    <3> HIDE DEF price, p
    <3>2. QED BY <2>2, <3>1, SignOfProduct
  <2>4. ASSUME plan.slippage = 0, reason = "TakeProfit" PROVE gross > 0
    <3>1. price = p.target /\ p.price < p.target
      BY <1>2, <2>4 DEF Bracketed
    <3> HIDE DEF price, p
    <3>2. QED BY <2>2, <3>1, SignOfProduct
  <2> HIDE DEF gross
  <2>5. t.opened = p.at /\ t.closed = b.tick /\ t.reason = reason /\ t.gross = gross
    BY DEF gross
  <2> HIDE DEF t, p
  <2>6. QED BY <2>1, <2>3, <2>4, <2>5 DEF Fair
<1>4. t.opened = p.at /\ t.closed = b.tick
  OBVIOUS
<1> HIDE DEF t, p, price
<1>5. /\ Listed(s) /\ Len(b.trades) \in Nat /\ Len(s) = Len(b.trades) + 1
      /\ \A i \in 1..Len(b.trades) : s[i] = b.trades[i]
      /\ s[Len(b.trades) + 1] = t
  BY ListGrows DEF Traded
<1> HIDE DEF s, c
<1>6. /\ Record(c, TickFields) /\ c.position = TickSim!None /\ c.trades = s /\ c.cooldown = b.tick + plan.cooldown
      /\ c.tick = b.tick /\ c.ended = b.ended
  BY <1>1 DEF Record, TickFields
<1> DEFINE d == [c EXCEPT !.tick = @ + 1]
<1>7. d.trades = s /\ d.cooldown = b.tick + plan.cooldown /\ d.tick = b.tick + 1
  BY <1>6 DEF Record, TickFields
<1> HIDE DEF d
<1>8. \A k \in 1..Len(s) : Fair(s[k])
  BY <1>3, <1>5 DEF Traded
<1>9. \A k \in 2..Len(s) : s[k].opened >= s[k - 1].closed + Apart
  <2> TAKE k \in 2..Len(s)
  <2>1. CASE k = Len(b.trades) + 1
    <3>1. s[k - 1] = b.trades[Len(b.trades)] /\ s[k] = t /\ Len(b.trades) > 0
      BY <1>5, <2>1
    <3>2. QED BY <1>4, <3>1 DEF Waited, p
  <2>2. CASE k # Len(b.trades) + 1
    <3> DEFINE n == Len(b.trades)
               l == Len(s)
    <3>1. n \in Nat /\ l = n + 1 /\ k \in 2..l /\ k # n + 1
      BY <1>5, <2>2
    <3> HIDE DEF n, l
    <3>2. k \in 2..n /\ k \in 1..n /\ k - 1 \in 1..n
      BY <3>1
    <3>3. k \in 2..Len(b.trades) /\ s[k] = b.trades[k] /\ s[k - 1] = b.trades[k - 1]
      BY <1>5, <3>2 DEF n
    <3>4. QED BY <3>3 DEF Traded
  <2>3. QED BY <2>1, <2>2
<1>10. b.tick \in Nat /\ plan.cooldown \in Nat
  BY DEF Traded, TickPlan
<1>11. Traded(d)
  BY <1>4, <1>5, <1>7, <1>8, <1>9, <1>10 DEF Traded
<1>12. QED BY <1>5, <1>6, <1>11 DEF TickSim!Holds, c, d

LEMMA TickEnters ==
  ASSUME TickPlan, NEW b, Record(b, TickFields), Traded(b), b.tick >= b.cooldown,
         NEW now, NEW tick \in Ticks, TickSim!Ask(tick) \in Int, TickSim!Ask(tick) > 0
  PROVE  LET c == TickSim!Entered(b, now, tick) IN
         /\ c = [b EXCEPT !.position = c.position] /\ Record(c, TickFields)
         /\ TickSim!Holds(c) /\ Bracketed(c.position) /\ c.position.at = b.tick /\ Waited(c)
<1> DEFINE ask == TickSim!Ask(tick)
           price == TickSim!Over(ask, plan.slippage)
           stop == TickSim!Under(price, plan.stop)
           target == TickSim!Over(price, plan.target)
           p == [price |-> price, at |-> b.tick, since |-> now, fees |-> TickSim!Charge(price, TRUE),
                 stop |-> stop, target |-> target]
           c == TickSim!Entered(b, now, tick)
<1>1. c = [b EXCEPT !.position = p]
  BY DEF TickSim!Entered
<1>2. Portion(plan.slippage, ask) \in Int /\ (plan.slippage = 0 => Portion(plan.slippage, ask) = 0)
  BY PortionOfPrice DEF TickPlan
<1>3. price = ask + Portion(plan.slippage, ask)
  BY TickShares DEF TickSim!Over
<1>4. price \in Int /\ (plan.slippage = 0 => price = ask)
  BY <1>2, <1>3
<1>5. Portion(plan.stop, ask) > 0 /\ Portion(plan.target, ask) > 0
  BY DEF TickPlan
<1> HIDE DEF ask, price
<1>6. stop = price - Portion(plan.stop, price) /\ target = price + Portion(plan.target, price)
  BY TickShares DEF TickSim!Under, TickSim!Over
<1>7. Portion(plan.stop, price) \in Int /\ Portion(plan.target, price) \in Int
  BY <1>4, PortionOfPrice DEF TickPlan
<1> HIDE DEF stop, target
<1>8. stop \in Int /\ target \in Int /\ (plan.slippage = 0 => stop < price /\ price < target)
  BY <1>4, <1>5, <1>6, <1>7
<1>9. Bracketed(p)
  BY <1>4, <1>8 DEF Bracketed, Traded
<1>10. p.at = b.tick /\ p # TickSim!None
  BY DEF TickSim!None
<1> HIDE DEF p, c
<1>11. c.position = p /\ c.trades = b.trades /\ Record(c, TickFields)
  BY <1>1 DEF Record, TickFields
<1>12. Waited(c)
  <2> SUFFICES ASSUME Len(b.trades) > 0 PROVE b.tick >= b.trades[Len(b.trades)].closed + Apart
    BY <1>10, <1>11 DEF Waited
  <2> DEFINE t == b.trades[Len(b.trades)]
  <2>1. Len(b.trades) \in Nat /\ t.closed < b.tick /\ b.cooldown = t.closed + plan.cooldown
    BY ListGrows DEF Traded
  <2>2. t.closed \in Nat /\ b.tick \in Nat /\ plan.cooldown \in Nat
    BY <2>1 DEF Traded, TickPlan, Fair
  <2> HIDE DEF t
  <2>3. b.tick >= t.closed + Apart
    BY <2>1, <2>2 DEF Apart, GreaterOf
  <2>4. QED BY <2>3 DEF t
<1>13. QED BY <1>1, <1>9, <1>10, <1>11, <1>12 DEF TickSim!Holds, c

LEMMA TickLast ==
  ASSUME NEW p, p.stop \in Int, p.target \in Int, NEW now, NEW tick \in Ticks
  PROVE  TickSim!Reason(p, now, tick, TRUE) # "None"
<1>1. tick.ltp \in Int
  BY TickAssumption
<1>2. QED BY <1>1 DEF TickSim!Reason

TickHeld == TickPlan /\ TickKept(book)

LEMMA TickStarts ==
  ASSUME TickSim!Init
  PROVE  TickHeld
<1>1. plan \in TickPlans
  BY DEF TickSim!Init
<1>2. TickPlan
  BY <1>1, TickAssumption DEF TickPlan
<1>3. /\ Record(book, TickFields) /\ book.tick = 0 /\ book.cooldown = 0 /\ book.trades = <<>>
      /\ ~TickSim!Holds(book) /\ (book.ended <=> plan.quantity * plan.lot = 0)
  BY DEF TickSim!Init, Record, TickFields, TickSim!Holds
<1>4. Listed(<<>>) /\ Len(<<>>) = 0
  <2>1. <<>> \in Seq({})
    OBVIOUS
  <2>2. QED BY <2>1 DEF Listed
<1>5. plan.quantity * plan.lot \in Nat /\ TickSim!Contracts = plan.quantity * plan.lot
  BY <1>2 DEF TickPlan, TickSim!Contracts
<1>6. Traded(book)
  BY <1>3, <1>4 DEF Traded
<1>7. ~book.ended => TickSim!Contracts > 0
  <2> DEFINE n == plan.quantity * plan.lot
  <2>1. n \in Nat /\ TickSim!Contracts = n /\ (book.ended <=> n = 0)
    BY <1>3, <1>5
  <2> HIDE DEF n
  <2>2. QED BY <2>1
<1>8. Len(book.trades) = 0 /\ plan.maxTrades \in Nat \ {0}
  BY <1>2, <1>3, <1>4 DEF TickPlan
<1>9. QED BY <1>2, <1>3, <1>6, <1>7, <1>8 DEF TickHeld, TickKept

LEMMA TickStep ==
  ASSUME TickHeld, TickSim!Next
  PROVE  TickHeld'
<1> PICK tick \in Ticks, last \in BOOLEAN : TickSim!Tick(tick, last)
  BY DEF TickSim!Next
<1> DEFINE b == book
           now == b.clock + tick.gap
           reason == TickSim!Reason(b.position, now, tick, last)
           leaves == TickSim!Holds(b) /\ reason # "None"
           enters == ~TickSim!Holds(b) /\ b.tick >= b.cooldown /\ tick.entry /\ TickSim!Ask(tick) > 0
           done == CASE leaves -> TickSim!Exited(b, now, tick, reason)
                     [] enters -> TickSim!Entered(b, now, tick)
                     [] OTHER -> b
           ended == last \/ (leaves /\ Len(done.trades) >= plan.maxTrades)
<1>1. book' = [done EXCEPT !.clock = now, !.tick = @ + 1, !.ended = ended] /\ plan' = plan /\ ~b.ended
  BY DEF TickSim!Tick, TickSim!OnTick
<1>2. TickPlan /\ TickKept(b) /\ TickSim!Contracts > 0 /\ Len(b.trades) < plan.maxTrades
  BY <1>1 DEF TickHeld, TickKept
<1>3. Record(b, TickFields) /\ Traded(b) /\ Len(b.trades) \in Nat /\ b.tick \in Nat /\ plan.maxTrades \in Nat
  BY <1>2, ListGrows DEF TickKept, Traded, TickPlan
<1>4. TickSim!Ask(tick) \in Int
  BY TickAssumption DEF TickSim!Ask
<1> HIDE DEF b, reason, now
<1>5. CASE leaves
  <2>1. done = TickSim!Exited(b, now, tick, reason)
    BY <1>5
  <2>2. /\ Record(done, TickFields) /\ ~TickSim!Holds(done) /\ Traded([done EXCEPT !.tick = @ + 1])
        /\ Len(done.trades) = Len(b.trades) + 1
    BY <1>2, <1>3, <1>5, <2>1, TickExits DEF TickKept, reason
  <2> HIDE DEF done
  <2> DEFINE d == [done EXCEPT !.tick = @ + 1]
  <2>3. /\ Record(book', TickFields) /\ book'.trades = d.trades /\ book'.tick = d.tick
        /\ book'.cooldown = d.cooldown /\ book'.position = done.position /\ book'.ended = ended
        /\ d.trades = done.trades
    BY <1>1, <2>2 DEF Record, TickFields
  <2> HIDE DEF d
  <2>4. Traded(book')
    BY <2>2, <2>3 DEF Traded, d
  <2>5. ~TickSim!Holds(book')
    BY <2>2, <2>3 DEF TickSim!Holds
  <2>6. Len(book'.trades) <= plan.maxTrades /\ (~book'.ended => Len(book'.trades) < plan.maxTrades)
    <3>1. Len(book'.trades) = Len(b.trades) + 1
      BY <2>2, <2>3
    <3>2. ~book'.ended => ~(Len(done.trades) >= plan.maxTrades)
      BY <1>5, <2>3
    <3>3. QED BY <1>2, <1>3, <2>2, <3>1, <3>2
  <2>7. TickKept(book')
    BY <1>2, <2>3, <2>4, <2>5, <2>6 DEF TickKept
  <2>8. QED BY <1>1, <1>2, <2>7 DEF TickHeld, TickPlan, TickKept, Traded, Fair, Bracketed, Waited, Apart, TickSim!Contracts, TickSim!Holds
<1>6. CASE ~leaves /\ enters
  <2>1. done = TickSim!Entered(b, now, tick)
    BY <1>6
  <2>2. /\ done = [b EXCEPT !.position = done.position] /\ Record(done, TickFields)
        /\ TickSim!Holds(done) /\ Bracketed(done.position) /\ done.position.at = b.tick /\ Waited(done)
    BY <1>2, <1>3, <1>4, <1>6, <2>1, TickEnters
  <2> HIDE DEF done
  <2>3. /\ Record(book', TickFields) /\ book'.trades = b.trades /\ book'.tick = b.tick + 1
        /\ book'.cooldown = b.cooldown /\ book'.position = done.position /\ done.trades = b.trades
    BY <1>1, <1>3, <2>2 DEF Record, TickFields
  <2>4. Traded(book')
    BY <1>3, <2>3 DEF Traded, Fair
  <2>5. TickKept(book')
    BY <1>2, <1>3, <2>2, <2>3, <2>4 DEF TickKept, Waited, TickSim!Holds
  <2>6. QED BY <1>1, <1>2, <2>5 DEF TickHeld, TickPlan, TickKept, Traded, Fair, Bracketed, Waited, Apart, TickSim!Contracts, TickSim!Holds
<1>7. CASE ~leaves /\ ~enters
  <2>1. done = b
    BY <1>7
  <2>2. last /\ TickSim!Holds(b) => FALSE
    BY <1>2, <1>7, TickLast DEF TickKept, Bracketed, reason
  <2> HIDE DEF done
  <2>3. /\ Record(book', TickFields) /\ book'.trades = b.trades /\ book'.tick = b.tick + 1
        /\ book'.cooldown = b.cooldown /\ book'.position = b.position /\ book'.ended = ended
    BY <1>1, <1>3, <2>1 DEF Record, TickFields
  <2>4. Traded(book')
    BY <1>3, <2>3 DEF Traded, Fair
  <2>5. TickSim!Holds(book') = TickSim!Holds(b) /\ (book'.ended => ~TickSim!Holds(b))
    BY <1>7, <2>2, <2>3 DEF TickSim!Holds
  <2>6. (Bracketed(b.position) /\ b.position.at < b.tick + 1 /\ Waited(b)) \/ ~TickSim!Holds(b)
    BY <1>2, <1>3 DEF TickKept, Bracketed
  <2>7. TickKept(book')
    BY <1>2, <1>3, <2>3, <2>4, <2>5, <2>6 DEF TickKept, Waited
  <2>8. QED BY <1>1, <1>2, <2>7 DEF TickHeld, TickPlan, TickKept, Traded, Fair, Bracketed, Waited, Apart, TickSim!Contracts, TickSim!Holds
<1>8. QED BY <1>5, <1>6, <1>7

LEMMA TicksWithin ==
  ASSUME TickHeld
  PROVE  TickSim!TradesKeepApart /\ TickSim!NothingLeftOpen
<1>1. TickSim!NothingLeftOpen
  BY DEF TickHeld, TickKept, TickSim!NothingLeftOpen
<1>2. Len(book.trades) \in Nat /\ Len(book.trades) <= plan.maxTrades /\ Apart = TickSim!GreaterOf(plan.cooldown, 1)
  BY ListGrows, TickShares DEF TickHeld, TickKept, Traded, Apart
<1>3. ASSUME NEW k \in 1..Len(book.trades)
      PROVE  /\ Fair(book.trades[k])
             /\ k > 1 => book.trades[k].opened >= book.trades[k - 1].closed + Apart
  <2>1. k > 1 => k \in 2..Len(book.trades)
    BY <1>2
  <2>2. QED BY <2>1 DEF TickHeld, TickKept, Traded
<1>4. TickSim!TradesKeepApart
  BY <1>2, <1>3 DEF TickSim!TradesKeepApart, Fair
<1>5. QED BY <1>1, <1>4

-----------------------------------------------------------------------------
(* What the pool can spend *)

\* A part of an amount.
Thousandths(r) == r \in Nat /\ r <= 1000

PoolTerms ==
  /\ plan.names \in Nat /\ plan.maxPositions \in Nat /\ Thousandths(plan.rate) /\ Thousandths(plan.stop)
  /\ plan.allocation \in {"Full", "EqualWeight"}

\* A step that never owes: its cash, its holding and its price are no debts, and a
\* position it reports nothing of is the one it was given.
Unowed(k) == k.size \in Nat /\ k.price \in Nat
Funded(s) == StepState(s) /\ s.cash \in Nat /\ Unowed(s.kernel)
Tracked(k, s) == Funded(s) /\ (Pool!InPosition(s.kernel) => Pool!InPosition(k) \/ s.entered)

LEMMA ShareBounds ==
  ASSUME NEW rate, Thousandths(rate), NEW value \in Nat
  PROVE  /\ Pool!Portion(rate, value) \in Nat /\ Pool!Portion(rate, value) <= value
         /\ 1000 * Pool!Portion(rate, value) <= rate * value
<1> DEFINE a == rate * value
           q == a \div 1000
<1>1. a \in Nat /\ a <= 1000 * value
  <2>1. PICK k \in Nat : 1000 = rate + k
    <3>1. 1000 - rate \in Nat /\ 1000 = rate + (1000 - rate)
      BY DEF Thousandths
    <3>2. QED BY <3>1
  <2>2. rate \in Nat /\ k * value \in Nat /\ rate * value \in Nat
    BY DEF Thousandths
  <2>3. 1000 * value = rate * value + k * value
    BY <2>1, <2>2
  <2>4. QED BY <2>2, <2>3
<1>2. Pool!Portion(rate, value) = q
  BY DEF Pool!Portion
<1> HIDE DEF a
<1>3. q \in Nat /\ 1000 * q <= a
  BY <1>1, DivBounds
<1> HIDE DEF q
<1>4. q <= value
  BY <1>1, <1>3
<1>5. QED BY <1>2, <1>3, <1>4 DEF a

LEMMA FeeIsShare ==
  ASSUME PoolTerms, NEW price \in Nat, NEW size \in Nat
  PROVE  /\ Pool!FeeOn(price, size) \in Nat /\ Pool!FeeOn(price, size) <= price * size
         /\ 1000 * Pool!FeeOn(price, size) <= plan.rate * (price * size)
<1> DEFINE value == price * size
           fee == Pool!FeeOn(price, size)
<1>1. value \in Nat /\ Thousandths(plan.rate) /\ plan.rate \in Nat
  BY DEF PoolTerms, Thousandths
<1>2. Pool!Size(size) = size
  BY DEF Pool!Size
<1>3. CASE plan.rate = 0
  <2>1. fee = 0
    BY <1>3 DEF Pool!FeeOn, Pool!Fee, Pool!FeeOfSide, Pool!Fees
  <2> HIDE DEF fee, value
  <2>2. QED BY <1>1, <1>3, <2>1 DEF fee, value
<1>4. CASE plan.rate # 0
  <2>1. Pool!Fees = [kind |-> "Percentage", rate |-> plan.rate]
    BY <1>4 DEF Pool!Fees
  <2>2. fee = Pool!Portion(plan.rate, value)
    BY <1>2, <2>1 DEF Pool!FeeOn, Pool!Fee, Pool!FeeOfSide
  <2> HIDE DEF fee, value
  <2>3. ASSUME NEW rate, Thousandths(rate), fee = Pool!Portion(rate, value)
        PROVE  fee \in Nat /\ fee <= value /\ 1000 * fee <= rate * value
    BY <1>1, <2>3, ShareBounds
  <2>4. fee \in Nat /\ fee <= value /\ 1000 * fee <= plan.rate * value
    BY <1>1, <2>2, <2>3, Zenon
  <2>5. QED BY <2>4 DEF fee, value
<1>5. QED BY <1>3, <1>4

LEMMA SaleFunds ==
  ASSUME PoolTerms, NEW k, NEW s, Funded(s), NEW price \in Nat
  PROVE  Tracked(k, Pool!Sold(s, price))
<1> DEFINE size == s.kernel.size
           fee == Pool!FeeOn(price, size)
           cash == s.cash + price * size - fee
           booked == s.booked + (price - s.kernel.price) * size - s.kernel.fees - fee
           flat == [s.kernel EXCEPT !.size = 0, !.price = 0, !.fees = 0, !.since = 0]
           t == [s EXCEPT !.cash = cash, !.booked = booked, !.kernel = flat]
<1>1. Pool!Sold(s, price) = t
  BY DEF Pool!Sold
<1>2. size \in Nat /\ s.cash \in Nat
  BY DEF Funded, Unowed
<1> HIDE DEF size
<1>3. fee \in Nat /\ fee <= price * size /\ price * size \in Nat
  <2>1. price * size \in Nat
    BY <1>2
  <2>2. \A z \in Nat : Pool!FeeOn(price, z) \in Nat /\ Pool!FeeOn(price, z) <= price * z
    BY FeeIsShare
  <2>3. QED BY <1>2, <2>1, <2>2
<1> HIDE DEF fee
<1>4. cash \in Nat
  BY <1>2, <1>3
<1> HIDE DEF cash, booked
<1>5. StepState(t) /\ t.cash = cash /\ t.kernel.size = 0 /\ t.kernel.price = 0
  BY DEF Funded, StepState, Record, StepFields, KernelFields
<1> HIDE DEF t
<1>6. QED BY <1>1, <1>4, <1>5 DEF Tracked, Funded, Unowed, Pool!InPosition

LEMMA PurchaseFunds ==
  ASSUME PoolTerms, NEW k, NEW s, Tracked(k, s), NEW price \in Nat \ {0}, NEW decided
  PROVE  Tracked(k, Pool!Bought(s, price, decided))
<1> DEFINE unit == price * (1000 + plan.rate)
           pot == 1000 * s.cash
           size == pot \div unit
           value == price * size
           fee == Pool!FeeOn(price, size)
           cash == s.cash - value - fee
           held == [s.kernel EXCEPT !.size = size, !.price = price, !.fees = fee, !.since = decided]
           t == [s EXCEPT !.cash = cash, !.entered = TRUE, !.kernel = held]
<1>1. Pool!Bought(s, price, decided) = IF size = 0 THEN s ELSE t
  BY DEF Pool!Bought
<1>2. s.cash \in Nat /\ plan.rate \in Nat
  BY DEF Tracked, Funded, PoolTerms, Thousandths
<1>3. size \in Nat /\ unit * size <= pot
  <2>1. unit \in Nat \ {0} /\ pot \in Nat
    <3>1. 1000 + plan.rate \in Nat \ {0}
      BY <1>2
    <3>2. \A n \in Nat \ {0} : price * n \in Nat \ {0}
      OBVIOUS
    <3>3. QED BY <1>2, <3>1, <3>2
  <2> DEFINE u == unit
             c == pot
  <2>2. u \in Nat \ {0} /\ c \in Nat
    BY <2>1
  <2> HIDE DEF u, c
  <2>3. c \div u \in Nat /\ u * (c \div u) <= c
    BY <2>2, DivBounds
  <2>4. QED BY <2>3 DEF u, c
<1>4. unit * size = 1000 * value + plan.rate * value
  <2> HIDE DEF size
  <2>1. size \in Int /\ price \in Int /\ plan.rate \in Int
    BY <1>2, <1>3
  <2> DEFINE rate == plan.rate
  <2> HIDE DEF rate
  <2>2. (price * (1000 + rate)) * size = 1000 * (price * size) + rate * (price * size)
    BY <2>1 DEF rate
  <2>3. QED BY <2>2 DEF rate
<1> HIDE DEF size, unit
<1>5. value \in Nat /\ fee \in Nat /\ 1000 * fee <= plan.rate * value
  <2>1. \A z \in Nat : Pool!FeeOn(price, z) \in Nat /\ 1000 * Pool!FeeOn(price, z) <= plan.rate * (price * z)
    BY FeeIsShare
  <2>2. QED BY <1>3, <2>1
<1> HIDE DEF value, fee
<1>6. cash \in Nat
  <2>1. plan.rate * value \in Nat
    BY <1>2, <1>5
  <2> DEFINE share == plan.rate * value
  <2>2. share \in Nat /\ 1000 * fee <= share /\ 1000 * value + share <= 1000 * s.cash
    BY <1>3, <1>4, <1>5, <2>1
  <2> HIDE DEF share
  <2>3. QED BY <1>2, <1>5, <2>2
<1> HIDE DEF cash
<1>7. StepState(t) /\ t.cash = cash /\ t.kernel.size = size /\ t.kernel.price = price /\ t.entered = TRUE
  BY DEF Tracked, Funded, StepState, Record, StepFields, KernelFields
<1> HIDE DEF t
<1>8. Tracked(k, t)
  BY <1>3, <1>6, <1>7 DEF Tracked, Funded, Unowed
<1>9. QED BY <1>1, <1>8

\* Every part of a step, and the step.
LEMMA PendingTracks ==
  ASSUME NEW k, NEW s, Tracked(k, s), NEW entry, NEW exit
  PROVE  /\ Tracked(k, [s EXCEPT !.kernel.entry = entry, !.kernel.exit = exit])
         /\ Tracked(k, [s EXCEPT !.kernel.exit = exit])
         /\ Tracked(k, [s EXCEPT !.kernel.entry = entry])
<1>1. ASSUME NEW l, l \in {[s.kernel EXCEPT !.entry = entry, !.exit = exit], [s.kernel EXCEPT !.exit = exit],
                           [s.kernel EXCEPT !.entry = entry]}
      PROVE  Tracked(k, [s EXCEPT !.kernel = l])
  <2>1. Record(l, KernelFields) /\ l.size = s.kernel.size /\ l.price = s.kernel.price
    BY <1>1 DEF Tracked, Funded, StepState, Record, KernelFields
  <2> DEFINE t == [s EXCEPT !.kernel = l]
  <2>2. Record(t, StepFields) /\ t.kernel = l /\ t.cash = s.cash /\ t.entered = s.entered
    BY DEF Tracked, Funded, StepState, Record, StepFields
  <2> HIDE DEF t
  <2>3. Tracked(k, t)
    BY <2>1, <2>2 DEF Tracked, Funded, StepState, Unowed, Pool!InPosition
  <2>4. QED BY <2>3 DEF t
<1>2. QED BY <1>1 DEF Tracked, Funded, StepState, Record, StepFields, KernelFields

OpenQuote(x) == x.open \in Nat \ {0} /\ x.low \in Int /\ x.close \in Nat \ {0}

LEMMA DeferredTracks ==
  ASSUME PoolTerms, NEW k, NEW s, Tracked(k, s), NEW x, OpenQuote(x)
  PROVE  Tracked(k, Pool!Deferred(s, x))
<1> DEFINE l == s.kernel
           sold == IF l.exit /\ Pool!InPosition(l) THEN Pool!Sold(s, x.open) ELSE s
           filled == IF l.entry > 0 /\ ~Pool!InPosition(sold.kernel) THEN Pool!Bought(sold, x.open, l.entry) ELSE sold
<1>1. Tracked(k, sold)
  <2>1. Funded(s) /\ x.open \in Nat
    BY DEF Tracked, OpenQuote
  <2>2. Tracked(k, Pool!Sold(s, x.open))
    BY <2>1, SaleFunds
  <2>3. QED BY <2>2
<1>2. Tracked(k, filled)
  <2> DEFINE price == x.open
  <2>1. price \in Nat \ {0}
    BY DEF OpenQuote
  <2> HIDE DEF sold, price
  <2>2. \A d : Tracked(k, Pool!Bought(sold, price, d))
    BY <1>1, <2>1, PurchaseFunds
  <2>3. QED BY <1>1, <2>2 DEF price
<1>3. Pool!Deferred(s, x) = [filled EXCEPT !.kernel.entry = 0, !.kernel.exit = FALSE]
  BY DEF Pool!Deferred
<1> HIDE DEF filled
<1>4. \A e, f : Tracked(k, [filled EXCEPT !.kernel.entry = e, !.kernel.exit = f])
  BY <1>2, PendingTracks
<1>5. Tracked(k, [filled EXCEPT !.kernel.entry = 0, !.kernel.exit = FALSE])
  BY <1>4
<1>6. QED BY <1>3, <1>5

LEMMA ExitsTrack ==
  ASSUME PoolTerms, NEW k, NEW s, Tracked(k, s), NEW x, OpenQuote(x), NEW exit
  PROVE  Tracked(k, Pool!Exits(s, x, exit))
<1> DEFINE l == s.kernel
           stop == Pool!Under(l.price)
           low == Pool!LesserOf(x.open, stop)
           stopped == plan.stop > 0 /\ x.low <= stop
<1>1. low \in Nat /\ x.close \in Nat
  <2>1. l.price \in Nat /\ Thousandths(plan.stop)
    BY DEF Tracked, Funded, Unowed, PoolTerms
  <2>2. \A rate, value : Thousandths(rate) /\ value \in Nat =>
          Pool!Portion(rate, value) \in Nat /\ Pool!Portion(rate, value) <= value
    BY ShareBounds
  <2>5. Pool!Portion(plan.stop, l.price) \in Nat /\ Pool!Portion(plan.stop, l.price) <= l.price
    BY <2>1, <2>2, Zenon
  <2>3. stop \in Nat
    BY <2>1, <2>5 DEF Pool!Under
  <2> HIDE DEF stop
  <2>4. QED BY <2>3 DEF Pool!LesserOf, OpenQuote
<1>2. \A price \in Nat : Tracked(k, Pool!Sold(s, price))
  BY SaleFunds DEF Tracked
<1>3. Pool!Exits(s, x, exit) \in {s, Pool!Sold(s, low), Pool!Sold(s, x.close)}
  <2>1. CASE Pool!InPosition(l) /\ stopped
    BY <2>1 DEF Pool!Exits
  <2>2. CASE Pool!InPosition(l) /\ ~stopped /\ exit /\ ~plan.nextOpen
    BY <2>2 DEF Pool!Exits
  <2>3. CASE ~(Pool!InPosition(l) /\ stopped) /\ ~(Pool!InPosition(l) /\ ~stopped /\ exit /\ ~plan.nextOpen)
    BY <2>3 DEF Pool!Exits
  <2>4. QED BY <2>1, <2>2, <2>3
<1> HIDE DEF low
<1>4. QED BY <1>1, <1>2, <1>3

LEMMA EntriesTrack ==
  ASSUME PoolTerms, NEW k, NEW s, Tracked(k, s), NEW x, OpenQuote(x), NEW entry, NEW now
  PROVE  Tracked(k, Pool!Entries(s, x, entry, now))
<1> DEFINE price == x.close
<1>1. price \in Nat \ {0}
  BY DEF OpenQuote
<1> HIDE DEF price
<1>2. Tracked(k, Pool!Bought(s, price, now))
  BY <1>1, PurchaseFunds
<1>3. Tracked(k, [s EXCEPT !.kernel.entry = now])
  BY PendingTracks
<1>4. QED BY <1>2, <1>3 DEF Pool!Entries, price

LEMMA StepTracks ==
  ASSUME PoolTerms, NEW k, Kernel(k), Unowed(k), NEW lent \in Nat, NEW x, OpenQuote(x), NEW entry, NEW exit, NEW now
  PROVE  Tracked(k, Pool!KernelStep(k, lent, x, entry, exit, now))
<1> DEFINE s == [kernel |-> k, cash |-> lent, booked |-> 0, entered |-> FALSE]
           opened == IF plan.nextOpen THEN Pool!Deferred(s, x) ELSE s
           stashed == IF plan.nextOpen /\ exit THEN [opened EXCEPT !.kernel.exit = TRUE] ELSE opened
           exited == Pool!Exits(stashed, x, exit)
<1>1. Tracked(k, s)
  BY DEF Tracked, Funded, StepState, Record, StepFields, Kernel
<1>2. Pool!KernelStep(k, lent, x, entry, exit, now) = Pool!Entries(exited, x, entry, now)
  BY DEF Pool!KernelStep
<1> HIDE DEF s
<1>3. Tracked(k, opened)
  BY <1>1, DeferredTracks
<1> HIDE DEF opened
<1>4. Tracked(k, stashed)
  <2>1. \A e : Tracked(k, [opened EXCEPT !.kernel.exit = e])
    BY <1>3, PendingTracks
  <2>2. QED BY <1>3, <2>1
<1> HIDE DEF stashed
<1>5. Tracked(k, exited)
  BY <1>4, ExitsTrack
<1> HIDE DEF exited
<1>6. Tracked(k, Pool!Entries(exited, x, entry, now))
  BY <1>5, EntriesTrack
<1>7. QED BY <1>2, <1>6

-----------------------------------------------------------------------------
(* The book of a pool that owes nothing *)
PoolSafe(b) == PoolBook(b) /\ b.cash \in Nat /\ \A n \in Pool!Names : Unowed(b.kernels[n])
Slots(b) == plan.maxPositions > 0 => Cardinality(Pool!Held(b)) <= plan.maxPositions
OpenQuoted(bar) == \A n \in Pool!Names : OpenQuote(bar[n])

LEMMA PoolNamesFinite ==
  ASSUME PoolTerms
  PROVE  /\ IsFiniteSet(Pool!Names)
         /\ \A b : Pool!Held(b) \in SUBSET Pool!Names /\ IsFiniteSet(Pool!Held(b)) /\ Cardinality(Pool!Held(b)) \in Nat
         /\ \A S : Pool!Cardinality(S) = Cardinality(S)
<1>1. IsFiniteSet(Pool!Names)
  <2>1. \A n \in Nat : IsFiniteSet(1..n)
    BY FS_Interval
  <2>2. QED BY <2>1 DEF PoolTerms, Pool!Names
<1>2. ASSUME NEW b PROVE Pool!Held(b) \in SUBSET Pool!Names
  BY DEF Pool!Held
<1>3. QED BY <1>1, <1>2, FS_Subset, FS_CardinalityType DEF Pool!Cardinality, Cardinality

\* The sales of a bar free money and places.
LEMMA ExitsAreSafe ==
  ASSUME PoolTerms, NEW b, PoolSafe(b), NEW bar, OpenQuoted(bar)
  PROVE  /\ PoolSafe(Pool!ExitPhase(b, bar))
         /\ Pool!Held(Pool!ExitPhase(b, bar)) \subseteq Pool!Held(b)
<1> DEFINE S == Pool!Held(b)
           left == [n \in Pool!Names |-> Pool!Left(b, bar, n)]
           p == [n \in S |-> left[n].cash]
           q == [n \in S |-> left[n].booked]
           after == [n \in Pool!Names |-> IF n \in S THEN left[n].kernel ELSE b.kernels[n]]
           cash == b.cash + SumFunction(p)
           booked == b.booked + SumFunction(q)
           c == Pool!ExitPhase(b, bar)
<1>1. IsFiniteSet(S) /\ S \in SUBSET Pool!Names
  BY PoolNamesFinite
<1>2. c = [b EXCEPT !.kernels = after, !.cash = cash, !.booked = booked]
  <2>1. after = [n \in Pool!Names |-> IF n \in S THEN Pool!Left(b, bar, n).kernel ELSE b.kernels[n]]
    OBVIOUS
  <2>2. p = [n \in S |-> Pool!Left(b, bar, n).cash] /\ q = [n \in S |-> Pool!Left(b, bar, n).booked]
    BY <1>1
  <2> HIDE DEF after, p, q
  <2>3. QED BY <2>1, <2>2, PoolSum DEF Pool!ExitPhase, Pool!Over
<1>3. ASSUME NEW n \in S PROVE Tracked(b.kernels[n], left[n])
  <2> DEFINE k == b.kernels[n]
             own == bar[n]
             leave == Pool!CleanedAt(b, bar, n).leave
             now == b.bar
             lent == 0
  <2>1. Kernel(k) /\ Unowed(k) /\ n \in Pool!Names /\ OpenQuote(own)
    BY <1>1 DEF PoolSafe, PoolBook, OpenQuoted
  <2>2. left[n] = Pool!KernelStep(k, lent, own, FALSE, leave, now)
    BY <2>1 DEF Pool!Left
  <2>3. lent \in Nat
    OBVIOUS
  <2> HIDE DEF left, k, own, leave, now, lent
  <2>4. Tracked(k, Pool!KernelStep(k, lent, own, FALSE, leave, now))
    BY <2>1, <2>3, StepTracks
  <2>5. QED BY <2>2, <2>4 DEF k
<1> HIDE DEF left
<1>4. \A n \in Pool!Names : Unowed(after[n])
  BY <1>3 DEF Tracked, Funded, PoolSafe
<1>5. cash \in Nat
  <2>1. p \in [S -> Nat]
    BY <1>3 DEF Tracked, Funded
  <2> HIDE DEF p, S
  <2>2. SumFunction(p) \in Nat
    BY <1>1, <2>1, SumIsNat
  <2>3. QED BY <2>2 DEF PoolSafe
<1> HIDE DEF after, p, q, cash, booked
<1>6. PoolBook(c) /\ Continues(b, c)
  BY PoolExitsKeep DEF PoolSafe
<1> HIDE DEF c
<1>7. c.cash = cash /\ c.kernels = after
  BY <1>2 DEF PoolSafe, PoolBook, Record, PoolFields
<1>8. PoolSafe(c) /\ Pool!Held(c) \subseteq Pool!Held(b)
  BY <1>4, <1>5, <1>6, <1>7 DEF PoolSafe, Continues
<1>9. QED BY <1>8 DEF c

\* A bar's turns, with the number of positions counted along the way.
AccSafe(acc) ==
  /\ PoolSafe(acc.b) /\ acc.open \in Nat /\ Cardinality(Pool!Held(acc.b)) <= acc.open
  /\ plan.maxPositions > 0 => acc.open <= plan.maxPositions

LEMMA LentIsHeld ==
  ASSUME PoolTerms, NEW acc, AccSafe(acc)
  PROVE  Pool!Lent(acc) \in Nat /\ Pool!Lent(acc) <= acc.b.cash
<1> DEFINE lent == Pool!Lent(acc)
           cash == acc.b.cash
           places == Pool!Ceiling - acc.open
<1>1. cash \in Nat /\ acc.open \in Nat /\ Pool!Ceiling \in Nat
  BY DEF PoolTerms, AccSafe, PoolSafe, Pool!Ceiling
<1>2. Pool!Ceiling > acc.open => places \in Nat \ {0}
  BY <1>1
<1>3. lent \in {cash, 0} \/ (Pool!Ceiling > acc.open /\ lent = cash \div places)
  BY <1>1 DEF Pool!Lent, Pool!Budget, PoolTerms
<1> HIDE DEF cash, lent, places
<1>4. ASSUME places \in Nat \ {0}
      PROVE  cash \div places \in Nat /\ cash \div places <= cash
  <2> DEFINE each == cash \div places
  <2>1. each \in Nat /\ places * each <= cash
    BY <1>1, <1>4, DivBounds
  <2> HIDE DEF each
  <2>2. each <= places * each /\ places * each \in Nat
    BY <1>4, <2>1
  <2>3. each <= cash
    BY <1>1, <2>1, <2>2
  <2>4. QED BY <2>1, <2>3 DEF each
<1>5. lent \in Nat /\ lent <= cash
  BY <1>1, <1>2, <1>3, <1>4
<1>6. QED BY <1>5 DEF lent, cash

LEMMA TurnIsSafe ==
  ASSUME PoolTerms, NEW acc, AccSafe(acc), NEW bar, OpenQuoted(bar), NEW n \in Pool!Names
  PROVE  AccSafe(Pool!Turn(acc, bar, n))
<1> DEFINE lent == Pool!Lent(acc)
           k == acc.b.kernels[n]
           own == bar[n]
           now == acc.b.bar
           s == Pool!Lends(acc, bar, n)
           cash == acc.b.cash - (lent - s.cash)
           ks == [acc.b.kernels EXCEPT ![n] = s.kernel]
           d == [acc.b EXCEPT !.kernels[n] = s.kernel, !.cash = cash]
           e == [acc EXCEPT !.b.rejected = @ + 1]
           f == [b |-> d, open |-> acc.open + (IF s.entered THEN 1 ELSE 0)]
           t == Pool!Turn(acc, bar, n)
<1>0. lent \in Nat /\ lent <= acc.b.cash /\ acc.b.cash \in Nat /\ acc.open \in Nat
  BY LentIsHeld DEF AccSafe, PoolSafe
<1>1. \/ (t.b = acc.b \/ t.b = [acc.b EXCEPT !.rejected = @ + 1]) /\ t.open = acc.open
      \/ ~Pool!InPosition(k) /\ (plan.maxPositions > 0 => acc.open < plan.maxPositions) /\ t = f
  <2>1. CASE ~Pool!Calls(acc, bar, n)
    BY <2>1 DEF Pool!Turn
  <2>2. CASE Pool!Calls(acc, bar, n) /\ ~Pool!Admitted(acc.b, acc.open)
    <3>1. t = e
      BY <2>2 DEF Pool!Turn
    <3> HIDE DEF t
    <3>2. QED BY <3>1
  <2>3. CASE Pool!Calls(acc, bar, n) /\ Pool!Admitted(acc.b, acc.open)
    <3>1. t = IF lent <= 0 THEN acc ELSE f
      BY <2>3 DEF Pool!Turn
    <3>2. ~Pool!InPosition(k)
      BY <2>3 DEF Pool!Calls
    <3>3. plan.maxPositions > 0 => acc.open < plan.maxPositions
      BY <2>3 DEF Pool!Admitted
    <3> HIDE DEF t, f, lent, k
    <3>4. QED BY <3>1, <3>2, <3>3
  <2>4. QED BY <2>1, <2>2, <2>3
<1>2. CASE (t.b = acc.b \/ t.b = [acc.b EXCEPT !.rejected = @ + 1]) /\ t.open = acc.open
  <2> DEFINE c == [acc.b EXCEPT !.rejected = @ + 1]
  <2>1. PoolBook(c) /\ c.cash = acc.b.cash /\ c.kernels = acc.b.kernels
    BY DEF AccSafe, PoolSafe, PoolBook, Record, PoolFields
  <2> HIDE DEF c, t
  <2>2. PoolSafe(c) /\ Pool!Held(c) = Pool!Held(acc.b)
    BY <2>1 DEF AccSafe, PoolSafe, Pool!Held
  <2>3. PoolSafe(t.b) /\ Pool!Held(t.b) = Pool!Held(acc.b) /\ t.open = acc.open
    BY <1>2, <2>2 DEF c, AccSafe
  <2>4. AccSafe(t)
    BY <2>3 DEF AccSafe
  <2>5. QED BY <2>4 DEF t
<1>3. CASE ~Pool!InPosition(k) /\ (plan.maxPositions > 0 => acc.open < plan.maxPositions) /\ t = f
  <2>1. Kernel(k) /\ Unowed(k) /\ OpenQuote(own) /\ PoolSafe(acc.b)
    BY DEF AccSafe, PoolSafe, PoolBook, OpenQuoted
  <2>2. s = Pool!KernelStep(k, lent, own, TRUE, FALSE, now)
    BY DEF Pool!Lends
  <2>3. Tracked(k, s)
    <3> HIDE DEF s, k, lent, own, now
    <3>1. QED BY <1>0, <2>1, <2>2, StepTracks
  <2> DEFINE l == s.kernel
             more == IF s.entered THEN 1 ELSE 0
  <2>4. /\ Kernel(l) /\ Unowed(l) /\ s.cash \in Nat
        /\ Pool!InPosition(l) => s.entered
    <3>1. Kernel(l)
      <4> HIDE DEF s, k, lent, own, now
      <4>1. Kernel(Pool!KernelStep(k, lent, own, TRUE, FALSE, now).kernel)
        BY <2>1, PoolStepEnters
      <4>2. QED BY <2>2, <4>1
    <3> HIDE DEF s, k
    <3>2. QED BY <1>3, <2>3, <3>1 DEF Tracked, Funded
  <2>5. ks = [m \in Pool!Names |-> IF m = n THEN l ELSE acc.b.kernels[m]]
    <3> HIDE DEF s
    <3>1. QED BY <2>1 DEF PoolSafe, PoolBook
  <2>6. cash \in Nat
    <3> HIDE DEF s, lent
    <3>1. QED BY <1>0, <2>4
  <2>7. d = [acc.b EXCEPT !.kernels = ks, !.cash = cash]
    <3> HIDE DEF s, lent
    <3>1. QED BY <2>1 DEF PoolSafe, PoolBook, Record, PoolFields
  <2> HIDE DEF s, l, ks, k, lent, own, now, cash, d
  <2>8. Record(d, PoolFields) /\ d.cash = cash /\ d.kernels = ks
    BY <2>1, <2>7 DEF PoolSafe, PoolBook, Record, PoolFields
  <2>9. ks = [m \in Pool!Names |-> ks[m]] /\ \A m \in Pool!Names : Kernel(ks[m]) /\ Unowed(ks[m])
    BY <2>1, <2>4, <2>5 DEF PoolSafe, PoolBook
  <2>10. PoolSafe(d)
    BY <2>6, <2>8, <2>9 DEF PoolSafe, PoolBook
  <2>11. Cardinality(Pool!Held(d)) <= acc.open + more
    <3> DEFINE A == Pool!Held(acc.b)
               B == Pool!Held(d)
    <3>1. /\ IsFiniteSet(A) /\ IsFiniteSet(B) /\ Cardinality(A) \in Nat /\ Cardinality(B) \in Nat
          /\ Cardinality(A) <= acc.open
      BY PoolNamesFinite DEF AccSafe
    <3>2. B \subseteq A \cup {n} /\ (n \in B => s.entered)
      BY <2>4, <2>5, <2>8 DEF Pool!Held
    <3> HIDE DEF A, B
    <3>3. CASE s.entered
      <4> DEFINE C == A \cup {n}
      <4>4. IsFiniteSet(C) /\ Cardinality(C) \in {Cardinality(A), Cardinality(A) + 1}
        BY <3>1, FS_AddElement
      <4> HIDE DEF C
      <4>1. IsFiniteSet(C) /\ Cardinality(C) <= Cardinality(A) + 1 /\ Cardinality(C) \in Nat
        BY <3>1, <4>4
      <4>5. B \subseteq C
        BY <3>2 DEF C
      <4>2. Cardinality(B) <= Cardinality(C)
        BY <4>1, <4>5, FS_Subset
      <4>3. QED BY <1>0, <3>1, <3>3, <4>1, <4>2 DEF B
    <3>4. CASE ~s.entered
      <4>1. B \subseteq A
        BY <3>2, <3>4
      <4>2. Cardinality(B) <= Cardinality(A)
        BY <3>1, <4>1, FS_Subset
      <4>3. QED BY <1>0, <3>1, <3>4, <4>2 DEF B
    <3>5. QED BY <3>3, <3>4
  <2>12. more \in {0, 1} /\ f.b = d /\ f.open = acc.open + more
    OBVIOUS
  <2> HIDE DEF f, t, more
  <2>13. plan.maxPositions > 0 => acc.open + more <= plan.maxPositions
    BY <1>0, <1>3, <2>12 DEF PoolTerms
  <2>14. AccSafe(f)
    BY <1>0, <2>10, <2>11, <2>12, <2>13 DEF AccSafe
  <2>15. QED BY <1>3, <2>14 DEF t
<1>4. QED BY <1>1, <1>2, <1>3

LEMMA EntriesAreSafe ==
  ASSUME PoolTerms, NEW b, PoolSafe(b), Slots(b), NEW bar, OpenQuoted(bar)
  PROVE  PoolSafe(Pool!EntryPhase(b, bar)) /\ Slots(Pool!EntryPhase(b, bar))
<1>0. plan.names \in Nat
  BY DEF PoolTerms
<1>1. PICK g : Takes(g, b, bar) /\ Pool!EntryPhase(b, bar) = g[plan.names].b
  BY <1>0, EntryPhaseTakes
<1> DEFINE S == {n \in 0..plan.names : AccSafe(g[n])}
<1>2. 0 \in S
  <2>1. g[0] = Begins(b)
    BY <1>0, <1>1 DEF Takes, After
  <2>2. AccSafe(Begins(b))
    BY PoolNamesFinite DEF AccSafe, Begins, Slots
  <2>3. QED BY <1>0, <2>1, <2>2
<1>3. ASSUME NEW n \in 1..plan.names, n - 1 \in S PROVE n \in S
  <2> DEFINE acc == g[n - 1]
  <2>1. AccSafe(acc) /\ n \in Pool!Names
    BY <1>3 DEF Pool!Names
  <2>2. g[n] = Pool!Turn(acc, bar, n)
    BY <1>0, <1>1 DEF Takes, After
  <2> HIDE DEF acc
  <2>3. AccSafe(g[n])
    BY <2>1, <2>2, TurnIsSafe
  <2>4. QED BY <2>3
<1> HIDE DEF S
<1>4. \A n \in 0..plan.names : n \in S
  BY <1>0, <1>2, <1>3, UpTo
<1>5. plan.names \in S
  BY <1>0, <1>4
<1>6. AccSafe(g[plan.names])
  BY <1>5 DEF S
<1> DEFINE acc == g[plan.names]
<1>7. /\ PoolSafe(acc.b) /\ acc.open \in Nat /\ Cardinality(Pool!Held(acc.b)) <= acc.open
      /\ plan.maxPositions > 0 => acc.open <= plan.maxPositions
  BY <1>6 DEF AccSafe
<1>8. Cardinality(Pool!Held(acc.b)) \in Nat /\ plan.maxPositions \in Nat
  BY PoolNamesFinite DEF PoolTerms
<1>9. Slots(acc.b)
  BY <1>7, <1>8 DEF Slots
<1>10. QED BY <1>1, <1>7, <1>9

\* The pool owes nothing, and holds no more than it may.
PoolLimited ==
  /\ plan \in PoolPlans /\ PoolTerms /\ PoolSafe(book) /\ Slots(book)
  /\ \A n \in Pool!Names : book.last[n] \in Nat

LEMMA PoolLimitedStays ==
  ASSUME plan' = plan, plan \in PoolPlans, PoolTerms, PoolSafe(book'), Slots(book'),
         \A n \in Pool!Names : book'.last[n] \in Nat
  PROVE  PoolLimited'
<1>1. PoolTerms'
  BY DEF PoolTerms
<1>2. PoolSafe(book)'
  BY DEF PoolSafe, PoolBook, Pool!Names
<1>3. Slots(book)'
  BY DEF Slots, Pool!Held, Pool!Names
<1>4. (\A n \in Pool!Names : book.last[n] \in Nat)'
  BY DEF Pool!Names
<1>5. QED BY <1>1, <1>2, <1>3, <1>4 DEF PoolLimited

LEMMA PoolTermsOfPlan ==
  ASSUME plan \in PoolPlans
  PROVE  /\ PoolTerms /\ plan.cash \in Nat
         /\ \A bar \in PoolBars : OpenQuoted(bar)
<1>1. PoolTerms /\ plan.cash \in Nat
  BY PoolAssumption, PoolLimitAssumption DEF PoolTerms, Thousandths
<1>2. ASSUME NEW bar \in PoolBars PROVE OpenQuoted(bar)
  BY PoolAssumption, PoolLimitAssumption DEF OpenQuoted, OpenQuote, Pool!Names
<1>3. QED BY <1>1, <1>2

LEMMA IdleIsSafe ==
  ASSUME PoolTerms, NEW b, Record(b, PoolFields), b.cash \in Nat, b.kernels = [n \in Pool!Names |-> Pool!Idle]
  PROVE  PoolSafe(b) /\ Slots(b)
<1>1. \A n \in Pool!Names : b.kernels[n] = Pool!Idle
  OBVIOUS
<1>2. Kernel(Pool!Idle) /\ Unowed(Pool!Idle) /\ ~Pool!InPosition(Pool!Idle)
  BY DEF Kernel, Record, KernelFields, Unowed, Pool!Idle, Pool!InPosition
<1>3. b.kernels = [n \in Pool!Names |-> b.kernels[n]]
  BY <1>1
<1>4. Pool!Held(b) = {}
  BY <1>1, <1>2 DEF Pool!Held
<1>5. PoolSafe(b)
  BY <1>1, <1>2, <1>3 DEF PoolSafe, PoolBook
<1>6. Slots(b)
  BY <1>4, FS_EmptySet DEF Slots, PoolTerms
<1>7. QED BY <1>5, <1>6

LEMMA PoolLimitedStarts ==
  ASSUME Pool!Init
  PROVE  PoolLimited
<1>1. plan \in PoolPlans
  BY DEF Pool!Init
<1>2. PoolTerms /\ plan.cash \in Nat
  BY <1>1, PoolTermsOfPlan
<1>3. /\ Record(book, PoolFields) /\ book.kernels = [n \in Pool!Names |-> Pool!Idle] /\ book.cash = plan.cash
      /\ book.last = [n \in Pool!Names |-> 0]
  BY DEF Pool!Init, Record, PoolFields
<1>4. PoolSafe(book) /\ Slots(book)
  BY <1>2, <1>3, IdleIsSafe
<1>5. QED BY <1>1, <1>2, <1>3, <1>4 DEF PoolLimited

LEMMA PoolLimitedBar ==
  ASSUME PoolLimited, NEW bar \in PoolBars, Pool!Bar(bar)
  PROVE  PoolLimited'
<1> DEFINE a == [book EXCEPT !.bar = @ + 1]
           x == Pool!ExitPhase(a, bar)
           y == Pool!EntryPhase(x, bar)
           z == Pool!Marked(y, bar)
           counts == [n \in Pool!Names |-> Pool!CountAfter(book.counts[n], 1, Pool!CleanedAt(book, bar, n))]
           last == [n \in Pool!Names |-> bar[n].close]
<1>0. plan' = plan /\ plan \in PoolPlans /\ PoolTerms /\ PoolSafe(book) /\ Slots(book)
  BY DEF Pool!Bar, PoolLimited
<1>1. book' = [z EXCEPT !.counts = counts, !.last = last]
  BY DEF Pool!Bar, Pool!OnBar
<1>2. OpenQuoted(bar)
  BY <1>0, PoolTermsOfPlan
<1>3. PoolSafe(a) /\ Slots(a)
  <2>1. PoolBook(a) /\ a.cash = book.cash /\ a.kernels = book.kernels
    BY <1>0 DEF PoolSafe, PoolBook, Record, PoolFields
  <2> HIDE DEF a
  <2>2. QED BY <1>0, <2>1 DEF PoolSafe, Slots, Pool!Held
<1> HIDE DEF a
<1>4. PoolSafe(x) /\ Slots(x)
  <2>1. PoolSafe(x) /\ Pool!Held(x) \subseteq Pool!Held(a)
    BY <1>0, <1>2, <1>3, ExitsAreSafe
  <2>2. Cardinality(Pool!Held(x)) <= Cardinality(Pool!Held(a))
    BY <1>0, <2>1, PoolNamesFinite, FS_Subset
  <2>3. Cardinality(Pool!Held(x)) \in Nat /\ Cardinality(Pool!Held(a)) \in Nat /\ plan.maxPositions \in Nat
    BY <1>0, PoolNamesFinite DEF PoolTerms
  <2> HIDE DEF x
  <2>4. QED BY <1>3, <2>1, <2>2, <2>3 DEF Slots
<1> HIDE DEF x
<1>5. PoolSafe(y) /\ Slots(y)
  BY <1>0, <1>2, <1>4, EntriesAreSafe
<1> HIDE DEF y
<1>6. PoolBook(z) /\ z.cash = y.cash /\ z.kernels = y.kernels
  <2> DEFINE equity == y.cash + Pool!Over(Pool!Names, LAMBDA n : y.kernels[n].size * bar[n].close)
             peak == Pool!GreaterOf(y.peak, equity)
             halted == y.halted \/ (plan.maxDrawdown > 0 /\ (peak - equity) * 100 >= plan.maxDrawdown * peak)
  <2>1. z = [y EXCEPT !.curve = equity, !.peak = peak, !.halted = halted]
    BY DEF Pool!Marked
  <2> HIDE DEF z, equity, peak, halted
  <2>2. QED BY <1>5, <2>1 DEF PoolSafe, PoolBook, Record, PoolFields
<1>7. \A n \in Pool!Names : last[n] \in Nat
  BY <1>2 DEF OpenQuoted, OpenQuote
<1> HIDE DEF z, counts, last
<1>8. PoolBook(book') /\ book'.cash = y.cash /\ book'.kernels = y.kernels /\ book'.last = last
  BY <1>1, <1>6 DEF PoolBook, Record, PoolFields
<1>9. PoolSafe(book') /\ Slots(book')
  BY <1>5, <1>8 DEF PoolSafe, Slots, Pool!Held
<1>10. QED BY <1>0, <1>7, <1>8, <1>9, PoolLimitedStays

LEMMA PoolLimitedFinish ==
  ASSUME PoolLimited, Pool!Finish
  PROVE  PoolLimited'
<1> DEFINE S == Pool!Held(book)
           paid == [n \in S |-> book.kernels[n].size * book.last[n]]
           cash == book.cash + SumFunction(paid)
           idle == [n \in Pool!Names |-> Pool!Idle]
<1>0. plan' = plan /\ plan \in PoolPlans /\ PoolTerms /\ PoolSafe(book) /\ \A n \in Pool!Names : book.last[n] \in Nat
  BY DEF Pool!Finish, PoolLimited
<1>1. PICK booked : book' = [book EXCEPT !.cash = cash, !.curve = cash, !.ended = TRUE, !.booked = booked, !.kernels = idle]
  BY PoolSum DEF Pool!Finish, Pool!Over
<1>2. cash \in Nat
  <2>1. IsFiniteSet(S) /\ S \in SUBSET Pool!Names
    BY <1>0, PoolNamesFinite
  <2>2. \A n \in S : book.kernels[n].size \in Nat /\ book.last[n] \in Nat
    BY <1>0, <2>1 DEF PoolSafe, Unowed
  <2>3. \A i, j \in Nat : i * j \in Nat
    OBVIOUS
  <2>4. paid \in [S -> Nat]
    BY <2>2, <2>3
  <2> HIDE DEF paid, S
  <2>5. SumFunction(paid) \in Nat
    BY <2>1, <2>4, SumIsNat
  <2>6. QED BY <1>0, <2>5 DEF PoolSafe
<1> HIDE DEF cash
<1>3. Record(book', PoolFields) /\ book'.cash = cash /\ book'.kernels = idle /\ book'.last = book.last
  BY <1>0, <1>1 DEF PoolSafe, PoolBook, Record, PoolFields
<1>4. PoolSafe(book') /\ Slots(book')
  BY <1>0, <1>2, <1>3, IdleIsSafe
<1>5. QED BY <1>0, <1>3, <1>4, PoolLimitedStays

LEMMA PoolWithin ==
  ASSUME PoolLimited
  PROVE  Pool!PoolHolds
<1>1. book.cash \in Nat /\ Pool!Cardinality(Pool!Held(book)) = Cardinality(Pool!Held(book))
  BY PoolNamesFinite DEF PoolLimited, PoolSafe
<1>2. QED BY <1>1 DEF Pool!PoolHolds, PoolLimited, Slots

-----------------------------------------------------------------------------
(* The array operators of a desk: positions read back from the signals. *)

Decision == [enter : BOOLEAN, leave : BOOLEAN]

\* What the positions of q are at i: an entry so far, and no exit since.
Opens(q, i) == \E k \in 1..i : q[k].enter /\ \A j \in k..i : ~q[j].leave

\* The fold of the position over some of the bars, the last of them first.
Latest(s) == CHOOSE x \in s : \A y \in s : x >= y
Fold(g, q, s) == IF s = {} THEN FALSE ELSE (g[s \ {Latest(s)}] \/ q[Latest(s)].enter) /\ ~q[Latest(s)].leave
Folds(g, q) == g = [s \in SUBSET DOMAIN q |-> Fold(g, q, s)]
Among(q, s) == \E k \in s : q[k].enter /\ \A j \in s : j >= k => ~q[j].leave

LEMMA LatestIs ==
  ASSUME NEW n \in Nat, NEW s \in SUBSET (1..n), s # {}
  PROVE  Latest(s) \in s /\ \A y \in s : Latest(s) >= y
<1> DEFINE D == {n - x : x \in s}
<1>1. D \in SUBSET Nat /\ D # {}
  <2>1. \A x \in s : n - x \in Nat
    OBVIOUS
  <2>2. PICK x \in s : TRUE
    OBVIOUS
  <2>3. n - x \in D
    OBVIOUS
  <2>4. QED BY <2>1, <2>3
<1> HIDE DEF D
<1>2. PICK d \in D : \A e \in D : d <= e
  BY <1>1, LeastNumber
<1>3. PICK x \in s : d = n - x
  BY DEF D
<1>4. ASSUME NEW y \in s PROVE x >= y
  <2>1. n - y \in D
    BY DEF D
  <2>2. n - x <= n - y
    BY <1>2, <1>3, <2>1
  <2>3. x \in Int /\ y \in Int
    OBVIOUS
  <2>4. QED BY <2>2, <2>3
<1>5. \E m \in s : \A y \in s : m >= y
  BY <1>4
<1>6. QED BY <1>5 DEF Latest

\* The fold has a solution.
LEMMA FoldSolved ==
  ASSUME NEW n \in Nat, NEW q, DOMAIN q = 1..n, \A i \in 1..n : q[i] \in Decision
  PROVE  Folds([s \in SUBSET (1..n) |-> Among(q, s)], q)
<1> DEFINE g == [s \in SUBSET (1..n) |-> Among(q, s)]
<1>1. ASSUME NEW s \in SUBSET (1..n), s # {}
      PROVE  Among(q, s) = ((Among(q, s \ {Latest(s)}) \/ q[Latest(s)].enter) /\ ~q[Latest(s)].leave)
  <2> DEFINE x == Latest(s)
  <2>1. x \in s /\ \A y \in s : x >= y
    BY <1>1, LatestIs
  <2>2. x \in Int /\ \A y \in s : y \in Int
    <3>1. \A y \in s : y \in Int
      OBVIOUS
    <3> HIDE DEF x
    <3>2. QED BY <2>1, <3>1
  <2> HIDE DEF x
  <2>3. ASSUME Among(q, s) PROVE Among(q, s \ {x}) \/ q[x].enter
    <3>1. PICK k \in s : q[k].enter /\ \A j \in s : j >= k => ~q[j].leave
      BY <2>3 DEF Among
    <3>2. CASE k = x BY <3>1, <3>2
    <3>3. CASE k # x BY <3>1, <3>3 DEF Among
    <3>4. QED BY <3>2, <3>3
  <2>4. ASSUME Among(q, s) PROVE ~q[x].leave
    BY <2>1, <2>4 DEF Among
  <2>5. ASSUME Among(q, s \ {x}), ~q[x].leave PROVE Among(q, s)
    BY <2>5 DEF Among
  <2>6. ASSUME q[x].enter, ~q[x].leave PROVE Among(q, s)
    <3>1. \A j \in s : j >= x => j = x
      BY <2>1, <2>2
    <3>2. QED BY <2>1, <2>6, <3>1 DEF Among
  <2>7. Among(q, s) \in BOOLEAN
    BY DEF Among
  <2>8. QED BY <2>3, <2>4, <2>5, <2>6, <2>7 DEF x
<1>2. ASSUME NEW s \in SUBSET (1..n) PROVE g[s] = Fold(g, q, s)
  <2>1. CASE s = {}
    BY <2>1 DEF Fold, Among
  <2>2. CASE s # {}
    <3>1. s \ {Latest(s)} \in SUBSET (1..n)
      OBVIOUS
    <3>2. g[s \ {Latest(s)}] = Among(q, s \ {Latest(s)})
      BY <3>1
    <3>3. QED BY <1>1, <2>2, <3>2 DEF Fold
  <2>3. QED BY <2>1, <2>2
<1>3. DOMAIN q = 1..n
  OBVIOUS
<1> HIDE DEF g
<1>4. g = [s \in SUBSET (1..n) |-> g[s]]
  BY DEF g
<1>5. [s \in SUBSET (1..n) |-> g[s]] = [s \in SUBSET (1..n) |-> Fold(g, q, s)]
  BY <1>2
<1>6. QED BY <1>3, <1>4, <1>5 DEF Folds, g

\* And no other.
LEMMA FoldIsUnique ==
  ASSUME NEW n \in Nat, NEW q, DOMAIN q = 1..n, NEW g, Folds(g, q), NEW h, Folds(h, q)
  PROVE  \A s \in SUBSET (1..n) : g[s] = h[s]
<1> DEFINE Bad == {s \in SUBSET (1..n) : g[s] # h[s]}
<1> SUFFICES ASSUME Bad # {} PROVE FALSE
  OBVIOUS
<1>1. IsFiniteSet(1..n)
  BY FS_Interval
<1>2. PICK T \in Bad : \A x \in T : (T \ {x}) \notin Bad
  <2>1. PICK D : D = 1..n
    OBVIOUS
  <2>2. Bad \in SUBSET SUBSET D /\ IsFiniteSet(D)
    BY <1>1, <2>1
  <2> HIDE DEF Bad
  <2>3. QED BY <2>2, SmallestSet
<1>3. T \in SUBSET (1..n) /\ g[T] # h[T] /\ \A x \in T : g[T \ {x}] = h[T \ {x}]
  BY <1>2
<1>4. \A s \in SUBSET (1..n) : g[s] = Fold(g, q, s) /\ h[s] = Fold(h, q, s)
  BY DEF Folds
<1>5. T # {} => Latest(T) \in T
  BY <1>3, LatestIs
<1>6. QED BY <1>3, <1>4, <1>5 DEF Fold

LEMMA FoldLeftHolds ==
  ASSUME NEW q
  PROVE  Desk!FoldLeft(Desk!Holding, FALSE, q) = (CHOOSE g : Folds(g, q))[DOMAIN q]
BY DEF Desk!FoldLeft, Desk!MapThenFoldSet, Desk!Max, Desk!Holding, Folds, Fold, Latest

LEMMA PositionsRead ==
  ASSUME NEW n \in Nat, NEW q \in [1..n -> Decision]
  PROVE  Desk!Positions(q) = [i \in 1..n |-> Opens(q, i)]
<1>1. q \in Seq(Decision) /\ Len(q) = n
  OBVIOUS
<1>2. ASSUME NEW i \in 1..n
      PROVE  Desk!FoldLeft(Desk!Holding, FALSE, SubSeq(q, 1, i)) = Opens(q, i)
  <2> DEFINE r == SubSeq(q, 1, i)
             f == CHOOSE g : Folds(g, r)
             a == [s \in SUBSET (1..i) |-> Among(r, s)]
  <2>1. r \in Seq(Decision) /\ Len(r) = i /\ \A k \in 1..i : r[k] = q[k]
    BY <1>1, SubSeqProperties
  <2>2. DOMAIN r = 1..i /\ \A k \in 1..i : r[k] \in Decision
    BY <2>1
  <2> HIDE DEF r
  <2>3. Folds(a, r)
    <3>1. i \in Nat
      OBVIOUS
    <3>2. QED BY <2>2, <3>1, FoldSolved
  <2> HIDE DEF a
  <2>4. Folds(f, r)
    BY <2>3
  <2> HIDE DEF f
  <2>5. f[1..i] = a[1..i]
    BY <2>2, <2>3, <2>4, FoldIsUnique
  <2>6. a[1..i] = Among(r, 1..i)
    BY DEF a
  <2>7. Among(r, 1..i) = Opens(q, i)
    <3>1. Among(r, 1..i) => Opens(q, i)
      BY <2>1 DEF Among, Opens
    <3>2. Opens(q, i) => Among(r, 1..i)
      BY <2>1 DEF Among, Opens
    <3>3. Among(r, 1..i) \in BOOLEAN /\ Opens(q, i) \in BOOLEAN
      BY DEF Among, Opens
    <3>4. QED BY <3>1, <3>2, <3>3
  <2>8. QED BY <2>2, <2>5, <2>6, <2>7, FoldLeftHolds DEF f, r
<1>3. QED BY <1>2 DEF Desk!Positions

\* One more bar: an entry opens the position unless the bar also leaves.
LEMMA OpensNext ==
  ASSUME NEW n \in Nat, NEW q, NEW r, \A i \in 1..n : r[i] = q[i]
  PROVE  /\ \A i \in 0..n : Opens(r, i) = Opens(q, i)
         /\ Opens(r, n + 1) = ((Opens(q, n) \/ r[n + 1].enter) /\ ~r[n + 1].leave)
<1>1. \A i \in 0..n : \A k \in 1..i : \A j \in k..i : k \in 1..n /\ j \in 1..n
  OBVIOUS
<1>2. \A i \in 0..n : Opens(r, i) = Opens(q, i)
  BY <1>1 DEF Opens
<1>3. ASSUME Opens(r, n + 1) PROVE (Opens(q, n) \/ r[n + 1].enter) /\ ~r[n + 1].leave
  <2>1. PICK k \in 1..n + 1 : r[k].enter /\ \A j \in k..n + 1 : ~r[j].leave
    BY <1>3 DEF Opens
  <2>2. ~r[n + 1].leave
    BY <2>1
  <2>3. CASE k = n + 1 BY <2>1, <2>2, <2>3
  <2>4. CASE k # n + 1
    <3>1. k \in 1..n /\ \A j \in k..n : j \in k..n + 1 /\ j \in 1..n
      BY <2>4
    <3>2. QED BY <2>1, <2>2, <3>1 DEF Opens
  <2>5. QED BY <2>3, <2>4
<1>4. ASSUME Opens(q, n), ~r[n + 1].leave PROVE Opens(r, n + 1)
  <2>1. PICK k \in 1..n : q[k].enter /\ \A j \in k..n : ~q[j].leave
    BY <1>4 DEF Opens
  <2>2. \A j \in k..n + 1 : j = n + 1 \/ (j \in k..n /\ j \in 1..n)
    OBVIOUS
  <2>3. QED BY <1>4, <2>1, <2>2 DEF Opens
<1>5. ASSUME r[n + 1].enter, ~r[n + 1].leave PROVE Opens(r, n + 1)
  <2>1. \A j \in n + 1..n + 1 : j = n + 1
    OBVIOUS
  <2>2. QED BY <1>5, <2>1 DEF Opens
<1>6. Opens(r, n + 1) \in BOOLEAN
  BY DEF Opens
<1>7. QED BY <1>2, <1>3, <1>4, <1>5, <1>6

DeskPlan == plan.max \in Nat \ {0} /\ plan.gates.cooldown \in Nat

OneSide == {"Long", "Short"}
TwoSides == [OneSide -> Decision]

LEMMA OtherSide ==
  /\ (CHOOSE o \in Desk!Sides : o # "Long") = "Short"
  /\ (CHOOSE o \in Desk!Sides : o # "Short") = "Long"
BY DEF Desk!Sides

\* The cleaner of both sides: what a bar does to the side that is open.
Cleans(side, raw, t) ==
  /\ t \in TwoSides /\ Desk!SideAfter(side, t) \in {"None", "Long", "Short"}
  /\ \A d \in OneSide : Desk!SideAfter(side, t) = d <=> (side = d \/ t[d].enter) /\ ~t[d].leave
  /\ \A d, o \in OneSide : t[d].leave /\ t[o].enter => raw[o].enter /\ ~raw[d].leave /\ d # o

LEMMA CleanerCleans ==
  ASSUME NEW side \in {"None", "Long", "Short"}, NEW raw \in TwoSides
  PROVE  Cleans(side, raw, Desk!CleanedBothWays(side, raw))
<1> DEFINE t == Desk!CleanedBothWays(side, raw)
           nothing == [d \in {"Long", "Short"} |-> [enter |-> FALSE, leave |-> FALSE]]
           other == IF side = "Long" THEN "Short" ELSE "Long"
           Entering(d) == t \in TwoSides /\ t[d].enter /\ \A o \in OneSide : t[o].enter => o = d
           First == side = "None" /\ raw["Long"].enter
           Second == side = "None" /\ ~raw["Long"].enter /\ raw["Short"].enter
           Third == side # "None" /\ raw[side].leave
           Fourth == side # "None" /\ ~raw[side].leave /\ raw[other].enter
<1>1. \A d \in OneSide : raw[d].enter \in BOOLEAN /\ raw[d].leave \in BOOLEAN
  BY DEF TwoSides, Decision
<1> HIDE DEF t
<1>2. ASSUME NEW d \in OneSide, Entering(d) PROVE Desk!SideAfter(side, t) = d
  <2>1. (CHOOSE o \in {"Long", "Short"} : t[o].enter) = d
    BY <1>2 DEF OneSide
  <2>2. \E o \in {"Long", "Short"} : t[o].enter
    BY <1>2 DEF OneSide
  <2>3. QED BY <2>1, <2>2 DEF Desk!SideAfter
<1>3. CASE First
  <2>1. t = [nothing EXCEPT !["Long"].enter = TRUE]
    BY <1>3 DEF t, Desk!CleanedBothWays, Desk!NoDecision
  <2>2. t["Long"] = [enter |-> TRUE, leave |-> FALSE] /\ t["Short"] = [enter |-> FALSE, leave |-> FALSE] /\ t \in TwoSides
    BY <2>1 DEF TwoSides, OneSide, Decision
  <2>3. Desk!SideAfter(side, t) = "Long"
    BY <1>2, <2>2 DEF OneSide
  <2>4. QED BY <1>3, <2>2, <2>3 DEF OneSide, Cleans, t
<1>4. CASE Second
  <2>1. t = [nothing EXCEPT !["Short"].enter = TRUE]
    BY <1>4 DEF t, Desk!CleanedBothWays, Desk!NoDecision
  <2>2. t["Short"] = [enter |-> TRUE, leave |-> FALSE] /\ t["Long"] = [enter |-> FALSE, leave |-> FALSE] /\ t \in TwoSides
    BY <2>1 DEF TwoSides, OneSide, Decision
  <2>3. Desk!SideAfter(side, t) = "Short"
    BY <1>2, <2>2 DEF OneSide
  <2>4. QED BY <1>4, <2>2, <2>3 DEF OneSide, Cleans, t
<1>5. CASE Third
  <2>1. t = [nothing EXCEPT ![side].leave = TRUE]
    BY <1>5 DEF t, Desk!CleanedBothWays, Desk!NoDecision
  <2>2. t[side] = [enter |-> FALSE, leave |-> TRUE] /\ t[other] = [enter |-> FALSE, leave |-> FALSE] /\ t \in TwoSides
    BY <1>5, <2>1 DEF TwoSides, OneSide, Decision
  <2>3. Desk!SideAfter(side, t) = "None"
    BY <1>5, <2>2 DEF Desk!SideAfter
  <2>4. QED BY <1>5, <2>2, <2>3 DEF OneSide, Cleans, t
<1>6. CASE Fourth
  <2>1. t = [nothing EXCEPT ![side].leave = TRUE, ![other].enter = TRUE]
    BY <1>6 DEF t, Desk!CleanedBothWays, Desk!NoDecision
  <2>2. t[side] = [enter |-> FALSE, leave |-> TRUE] /\ t[other] = [enter |-> TRUE, leave |-> FALSE] /\ t \in TwoSides
    BY <1>6, <2>1 DEF TwoSides, OneSide, Decision
  <2>3. Desk!SideAfter(side, t) = other
    BY <1>2, <1>6, <2>2 DEF OneSide
  <2>4. QED BY <1>6, <2>2, <2>3 DEF OneSide, Cleans, t
<1>7. CASE ~First /\ ~Second /\ ~Third /\ ~Fourth
  <2>1. t = nothing
    BY <1>7 DEF t, Desk!CleanedBothWays, Desk!NoDecision
  <2>2. t["Long"] = [enter |-> FALSE, leave |-> FALSE] /\ t["Short"] = [enter |-> FALSE, leave |-> FALSE] /\ t \in TwoSides
    BY <2>1 DEF TwoSides, OneSide, Decision
  <2>3. Desk!SideAfter(side, t) = side
    BY <2>2 DEF Desk!SideAfter
  <2>4. QED BY <2>2, <2>3 DEF OneSide, Cleans, t
<1> HIDE DEF First, Second, Third, Fourth
<1>8. QED BY <1>3, <1>4, <1>5, <1>6, <1>7 DEF t

Sided(b) ==
  /\ b.turns \in Seq(TwoSides) /\ b.side \in {"None", "Long", "Short"}
  /\ \A d \in OneSide : Opens(Desk!At(d, b.turns), Len(b.turns)) <=> b.side = d
  /\ \A i \in 1..Len(b.turns) :
       ~(Opens(Desk!At("Long", b.turns), i) /\ Opens(Desk!At("Short", b.turns), i))

LEMMA DeskTurns ==
  ASSUME NEW b, Sided(b), NEW raw \in TwoSides, NEW c,
         c.turns = Append(b.turns, Desk!CleanedBothWays(b.side, raw)),
         c.side = Desk!SideAfter(b.side, Desk!CleanedBothWays(b.side, raw))
  PROVE  Sided(c)
<1> DEFINE n == Len(b.turns)
           t == Desk!CleanedBothWays(b.side, raw)
           s == Append(b.turns, t)
<1>0. b.side \in {"None", "Long", "Short"}
  BY DEF Sided
<1>1. /\ t \in TwoSides /\ c.side \in {"None", "Long", "Short"}
      /\ \A d \in OneSide : c.side = d <=> (b.side = d \/ t[d].enter) /\ ~t[d].leave
  <2> DEFINE side == b.side
  <2>1. side \in {"None", "Long", "Short"} /\ c.side = Desk!SideAfter(side, t) /\ t = Desk!CleanedBothWays(side, raw)
    BY <1>0
  <2> HIDE DEF t, side
  <2>2. Cleans(side, raw, t)
    BY <2>1, CleanerCleans
  <2>3. QED BY <2>1, <2>2 DEF side, Cleans
<1> HIDE DEF t
<1>2. s \in Seq(TwoSides) /\ n \in Nat /\ Len(s) = n + 1 /\ (\A i \in 1..n : s[i] = b.turns[i]) /\ s[n + 1] = t
  BY <1>1, AppendProperties DEF Sided
<1>3. DOMAIN s = 1..n + 1 /\ DOMAIN b.turns = 1..n
  BY <1>2 DEF Sided
<1> HIDE DEF s, n
<1>4. \A d : /\ \A i \in 1..n : Desk!At(d, s)[i] = Desk!At(d, b.turns)[i]
             /\ Desk!At(d, s)[n + 1] = t[d]
  BY <1>2, <1>3 DEF Desk!At
<1>5. ASSUME NEW d \in OneSide
      PROVE  /\ \A i \in 0..n : Opens(Desk!At(d, s), i) = Opens(Desk!At(d, b.turns), i)
             /\ Opens(Desk!At(d, s), n + 1) = ((Opens(Desk!At(d, b.turns), n) \/ t[d].enter) /\ ~t[d].leave)
  <2> DEFINE q == Desk!At(d, b.turns)
             r == Desk!At(d, s)
  <2>1. (\A i \in 1..n : r[i] = q[i]) /\ r[n + 1] = t[d]
    BY <1>4
  <2> HIDE DEF q, r
  <2>2. /\ \A i \in 0..n : Opens(r, i) = Opens(q, i)
        /\ Opens(r, n + 1) = ((Opens(q, n) \/ r[n + 1].enter) /\ ~r[n + 1].leave)
    BY <1>2, <2>1, OpensNext
  <2>3. QED BY <2>1, <2>2 DEF q, r
<1>6. \A d \in OneSide : Opens(Desk!At(d, s), n + 1) <=> c.side = d
  <2>1. \A d \in OneSide : Opens(Desk!At(d, b.turns), n) <=> b.side = d
    BY DEF Sided, n
  <2>2. \A d \in OneSide : c.side = d <=> (b.side = d \/ t[d].enter) /\ ~t[d].leave
    BY <1>1
  <2>3. QED BY <1>5, <2>1, <2>2
<1>7. ASSUME NEW i \in 1..n + 1
      PROVE  ~(Opens(Desk!At("Long", s), i) /\ Opens(Desk!At("Short", s), i))
  <2>1. CASE i = n + 1
    BY <1>6, <2>1 DEF OneSide
  <2>2. CASE i # n + 1
    <3>1. i \in 1..n /\ i \in 0..n
      BY <1>2, <2>2
    <3>2. QED BY <1>5, <3>1 DEF OneSide, Sided, n
  <2>3. QED BY <2>1, <2>2
<1>8. QED BY <1>1, <1>2, <1>6, <1>7 DEF Sided, s, t

LEMMA DeskSides ==
  ASSUME Sided(book)
  PROVE  Desk!OneSideAtATime
<1> DEFINE n == Len(book.turns)
<1>1. book.turns \in Seq(TwoSides) /\ n \in Nat /\ DOMAIN book.turns = 1..n
  BY DEF Sided
<1> HIDE DEF n
<1>2. ASSUME NEW d \in OneSide
      PROVE  Desk!Positions(Desk!At(d, book.turns)) = [i \in 1..n |-> Opens(Desk!At(d, book.turns), i)]
  <2>1. Desk!At(d, book.turns) = [i \in 1..n |-> book.turns[i][d]]
    BY <1>1 DEF Desk!At
  <2>2. \A i \in 1..n : book.turns[i] \in TwoSides
    BY <1>1 DEF n
  <2>3. \A i \in 1..n : book.turns[i][d] \in Decision
    BY <2>2 DEF TwoSides
  <2>4. Desk!At(d, book.turns) \in [1..n -> Decision]
    BY <2>1, <2>3
  <2>5. QED BY <1>1, <2>4, PositionsRead
<1>3. ASSUME NEW d \in OneSide
      PROVE  Desk!LastOr(Desk!Positions(Desk!At(d, book.turns)), FALSE) = (book.side = d)
  <2> DEFINE p == [i \in 1..n |-> Opens(Desk!At(d, book.turns), i)]
  <2>1. Len(p) = n /\ (p = <<>> <=> n = 0)
    BY <1>1
  <2>2. Opens(Desk!At(d, book.turns), n) <=> book.side = d
    BY DEF Sided, n
  <2>3. n # 0 => p[n] = Opens(Desk!At(d, book.turns), n)
    BY <1>1
  <2>4. n = 0 => ~Opens(Desk!At(d, book.turns), n)
    BY DEF Opens
  <2>5. Opens(Desk!At(d, book.turns), n) \in BOOLEAN
    BY DEF Opens
  <2> HIDE DEF p
  <2>6. Desk!LastOr(p, FALSE) = (book.side = d)
    <3>1. CASE n = 0
      BY <2>1, <2>2, <2>4, <3>1 DEF Desk!LastOr
    <3>2. CASE n # 0
      BY <2>1, <2>2, <2>3, <2>5, <3>2 DEF Desk!LastOr, Desk!Last
    <3>3. QED BY <3>1, <3>2
  <2>7. QED BY <1>2, <2>6 DEF p
<1>4. ASSUME NEW d \in OneSide, NEW i \in 1..n
      PROVE  ~(Desk!Positions(Desk!At(d, book.turns))[i]
               /\ Desk!Positions(Desk!At(CHOOSE o \in Desk!Sides : o # d, book.turns))[i])
  <2>1. ~(Opens(Desk!At("Long", book.turns), i) /\ Opens(Desk!At("Short", book.turns), i))
    BY DEF Sided, n
  <2>2. \A e \in OneSide : Desk!Positions(Desk!At(e, book.turns))[i] = Opens(Desk!At(e, book.turns), i)
    BY <1>2
  <2>3. CASE d = "Long"
    BY <2>1, <2>2, <2>3, OtherSide DEF OneSide
  <2>4. CASE d = "Short"
    BY <2>1, <2>2, <2>4, OtherSide DEF OneSide
  <2>5. QED BY <2>3, <2>4 DEF OneSide
<1>5. ASSUME NEW d \in OneSide PROVE DOMAIN Desk!Positions(Desk!At(d, book.turns)) = 1..n
  BY <1>2
<1>6. Desk!Sides = OneSide
  BY DEF Desk!Sides, OneSide
<1>7. QED BY <1>3, <1>4, <1>5, <1>6 DEF Desk!OneSideAtATime

-----------------------------------------------------------------------------
\* Exits taken from the opposite entries: no bar leaves and enters.
Switching(b) ==
  /\ b.other \in {"None", "Long", "Short"} /\ DOMAIN b.switches = 1..Len(b.switches) /\ Len(b.switches) \in Nat
  /\ \A i \in DOMAIN b.switches : \A d, o \in OneSide : ~(b.switches[i][d].leave /\ b.switches[i][o].enter)

LEMMA DeskSwitches ==
  ASSUME NEW b, Switching(b), b.switches \in Seq(TwoSides), NEW raw \in TwoSides, NEW c,
         c.switches = Append(b.switches, Desk!CleanedBothWays(b.other, Desk!OppositeExits(raw))),
         c.other = Desk!SideAfter(b.other, Desk!CleanedBothWays(b.other, Desk!OppositeExits(raw)))
  PROVE  Switching(c) /\ c.switches \in Seq(TwoSides)
<1> DEFINE side == b.other
           crossed == Desk!OppositeExits(raw)
           t == Desk!CleanedBothWays(side, crossed)
           n == Len(b.switches)
<1>1. side \in {"None", "Long", "Short"}
  BY DEF Switching
<1>2. /\ crossed = [d \in OneSide |-> [raw[d] EXCEPT !.leave = raw[CHOOSE o \in Desk!Sides : o # d].enter]]
      /\ \A d \in OneSide : raw[d] = [enter |-> raw[d].enter, leave |-> raw[d].leave]
                            /\ raw[d].enter \in BOOLEAN /\ raw[d].leave \in BOOLEAN
  <2>1. Desk!Sides = OneSide
    BY DEF Desk!Sides, OneSide
  <2>2. \A d \in OneSide : raw[d] \in Decision
    BY DEF TwoSides
  <2>3. QED BY <2>1, <2>2 DEF Desk!OppositeExits, Decision
<1> HIDE DEF crossed
<1>3. /\ crossed["Long"] = [enter |-> raw["Long"].enter, leave |-> raw["Short"].enter]
      /\ crossed["Short"] = [enter |-> raw["Short"].enter, leave |-> raw["Long"].enter]
      /\ DOMAIN crossed = OneSide
  <2>1. crossed["Long"] = [raw["Long"] EXCEPT !.leave = raw["Short"].enter]
    BY <1>2, OtherSide DEF OneSide
  <2>2. crossed["Short"] = [raw["Short"] EXCEPT !.leave = raw["Long"].enter]
    BY <1>2, OtherSide DEF OneSide
  <2>3. QED BY <1>2, <2>1, <2>2 DEF OneSide
<1>4. crossed \in TwoSides
  BY <1>2, <1>3 DEF TwoSides, OneSide, Decision
<1>5. Cleans(side, crossed, t)
  BY <1>1, <1>4, CleanerCleans
<1>6. c.switches = Append(b.switches, t) /\ c.other = Desk!SideAfter(side, t)
  BY DEF crossed
<1> HIDE DEF t
<1>7. t \in TwoSides /\ \A d, o \in OneSide : ~(t[d].leave /\ t[o].enter)
  <2>1. ASSUME NEW d \in OneSide, NEW o \in OneSide, t[d].leave, t[o].enter PROVE FALSE
    <3>1. crossed[o].enter /\ ~crossed[d].leave /\ d # o
      BY <1>5, <2>1 DEF Cleans
    <3>2. QED BY <1>3, <3>1 DEF OneSide
  <2>2. QED BY <1>5, <2>1 DEF Cleans
<1>8. /\ n \in Nat /\ c.switches \in Seq(TwoSides) /\ Len(c.switches) = n + 1
      /\ (\A i \in 1..n : c.switches[i] = b.switches[i]) /\ c.switches[n + 1] = t
  BY <1>6, <1>7, AppendProperties
<1>9. \A i \in 1..n + 1 : i \in 1..n \/ i = n + 1
  BY <1>8
<1>10. DOMAIN c.switches = 1..n + 1
  BY <1>8
<1>11. \A i \in 1..n + 1 : \A d, o \in OneSide : ~(c.switches[i][d].leave /\ c.switches[i][o].enter)
  <2>1. \A i \in 1..n : \A d, o \in OneSide : ~(b.switches[i][d].leave /\ b.switches[i][o].enter)
    BY DEF Switching
  <2>2. QED BY <1>7, <1>8, <1>9, <2>1
<1>12. c.other \in {"None", "Long", "Short"}
  BY <1>5, <1>6 DEF Cleans
<1>13. QED BY <1>8, <1>10, <1>11, <1>12 DEF Switching

-----------------------------------------------------------------------------
(* The entries and exits of a cleaned array. *)

Ins(p) == {i \in 1..Len(p) : p[i].enter}
Outs(p) == {i \in 1..Len(p) : p[i].leave}

Pyramids(b) ==
  LET p == b.pyramids IN
  /\ p \in Seq(Decision) /\ b.count \in 0..plan.max
  /\ Cardinality(Ins(p)) - Cardinality(Outs(p)) = b.count
  /\ plan.max = 1 => (Opens(p, Len(p)) <=> b.count = 1)
  /\ b.count > 0 => Ins(p) # {}
  /\ \A i \in Outs(p) : \E k \in 1..i : p[k].enter

\* What one more decision does to the sets of entries and of exits.
LEMMA OneMoreBar ==
  ASSUME NEW p \in Seq(Decision), NEW t \in Decision
  PROVE  LET s == Append(p, t)  n == Len(p) + 1 IN
         /\ s \in Seq(Decision) /\ Len(s) = n /\ s[n] = t /\ \A i \in 1..Len(p) : s[i] = p[i]
         /\ Ins(s) = IF t.enter THEN Ins(p) \cup {n} ELSE Ins(p)
         /\ Outs(s) = IF t.leave THEN Outs(p) \cup {n} ELSE Outs(p)
         /\ Cardinality(Ins(s)) = Cardinality(Ins(p)) + (IF t.enter THEN 1 ELSE 0)
         /\ Cardinality(Outs(s)) = Cardinality(Outs(p)) + (IF t.leave THEN 1 ELSE 0)
         /\ Cardinality(Ins(p)) \in Nat /\ Cardinality(Outs(p)) \in Nat
<1> DEFINE s == Append(p, t)
           n == Len(p) + 1
<1>1. s \in Seq(Decision) /\ Len(s) = n /\ s[n] = t /\ (\A i \in 1..Len(p) : s[i] = p[i]) /\ Len(p) \in Nat
  BY AppendProperties
<1>2. \A i \in 1..n : i \in 1..Len(p) \/ i = n
  BY <1>1
<1>3. n \notin 1..Len(p) /\ \A i \in 1..Len(p) : i \in 1..n /\ n \in 1..n
  BY <1>1
<1> HIDE DEF s, n
<1>4. n \in 1..n
  BY <1>1 DEF n
<1>5. Ins(s) = IF t.enter THEN Ins(p) \cup {n} ELSE Ins(p)
  BY <1>1, <1>2, <1>3, <1>4 DEF Ins
<1>6. Outs(s) = IF t.leave THEN Outs(p) \cup {n} ELSE Outs(p)
  BY <1>1, <1>2, <1>3, <1>4 DEF Outs
<1>7. IsFiniteSet(1..Len(p))
  BY <1>1, FS_Interval
<1>8. IsFiniteSet(Ins(p)) /\ n \notin Ins(p)
  <2>1. Ins(p) \in SUBSET (1..Len(p))
    BY DEF Ins
  <2>2. QED BY <1>3, <1>7, <2>1, FS_Subset
<1>9. IsFiniteSet(Outs(p)) /\ n \notin Outs(p)
  <2>1. Outs(p) \in SUBSET (1..Len(p))
    BY DEF Outs
  <2>2. QED BY <1>3, <1>7, <2>1, FS_Subset
<1>10. Cardinality(Ins(p)) \in Nat /\ Cardinality(Outs(p)) \in Nat
  BY <1>8, <1>9, FS_CardinalityType
<1>11. Cardinality(Ins(p) \cup {n}) = Cardinality(Ins(p)) + 1 /\ Cardinality(Outs(p) \cup {n}) = Cardinality(Outs(p)) + 1
  BY <1>8, <1>9, FS_AddElement
<1>12. Cardinality(Ins(s)) = Cardinality(Ins(p)) + (IF t.enter THEN 1 ELSE 0)
  BY <1>5, <1>10, <1>11
<1>13. Cardinality(Outs(s)) = Cardinality(Outs(p)) + (IF t.leave THEN 1 ELSE 0)
  BY <1>6, <1>10, <1>11
<1>14. QED BY <1>1, <1>5, <1>6, <1>10, <1>12, <1>13 DEF s, n

\* The cleaner opens below the limit and closes what is open, never both.
Alternates(max, count, t) ==
  /\ t \in Decision /\ ~(t.enter /\ t.leave)
  /\ t.enter => count < max
  /\ t.leave => count > 0
  /\ Desk!CountAfter(count, max, t) = count + (IF t.enter THEN 1 ELSE 0) - (IF t.leave THEN 1 ELSE 0)

LEMMA CleanerAlternates ==
  ASSUME NEW max \in Nat \ {0}, NEW count \in 0..max, NEW entry \in BOOLEAN, NEW exit \in BOOLEAN
  PROVE  Alternates(max, count, Desk!Cleaned(count, max, entry, exit))
<1>1. CASE count = 0
  <2>1. Desk!Cleaned(count, max, entry, exit) = [enter |-> entry, leave |-> FALSE]
    BY <1>1 DEF Desk!Cleaned
  <2>2. Alternates(max, count, [enter |-> entry, leave |-> FALSE])
    BY <1>1 DEF Alternates, Decision, Desk!CountAfter
  <2>3. QED BY <2>1, <2>2
<1>2. CASE count > 0 /\ exit /\ ~entry
  <2>1. Desk!Cleaned(count, max, entry, exit) = [enter |-> FALSE, leave |-> TRUE]
    BY <1>2 DEF Desk!Cleaned
  <2>2. max > 1 \/ count = 1
    BY <1>2
  <2>3. Alternates(max, count, [enter |-> FALSE, leave |-> TRUE])
    BY <1>2, <2>2 DEF Alternates, Decision, Desk!CountAfter
  <2>4. QED BY <2>1, <2>3
<1>3. CASE count # 0 /\ ~(exit /\ ~entry)
  <2> DEFINE enter == entry /\ max > 1 /\ count < max
  <2>1. Desk!Cleaned(count, max, entry, exit) = [enter |-> enter, leave |-> FALSE]
    BY <1>3 DEF Desk!Cleaned
  <2>2. enter \in BOOLEAN /\ (enter => count < max)
    OBVIOUS
  <2> HIDE DEF enter
  <2>3. Alternates(max, count, [enter |-> enter, leave |-> FALSE])
    BY <1>3, <2>2 DEF Alternates, Decision, Desk!CountAfter
  <2>4. QED BY <2>1, <2>3
<1>4. QED BY <1>1, <1>2, <1>3

LEMMA DeskPyramids ==
  ASSUME DeskPlan, NEW b, Pyramids(b), NEW entry \in BOOLEAN, NEW exit \in BOOLEAN, NEW c,
         c.pyramids = Append(b.pyramids, Desk!Cleaned(b.count, plan.max, entry, exit)),
         c.count = Desk!CountAfter(b.count, plan.max, Desk!Cleaned(b.count, plan.max, entry, exit))
  PROVE  Pyramids(c)
<1> DEFINE t == Desk!Cleaned(b.count, plan.max, entry, exit)
           p == b.pyramids
           s == Append(p, t)
           n == Len(p) + 1
           max == plan.max
           count == b.count
<1>1. max \in Nat \ {0} /\ count \in 0..max /\ p \in Seq(Decision) /\ Len(p) \in Nat
  BY DEF DeskPlan, Pyramids
<1>2. /\ t \in Decision /\ ~(t.enter /\ t.leave)
      /\ t.enter => count < max
      /\ t.leave => count > 0
      /\ Desk!CountAfter(count, max, t) = count + (IF t.enter THEN 1 ELSE 0) - (IF t.leave THEN 1 ELSE 0)
  <2> HIDE DEF max, count
  <2>1. \A m \in Nat \ {0} : \A k \in 0..m : Alternates(m, k, Desk!Cleaned(k, m, entry, exit))
    BY CleanerAlternates
  <2>2. Alternates(max, count, Desk!Cleaned(count, max, entry, exit))
    BY <1>1, <2>1
  <2>3. QED BY <2>2 DEF Alternates, max, count
<1>3. c.count = Desk!CountAfter(count, max, t) /\ c.pyramids = s
  OBVIOUS
<1> HIDE DEF t
<1>4. /\ s \in Seq(Decision) /\ Len(s) = n /\ s[n] = t /\ (\A i \in 1..Len(p) : s[i] = p[i])
      /\ Ins(s) = IF t.enter THEN Ins(p) \cup {n} ELSE Ins(p)
      /\ Outs(s) = IF t.leave THEN Outs(p) \cup {n} ELSE Outs(p)
      /\ Cardinality(Ins(s)) = Cardinality(Ins(p)) + (IF t.enter THEN 1 ELSE 0)
      /\ Cardinality(Outs(s)) = Cardinality(Outs(p)) + (IF t.leave THEN 1 ELSE 0)
      /\ Cardinality(Ins(p)) \in Nat /\ Cardinality(Outs(p)) \in Nat
  BY <1>1, <1>2, OneMoreBar
<1>5. /\ Cardinality(Ins(p)) - Cardinality(Outs(p)) = count
      /\ max = 1 => (Opens(p, Len(p)) <=> count = 1)
      /\ count > 0 => Ins(p) # {}
      /\ \A i \in Outs(p) : \E k \in 1..i : p[k].enter
  BY DEF Pyramids
<1> HIDE DEF s, max, count
<1>6. c.count \in 0..max /\ Cardinality(Ins(s)) - Cardinality(Outs(s)) = c.count
  BY <1>1, <1>2, <1>3, <1>4, <1>5
<1>7. max = 1 => (Opens(s, n) <=> c.count = 1)
  <2>1. Opens(s, n) <=> (Opens(p, Len(p)) \/ t.enter) /\ ~t.leave
    <3>1. Opens(s, Len(p) + 1) = ((Opens(p, Len(p)) \/ s[Len(p) + 1].enter) /\ ~s[Len(p) + 1].leave)
      BY <1>1, <1>4, OpensNext
    <3>2. QED BY <1>4, <3>1
  <2>2. t.enter \in BOOLEAN /\ t.leave \in BOOLEAN
    BY <1>2 DEF Decision
  <2>3. CASE t.enter
    <3>1. c.count = count + 1 /\ count < max
      BY <1>1, <1>2, <1>3, <2>3
    <3>2. Opens(s, n)
      BY <1>2, <2>1, <2>3
    <3>3. max = 1 => c.count = 1
      BY <1>1, <3>1
    <3>4. QED BY <3>2, <3>3
  <2>4. CASE t.leave
    <3>1. c.count = count - 1
      BY <1>1, <1>2, <1>3, <2>4
    <3>2. ~Opens(s, n)
      BY <2>1, <2>4
    <3>3. max = 1 => c.count # 1
      BY <1>1, <3>1
    <3>4. QED BY <3>2, <3>3
  <2>5. CASE ~t.enter /\ ~t.leave
    <3>1. c.count = count
      BY <1>1, <1>2, <1>3, <2>5
    <3>2. Opens(s, n) <=> Opens(p, Len(p))
      BY <2>1, <2>5
    <3>3. QED BY <1>5, <3>1, <3>2
  <2>6. QED BY <2>3, <2>4, <2>5
<1>8. c.count > 0 => Ins(s) # {}
  <2>1. c.count > 0 => t.enter \/ count > 0
    BY <1>1, <1>2, <1>3
  <2>2. Ins(p) \subseteq Ins(s) /\ (t.enter => n \in Ins(s))
    BY <1>4
  <2>3. QED BY <1>5, <2>1, <2>2
<1>9. \A i \in Outs(s) : \E k \in 1..i : s[k].enter
  <2> SUFFICES ASSUME NEW i \in Outs(s) PROVE \E k \in 1..i : s[k].enter
    OBVIOUS
  <2>1. CASE i \in Outs(p)
    <3>1. PICK k \in 1..i : p[k].enter
      BY <1>5, <2>1
    <3>2. i \in 1..Len(p)
      BY <2>1 DEF Outs
    <3>3. k \in 1..Len(p)
      BY <1>1, <3>2
    <3>4. QED BY <1>4, <3>1, <3>3
  <2>2. CASE i \notin Outs(p)
    <3>1. i = n /\ t.leave
      BY <1>4, <2>2
    <3>2. Ins(p) # {}
      BY <1>2, <1>5, <3>1
    <3>3. PICK k \in 1..Len(p) : p[k].enter
      BY <3>2 DEF Ins
    <3>4. k \in 1..i
      BY <1>1, <3>1
    <3>5. QED BY <1>4, <3>3, <3>4
  <2>3. QED BY <2>1, <2>2
<1>10. QED BY <1>3, <1>4, <1>6, <1>7, <1>8, <1>9 DEF Pyramids, max

-----------------------------------------------------------------------------
\* The last bar of a clock that shows what bar i shows.
Same(source, i) == {j \in 1..Len(source) : source[j] = source[i]}

Onto(source, signals) == Desk!Aligned(signals, source, source, FALSE)

Reads(signals, source, i) ==
  /\ Onto(source, signals)[i] = signals[Latest(Same(source, i))]
  /\ Latest(Same(source, i)) \in DOMAIN source /\ source[Latest(Same(source, i))] = source[i]

LEMMA AlignedReads ==
  ASSUME NEW n \in Nat, NEW source, DOMAIN source = 1..n, Len(source) = n
  PROVE  \A signals : \A i \in 1..n : Reads(signals, source, i)
<1> TAKE signals
<1> TAKE i \in 1..n
<1>1. i \in Same(source, i) /\ Same(source, i) \in SUBSET (1..n)
  BY DEF Same
<1>2. Latest(Same(source, i)) \in Same(source, i)
  BY <1>1, LatestIs
<1>3. Desk!SelectLastInSeq(source, LAMBDA t : t = source[i]) = Latest(Same(source, i))
  BY <1>1 DEF Desk!SelectLastInSeq, Same, Latest, Desk!Max
<1>4. Desk!Contains(source, source[i])
  BY DEF Desk!Contains
<1>5. Desk!Aligned(signals, source, source, FALSE)[i] = signals[Desk!SelectLastInSeq(source, LAMBDA t : t = source[i])]
  BY <1>4 DEF Desk!Aligned
<1>6. QED BY <1>2, <1>3, <1>5 DEF Same, Onto, Reads

\* Aligning to a clock that repeats itself changes nothing the second time.
LEMMA AlignedTwice ==
  ASSUME NEW n \in Nat, NEW signals, NEW source, DOMAIN source = 1..n, Len(source) = n
  PROVE  Onto(source, Onto(source, signals)) = Onto(source, signals)
<1> DEFINE once == Onto(source, signals)
           twice == Onto(source, once)
<1>1. ASSUME NEW s PROVE Onto(source, s) = [i \in 1..n |-> Onto(source, s)[i]]
  BY DEF Desk!Aligned, Onto
<1>2. \A s : \A i \in 1..n : Reads(s, source, i)
  BY AlignedReads
<1>6. \A i \in 1..n :
        /\ once[i] = signals[Latest(Same(source, i))] /\ twice[i] = once[Latest(Same(source, i))]
        /\ Latest(Same(source, i)) \in 1..n /\ source[Latest(Same(source, i))] = source[i]
  BY <1>2 DEF Reads
<1>3. once = [i \in 1..n |-> once[i]] /\ twice = [i \in 1..n |-> twice[i]]
  BY <1>1
<1> HIDE DEF once, twice
<1>7. ASSUME NEW i \in 1..n PROVE twice[i] = once[i]
  <2> DEFINE l == Latest(Same(source, i))
  <2>1. l \in 1..n /\ source[l] = source[i] /\ once[i] = signals[l] /\ twice[i] = once[l]
    BY <1>6
  <2>2. Same(source, l) = Same(source, i)
    BY <2>1 DEF Same
  <2> HIDE DEF l
  <2>3. once[l] = signals[Latest(Same(source, l))]
    BY <1>6, <2>1
  <2>4. QED BY <2>1, <2>2, <2>3 DEF l
<1>4. [i \in 1..n |-> once[i]] = [i \in 1..n |-> twice[i]]
  BY <1>7
<1>5. QED BY <1>3, <1>4 DEF once, twice

LEMMA DeskAlternates ==
  ASSUME DeskPlan, Pyramids(book)
  PROVE  Desk!EntriesAlternate
<1> DEFINE p == book.pyramids
           n == Len(p)
           entries == Desk!Entries(p)
           exits == Desk!Exits(p)
           late == Desk!Shifted(entries, 1)
           clock == Desk!Doubled(entries)
<1>1. p \in Seq(Decision) /\ n \in Nat /\ DOMAIN p = 1..n
  BY DEF Pyramids
<1>2. p \in [1..n -> Decision]
  BY <1>1
<1> HIDE DEF n
<1>3. entries = [i \in 1..n |-> p[i].enter] /\ exits = [i \in 1..n |-> p[i].leave]
  BY <1>1 DEF Desk!Entries, Desk!Exits
<1> HIDE DEF entries, exits
<1>4. Desk!Indices(entries) = Ins(p)
  BY <1>3 DEF Desk!Indices, Ins, n
<1>5. Desk!Indices(exits) = Outs(p) /\ Desk!TradesIn(exits) = Cardinality(Outs(p))
  <2>1. Desk!Indices(exits) = Outs(p)
    BY <1>3 DEF Desk!Indices, Outs, n
  <2>2. QED BY <2>1 DEF Desk!TradesIn, Desk!Cardinality, Cardinality
<1>6. Desk!Cardinality(Desk!Indices(entries)) - Desk!TradesIn(exits) = book.count /\ book.count \in 0..plan.max
  <2>1. Desk!Cardinality(Desk!Indices(entries)) = Cardinality(Ins(p))
    BY <1>4 DEF Desk!Cardinality, Cardinality
  <2>2. QED BY <1>5, <2>1 DEF Pyramids
<1>7. plan.max = 1 => Desk!LastOr(Desk!Positions(p), FALSE) = (book.count = 1)
  <2> SUFFICES ASSUME plan.max = 1 PROVE Desk!LastOr(Desk!Positions(p), FALSE) = (book.count = 1)
    OBVIOUS
  <2> DEFINE q == [i \in 1..n |-> Opens(p, i)]
  <2>1. Desk!Positions(p) = q
    BY <1>1, <1>2, PositionsRead
  <2>2. Opens(p, n) <=> book.count = 1
    BY DEF Pyramids, n
  <2>3. Len(q) = n /\ (q = <<>> <=> n = 0) /\ (n # 0 => q[n] = Opens(p, n))
    BY <1>1
  <2>4. (n = 0 => ~Opens(p, n)) /\ Opens(p, n) \in BOOLEAN
    BY DEF Opens
  <2> HIDE DEF q, p
  <2>5. CASE n = 0
    BY <2>1, <2>2, <2>3, <2>4, <2>5 DEF Desk!LastOr
  <2>6. CASE n # 0
    BY <2>1, <2>2, <2>3, <2>4, <2>6 DEF Desk!LastOr, Desk!Last
  <2>7. QED BY <2>5, <2>6
<1>8. {i + 1 : i \in Desk!Indices(entries)} \cap DOMAIN entries = Desk!Indices(late)
  <2>1. DOMAIN entries = 1..n /\ late = [i \in 1..n |-> i > 1 /\ entries[i - 1]]
    BY <1>3 DEF Desk!Shifted
  <2>2. Desk!Indices(entries) = {i \in 1..n : entries[i]} /\ Desk!Indices(late) = {i \in 1..n : i > 1 /\ entries[i - 1]}
    BY <2>1 DEF Desk!Indices
  <2>3. \A i \in 1..n : i > 1 => i - 1 \in 1..n /\ i = (i - 1) + 1
    BY <1>1
  <2>4. \A i \in 1..n : (i + 1) - 1 = i /\ i + 1 > 1
    BY <1>1
  <2> HIDE DEF late
  <2>5. ASSUME NEW j \in {i + 1 : i \in Desk!Indices(entries)} \cap DOMAIN entries PROVE j \in Desk!Indices(late)
    <3>1. PICK i \in 1..n : entries[i] /\ j = i + 1
      BY <2>2
    <3>2. j - 1 = i /\ j > 1 /\ j \in 1..n
      BY <2>1, <2>4, <3>1
    <3>3. QED BY <2>2, <3>1, <3>2
  <2>6. ASSUME NEW j \in Desk!Indices(late) PROVE j \in {i + 1 : i \in Desk!Indices(entries)} \cap DOMAIN entries
    <3>1. j \in 1..n /\ j > 1 /\ entries[j - 1]
      BY <2>2
    <3>2. j - 1 \in Desk!Indices(entries) /\ j = (j - 1) + 1
      BY <2>2, <2>3, <3>1
    <3>3. QED BY <2>1, <3>1, <3>2
  <2>7. QED BY <2>5, <2>6
<1>9. \A i \in Desk!Indices(exits) : Desk!ForwardFilled(entries)[i]
  <2> SUFFICES ASSUME NEW i \in Outs(p) PROVE Desk!ForwardFilled(entries)[i]
    BY <1>5
  <2>1. i \in 1..n /\ DOMAIN entries = 1..n
    BY <1>3 DEF Outs, n
  <2>2. PICK k \in 1..i : p[k].enter
    BY DEF Pyramids
  <2>3. k \in 1..n
    BY <1>1, <2>1
  <2>4. entries[k]
    BY <1>3, <2>2, <2>3
  <2>5. QED BY <2>1, <2>4 DEF Desk!ForwardFilled
<1>10. Desk!Aligned(Desk!Pairwise(entries), clock, clock, FALSE) = Desk!Pairwise(entries)
  <2>1. clock = [i \in 1..n |-> i \div 2]
    BY <1>3 DEF Desk!Doubled
  <2>2. DOMAIN clock = 1..n /\ Len(clock) = n
    BY <1>1, <2>1
  <2>3. Desk!Pairwise(entries) = Onto(clock, entries)
    BY DEF Desk!Pairwise, Onto
  <2>4. Desk!Aligned(Desk!Pairwise(entries), clock, clock, FALSE) = Onto(clock, Desk!Pairwise(entries))
    BY DEF Onto
  <2> HIDE DEF clock
  <2>5. Onto(clock, Onto(clock, entries)) = Onto(clock, entries)
    BY <1>1, <2>2, AlignedTwice
  <2>6. QED BY <2>3, <2>4, <2>5
<1>11. QED BY <1>6, <1>7, <1>8, <1>9, <1>10 DEF Desk!EntriesAlternate, p, entries, exits, late, clock

-----------------------------------------------------------------------------
(* Cooldowns *)

\* An entry fired at k silences the ticks before k + 1 + cooldown.
Fires(b) ==
  LET cooldown == plan.gates.cooldown IN
  /\ b.bars \in Seq(DeskBars) /\ b.fires \in Seq(BOOLEAN) /\ Len(b.fires) = Len(b.bars) /\ b.until \in Int
  /\ \A i \in 1..Len(b.fires) :
       b.fires[i] <=> /\ Desk!Passes(plan.gates, b.bars[i].tick)
                      /\ \A k \in 1..i - 1 : b.fires[k] => i - k > cooldown
  /\ \A i \in Nat : i >= Len(b.fires) =>
       (i >= b.until <=> \A k \in 1..Len(b.fires) : b.fires[k] => i + 1 - k > cooldown)

LEMMA DeskFires ==
  ASSUME DeskPlan, NEW b, Fires(b), NEW bar \in DeskBars, NEW c,
         c.bars = Append(b.bars, bar),
         c.fires = Append(b.fires, Desk!Momentum(plan.gates, b.until, Len(b.bars), bar.tick).fires),
         c.until = Desk!Momentum(plan.gates, b.until, Len(b.bars), bar.tick).until
  PROVE  Fires(c)
<1> DEFINE m == Desk!Momentum(plan.gates, b.until, Len(b.bars), bar.tick)
           n == Len(b.bars)
           cooldown == plan.gates.cooldown
           passes == Desk!Passes(plan.gates, bar.tick)
<1>1. n \in Nat /\ cooldown \in Nat /\ b.until \in Int /\ Len(b.fires) = n
  BY DEF Fires, DeskPlan
<1>2. m = IF n >= b.until /\ passes THEN [fires |-> TRUE, until |-> n + 1 + cooldown] ELSE [fires |-> FALSE, until |-> b.until]
  BY DEF Desk!Momentum
<1> HIDE DEF m, n, cooldown, passes
<1>3. m.fires \in BOOLEAN /\ (m.fires <=> n >= b.until /\ passes)
      /\ m.until = IF m.fires THEN n + 1 + cooldown ELSE b.until
  BY <1>2
<1>4. /\ c.bars \in Seq(DeskBars) /\ Len(c.bars) = n + 1 /\ c.bars[n + 1] = bar
      /\ \A i \in 1..n : c.bars[i] = b.bars[i]
  <2>1. b.bars \in Seq(DeskBars)
    BY DEF Fires
  <2>2. QED BY <2>1, AppendProperties DEF n
<1>5. /\ c.fires \in Seq(BOOLEAN) /\ Len(c.fires) = n + 1 /\ c.fires[n + 1] = m.fires
      /\ \A i \in 1..n : c.fires[i] = b.fires[i]
  <2>1. b.fires \in Seq(BOOLEAN) /\ c.fires = Append(b.fires, m.fires)
    BY DEF Fires, m
  <2>2. QED BY <1>1, <1>3, <2>1, AppendProperties
<1>6. c.until = m.until /\ c.until \in Int
  <2>1. c.until = m.until
    BY DEF m
  <2>2. QED BY <1>1, <1>3, <2>1
<1>7. n >= b.until <=> \A k \in 1..n : b.fires[k] => n + 1 - k > cooldown
  BY <1>1 DEF Fires, cooldown
<1>8. ASSUME NEW i \in 1..n + 1
      PROVE  c.fires[i] <=> /\ Desk!Passes(plan.gates, c.bars[i].tick)
                            /\ \A k \in 1..i - 1 : c.fires[k] => i - k > cooldown
  <2>1. CASE i = n + 1
    <3>1. 1..i - 1 = 1..n
      BY <1>1, <2>1
    <3>2. c.fires[i] <=> n >= b.until /\ passes
      BY <1>3, <1>5, <2>1
    <3>3. Desk!Passes(plan.gates, c.bars[i].tick) <=> passes
      BY <1>4, <2>1 DEF passes
    <3>4. (\A k \in 1..i - 1 : c.fires[k] => i - k > cooldown)
          <=> \A k \in 1..n : b.fires[k] => n + 1 - k > cooldown
      <4>1. \A k \in 1..n : i - k = n + 1 - k
        BY <1>1, <2>1
      <4>2. QED BY <1>5, <3>1, <4>1
    <3>5. QED BY <1>7, <3>2, <3>3, <3>4
  <2>2. CASE i # n + 1
    <3>1. i \in 1..n
      BY <1>1, <2>2
    <3>2. b.fires[i] <=> /\ Desk!Passes(plan.gates, b.bars[i].tick)
                         /\ \A k \in 1..i - 1 : b.fires[k] => i - k > cooldown
      BY <1>1, <3>1 DEF Fires, cooldown
    <3>3. \A k \in 1..i - 1 : k \in 1..n
      BY <1>1, <3>1
    <3>4. QED BY <1>4, <1>5, <3>1, <3>2, <3>3
  <2>3. QED BY <2>1, <2>2
<1>9. ASSUME NEW i \in Nat, i >= n + 1
      PROVE  i >= c.until <=> \A k \in 1..n + 1 : c.fires[k] => i + 1 - k > cooldown
  <2>1. i >= b.until <=> \A k \in 1..n : b.fires[k] => i + 1 - k > cooldown
    BY <1>1, <1>9 DEF Fires, cooldown
  <2>2. \A k \in 1..n + 1 : k \in 1..n \/ k = n + 1
    BY <1>1
  <2>3. \A k \in 1..n : k \in 1..n + 1
    BY <1>1
  <2>4. CASE m.fires
    <3>1. c.until = n + 1 + cooldown
      BY <1>3, <1>6, <2>4
    <3>2. i >= c.until <=> i + 1 - (n + 1) > cooldown
      BY <1>1, <1>9, <3>1
    <3>3. c.fires[n + 1] /\ n + 1 \in 1..n + 1
      BY <1>1, <1>5, <2>4
    <3>4. i + 1 - (n + 1) > cooldown => \A k \in 1..n + 1 : i + 1 - k > cooldown
      BY <1>1, <1>9
    <3>5. QED BY <3>2, <3>3, <3>4
  <2>5. CASE ~m.fires
    <3>1. c.until = b.until /\ ~c.fires[n + 1]
      BY <1>3, <1>5, <1>6, <2>5
    <3>2. QED BY <1>5, <2>1, <2>2, <2>3, <3>1
  <2>6. QED BY <1>3, <2>4, <2>5
<1>10. /\ \A i \in 1..Len(c.fires) :
            c.fires[i] <=> /\ Desk!Passes(plan.gates, c.bars[i].tick)
                           /\ \A k \in 1..i - 1 : c.fires[k] => i - k > cooldown
       /\ \A i \in Nat : i >= Len(c.fires) =>
            (i >= c.until <=> \A k \in 1..Len(c.fires) : c.fires[k] => i + 1 - k > cooldown)
  BY <1>5, <1>8, <1>9
<1>11. QED BY <1>4, <1>5, <1>6, <1>10 DEF Fires, cooldown

LEMMA DeskCools ==
  ASSUME DeskPlan, Fires(book)
  PROVE  Desk!CooldownKept
<1> DEFINE n == Len(book.fires)
           Shadow(i) == {k \in DOMAIN book.fires : k < i /\ i - k <= plan.gates.cooldown /\ book.fires[k]}
<1>1. n \in Nat /\ DOMAIN book.fires = 1..n /\ plan.gates.cooldown \in Nat
  BY DEF Fires, DeskPlan
<1>2. ASSUME NEW i \in 1..n
      PROVE  book.fires[i] <=> Desk!Passes(plan.gates, book.bars[i].tick) /\ Shadow(i) = {}
  <2>1. book.fires[i] <=> /\ Desk!Passes(plan.gates, book.bars[i].tick)
                          /\ \A k \in 1..i - 1 : book.fires[k] => i - k > plan.gates.cooldown
    BY DEF Fires
  <2> HIDE DEF n
  <2>2. 1..i - 1 = {k \in 1..n : k < i}
    BY <1>1
  <2>3. \A k \in 1..i - 1 : i - k > plan.gates.cooldown <=> ~(i - k <= plan.gates.cooldown)
    BY <1>1
  <2>4. (\A k \in 1..i - 1 : book.fires[k] => i - k > plan.gates.cooldown) <=> Shadow(i) = {}
    BY <1>1, <2>2, <2>3
  <2>5. QED BY <2>1, <2>4
<1>3. QED BY <1>1, <1>2 DEF Desk!CooldownKept

DeskKept(b) == Sided(b) /\ Switching(b) /\ b.switches \in Seq(TwoSides) /\ Pyramids(b) /\ Fires(b)
DeskHeld == DeskPlan /\ DeskKept(book)

LEMMA DeskStarts ==
  ASSUME Desk!Init
  PROVE  DeskHeld
<1>1. DeskPlan
  BY DeskAssumption DEF Desk!Init, DeskPlan
<1>2. /\ book.turns = <<>> /\ book.side = "None" /\ book.switches = <<>> /\ book.other = "None"
      /\ book.count = 0 /\ book.pyramids = <<>> /\ book.until = 0 /\ book.fires = <<>> /\ book.bars = <<>>
  BY DEF Desk!Init
<1>3. Sided(book)
  <2>1. \A d \in OneSide : ~Opens(Desk!At(d, book.turns), 0)
    BY DEF Opens
  <2>2. book.turns \in Seq(TwoSides) /\ Len(book.turns) = 0
    BY <1>2
  <2>3. \A d \in OneSide : book.side # d
    BY <1>2 DEF OneSide
  <2>4. QED BY <1>2, <2>1, <2>2, <2>3 DEF Sided
<1>4. Switching(book) /\ book.switches \in Seq(TwoSides)
  BY <1>2 DEF Switching
<1>5. Pyramids(book)
  <2>1. book.pyramids \in Seq(Decision) /\ Len(book.pyramids) = 0
    BY <1>2
  <2>2. Ins(book.pyramids) = {} /\ Outs(book.pyramids) = {}
    BY <2>1 DEF Ins, Outs
  <2>3. Cardinality({}) = 0
    BY FS_EmptySet
  <2>4. ~Opens(book.pyramids, 0)
    BY DEF Opens
  <2>5. book.count \in 0..plan.max
    BY <1>1, <1>2 DEF DeskPlan
  <2>6. Cardinality(Ins(book.pyramids)) - Cardinality(Outs(book.pyramids)) = book.count
    <3>1. Cardinality(Ins(book.pyramids)) = 0
      BY <2>2, <2>3
    <3>2. Cardinality(Outs(book.pyramids)) = 0
      BY <2>2, <2>3
    <3>3. QED BY <1>2, <3>1, <3>2
  <2>7. ~Opens(book.pyramids, Len(book.pyramids)) /\ book.count = 0
    BY <1>2, <2>1, <2>4
  <2>8. QED BY <2>1, <2>2, <2>5, <2>6, <2>7 DEF Pyramids
<1>6. Fires(book)
  BY <1>2 DEF Fires
<1>7. QED BY <1>1, <1>3, <1>4, <1>5, <1>6 DEF DeskHeld, DeskKept

LEMMA DeskStep ==
  ASSUME DeskHeld, Desk!Next
  PROVE  DeskHeld'
<1>1. PICK bar \in DeskBars : book' = Desk!OnBar(book, bar) /\ plan' = plan
  BY DEF Desk!Next, Desk!Bar
<1> DEFINE raw == Desk!Raw(bar)
           c == Desk!OnBar(book, bar)
<1>2. bar.long \in Decision /\ bar.short \in Decision
  BY DeskAssumption DEF Decision
<1>3. raw \in TwoSides
  BY <1>2 DEF Desk!Raw, TwoSides, OneSide
<1>4. /\ c.turns = Append(book.turns, Desk!CleanedBothWays(book.side, raw))
      /\ c.side = Desk!SideAfter(book.side, Desk!CleanedBothWays(book.side, raw))
      /\ c.switches = Append(book.switches, Desk!CleanedBothWays(book.other, Desk!OppositeExits(raw)))
      /\ c.other = Desk!SideAfter(book.other, Desk!CleanedBothWays(book.other, Desk!OppositeExits(raw)))
  BY DEF Desk!OnBar, Desk!Seen, Desk!Turned, Desk!Switched
<1>5. /\ c.pyramids = Append(book.pyramids, Desk!Cleaned(book.count, plan.max, bar.long.enter, bar.long.leave))
      /\ c.count = Desk!CountAfter(book.count, plan.max, Desk!Cleaned(book.count, plan.max, bar.long.enter, bar.long.leave))
  BY DEF Desk!OnBar, Desk!Seen, Desk!Pyramid
<1>6. /\ c.bars = Append(book.bars, bar)
      /\ c.fires = Append(book.fires, Desk!Momentum(plan.gates, book.until, Len(book.bars), bar.tick).fires)
      /\ c.until = Desk!Momentum(plan.gates, book.until, Len(book.bars), bar.tick).until
  BY DEF Desk!OnBar, Desk!Seen, Desk!Fired
<1> HIDE DEF c, raw
<1>7. DeskPlan /\ Sided(book) /\ Switching(book) /\ book.switches \in Seq(TwoSides) /\ Pyramids(book) /\ Fires(book)
  BY DEF DeskHeld, DeskKept
<1>8. Sided(c)
  BY <1>3, <1>4, <1>7, DeskTurns
<1>9. Switching(c) /\ c.switches \in Seq(TwoSides)
  BY <1>3, <1>4, <1>7, DeskSwitches
<1>10. Pyramids(c)
  <2>1. bar.long.enter \in BOOLEAN /\ bar.long.leave \in BOOLEAN
    BY <1>2 DEF Decision
  <2>2. QED BY <1>5, <1>7, <2>1, DeskPyramids
<1>11. Fires(c)
  BY <1>6, <1>7, DeskFires
<1>12. DeskKept(c) /\ book' = c
  BY <1>1, <1>8, <1>9, <1>10, <1>11 DEF DeskKept, c
<1>13. DeskKept(book)'
  BY <1>1, <1>12 DEF DeskKept, Sided, Switching, Pyramids, Fires
<1>14. QED BY <1>1, <1>7, <1>13 DEF DeskHeld, DeskPlan

LEMMA DeskWithin ==
  ASSUME DeskHeld
  PROVE  /\ Desk!OneSideAtATime /\ Desk!OppositeExitsOnlyClose /\ Desk!EntriesAlternate
         /\ Desk!CooldownKept
<1>1. Desk!OppositeExitsOnlyClose
  <2>1. Desk!Sides = OneSide
    BY DEF Desk!Sides, OneSide
  <2>2. QED BY <2>1 DEF DeskHeld, DeskKept, Switching, Desk!OppositeExitsOnlyClose
<1>2. QED BY <1>1, DeskSides, DeskAlternates, DeskCools DEF DeskHeld, DeskKept

-----------------------------------------------------------------------------
(* The levels of a position *)

LevelTerms ==
  /\ plan.direction \in {"Long", "Short"} /\ plan.margin \in Nat /\ plan.rate \in Nat
  /\ plan.stop \in {"None", "Fixed", "Atr", "Trailing"} /\ plan.target \in {"None", "Fixed", "Atr", "RiskReward"}
  /\ plan.fill \in Stops!PriceKinds /\ plan.slippage \in Stops!SlippageModels
  /\ \A f \in {"rate", "points"} \cap DOMAIN plan.slippage : plan.slippage[f] \in Nat
  /\ plan.terms.percent \in Nat /\ plan.terms.percent <= 1000
  /\ plan.terms.speed \in Nat /\ plan.terms.fastest \in Nat /\ plan.terms.step \in Nat /\ plan.terms.multiple \in Nat
  /\ plan.terms.points \in Int /\ plan.terms.reward \in Int /\ plan.terms.ratio \in Int

\* A range stop below any low is still a price.
Ranges(atr) == \A x \in StopBars : plan.terms.multiple * atr < x.low
LevelBar(bar) ==
  /\ StopBar(bar) /\ bar.low \in Nat \ {0} /\ bar.low <= bar.open /\ bar.low <= bar.close /\ bar.low <= bar.high
  /\ plan.terms.multiple * bar.atr < bar.low

\* The trailing level an extreme asks for, and the stop it leaves.
Beneath(x) == Stops!BelowBy(plan.terms.percent, x, plan.direction)
Tightest(old, new) == Stops!TighterStop(old, new, plan.direction)
Raised(old, new) ==
  IF old = 0 THEN new
  ELSE IF Stops!Long THEN (IF new > old THEN new ELSE old) ELSE IF new < old THEN new ELSE old

LEMMA PortionGrows ==
  ASSUME NEW r \in Nat, NEW x \in Int, NEW y \in Int, x <= y
  PROVE  Stops!Portion(r, x) \in Int /\ Stops!Portion(r, y) \in Int /\ Stops!Portion(r, x) <= Stops!Portion(r, y)
<1>1. PICK k \in Nat : y = x + k
  <2>1. y - x \in Nat /\ y = x + (y - x)
    OBVIOUS
  <2>2. QED BY <2>1
<1>2. r * x \in Int /\ r * k \in Nat /\ r * y = r * x + r * k
  BY <1>1
<1> DEFINE a == r * x
           b == r * y
<1>3. a \in Int /\ b \in Int /\ a <= b
  BY <1>2
<1>4. Stops!Portion(r, x) = a \div 1000 /\ Stops!Portion(r, y) = b \div 1000
  BY DEF Stops!Portion
<1> HIDE DEF a, b
<1>5. QED BY <1>3, <1>4

LEMMA LevelsLieBeneath ==
  ASSUME LevelTerms
  PROVE  /\ \A x \in Int : Beneath(x) \in Int
         /\ \A x, y \in Int : x <= y => Beneath(x) <= Beneath(y)
         /\ \A x \in Nat : (Stops!Long => Beneath(x) \in Nat) /\ (~Stops!Long => x <= Beneath(x))
<1> DEFINE r == 1000 - Stops!Multiplier(plan.direction) * plan.terms.percent
<1>1. r \in Nat /\ (~Stops!Long => r >= 1000)
  BY DEF LevelTerms, Stops!Multiplier, Stops!Long
<1>2. \A x : Beneath(x) = Stops!Portion(r, x)
  BY DEF Beneath, Stops!BelowBy
<1> HIDE DEF r
<1>3. \A x, y \in Int : x <= y => Beneath(x) \in Int /\ Beneath(y) \in Int /\ Beneath(x) <= Beneath(y)
  BY <1>1, <1>2, PortionGrows
<1>4. \A x \in Int : Beneath(x) \in Int
  BY <1>3
<1>5. ASSUME NEW x \in Nat PROVE Beneath(x) \in Nat
  <2>1. r * x \in Nat
    BY <1>1
  <2> DEFINE a == r * x
  <2>2. a \in Nat
    BY <2>1
  <2>3. Beneath(x) = a \div 1000
    BY <1>2 DEF Stops!Portion
  <2> HIDE DEF a
  <2>4. QED BY <2>2, <2>3
<1>6. ASSUME NEW x \in Nat, ~Stops!Long PROVE x <= Beneath(x)
  <2>1. PICK k \in Nat : r = 1000 + k
    <3>1. r - 1000 \in Nat /\ r = 1000 + (r - 1000)
      BY <1>1, <1>6
    <3>2. QED BY <3>1
  <2>2. k * x \in Nat /\ r * x = 1000 * x + k * x
    BY <2>1
  <2> DEFINE a == r * x
  <2>3. a \in Nat /\ a >= 1000 * x
    BY <2>2
  <2>4. Beneath(x) = a \div 1000
    BY <1>2 DEF Stops!Portion
  <2> HIDE DEF a
  <2>5. QED BY <2>3, <2>4
<1>7. QED BY <1>3, <1>4, <1>5, <1>6

LEMMA TighterIs ==
  ASSUME LevelTerms, NEW old \in Int, NEW new \in Int
  PROVE  /\ Tightest(old, new) = Raised(old, new) /\ Raised(old, new) \in Int
         /\ Tightest(old, Raised(old, new)) = Raised(old, new) /\ Tightest(old, old) = old
BY DEF LevelTerms, Tightest, Raised, Stops!TighterStop, Stops!GreaterOf, Stops!LesserOf, Stops!NoPrice, Stops!Long

\* The kernel trails by the extreme so far, a calculator by the bar's own: the stop
\* a position had answers for the bars before.
LEMMA TrailsAgree ==
  ASSUME LevelTerms, NEW stop \in Int, NEW extreme \in Nat \ {0}, NEW own \in Nat \ {0}, NEW next \in Nat \ {0},
         IF Stops!Long THEN Beneath(extreme) <= stop ELSE stop <= Beneath(extreme) /\ 0 < stop,
         next = IF Stops!Long THEN (IF extreme > own THEN extreme ELSE own) ELSE IF extreme < own THEN extreme ELSE own
  PROVE  /\ Raised(stop, Beneath(next)) = Raised(stop, Beneath(own))
         /\ LET r == Raised(stop, Beneath(own)) IN
            IF Stops!Long THEN Beneath(next) <= r ELSE r <= Beneath(next) /\ 0 < r
<1> DEFINE b == Beneath(extreme)
           c == Beneath(own)
           d == Beneath(next)
<1>1. /\ b \in Int /\ c \in Int /\ d \in Int /\ (extreme <= own => b <= c) /\ (own <= extreme => c <= b)
      /\ d \in {b, c} /\ (d = b \/ next = own) /\ (d = c \/ next = extreme)
      /\ (Stops!Long => b \in Nat /\ c \in Nat)
      /\ (~Stops!Long => extreme <= b /\ own <= c)
  BY LevelsLieBeneath
<1>2. IF Stops!Long THEN b <= stop ELSE stop <= b /\ 0 < stop
  OBVIOUS
<1> HIDE DEF b, c, d
<1>3. Stops!Long => d = (IF extreme > own THEN b ELSE c)
  BY DEF b, c, d
<1>4. ~Stops!Long => d = (IF extreme < own THEN b ELSE c)
  BY DEF b, c, d
<1>5. Raised(stop, d) = Raised(stop, c)
  BY <1>1, <1>2, <1>3, <1>4 DEF Raised
<1>6. LET r == Raised(stop, c) IN IF Stops!Long THEN d <= r ELSE r <= d /\ 0 < r
  BY <1>1, <1>2, <1>3, <1>4 DEF Raised
<1>7. QED BY <1>5, <1>6 DEF c, d

-----------------------------------------------------------------------------
(* What an entry pays *)

LEMMA SlipIsNat ==
  ASSUME LevelTerms, NEW raw \in Nat, NEW volume \in Int
  PROVE  Stops!Slippage(plan.slippage, raw, volume) \in Nat
<1> DEFINE m == plan.slippage
           s == Stops!Slippage(m, raw, volume)
<1>0. \A f \in {"rate", "points"} \cap DOMAIN m : m[f] \in Nat
  BY DEF LevelTerms
<1>1. CASE m \in [kind : {"None"}]
  BY <1>1 DEF Stops!Slippage
<1>2. CASE m \in [kind : {"Percentage"}, rate : Int]
  <2>1. m.rate \in Nat /\ s = Stops!Portion(m.rate, raw)
    BY <1>0, <1>2 DEF Stops!Slippage
  <2> DEFINE a == m.rate * raw
  <2>2. a \in Nat
    BY <2>1
  <2>3. s = a \div 1000
    BY <2>1 DEF Stops!Portion
  <2> HIDE DEF a, s
  <2>4. s \in Nat
    BY <2>2, <2>3
  <2>5. QED BY <2>4 DEF s
<1>3. CASE m \in [kind : {"Fixed", "SpreadBased"}, points : Int]
  BY <1>0, <1>3 DEF Stops!Slippage
<1>4. CASE m \in [kind : {"VolumeBased"}, points : Int, rate : Nat]
  <2> DEFINE d == 1000 + volume * m.rate
             n == 1000 * m.points
  <2>1. s = IF volume > 0 THEN n \div d ELSE m.points
    BY <1>4 DEF Stops!Slippage
  <2>2. n \in Nat /\ m.points \in Nat
    BY <1>0, <1>4
  <2>3. volume > 0 => d \in Nat \ {0}
    <3>1. volume > 0 => volume * m.rate \in Nat
      BY <1>4
    <3>2. QED BY <3>1
  <2> HIDE DEF n, d, s
  <2>4. s \in Nat
    BY <2>1, <2>2, <2>3, DivBounds
  <2>5. QED BY <2>4 DEF s
<1>5. QED BY <1>1, <1>2, <1>3, <1>4 DEF LevelTerms, Stops!SlippageModels

LEMMA PriceIsInTheBar ==
  ASSUME LevelTerms, NEW bar, LevelBar(bar), NEW buys
  PROVE  LET price == Stops!PriceOf(plan.fill, bar, buys) IN price \in Nat /\ bar.low <= price
<1> DEFINE a == (bar.open + bar.high + bar.low + bar.close) \div 4
           t == (bar.high + bar.low + bar.close) \div 3
<1>1. a \in Nat /\ bar.low <= a /\ t \in Nat /\ bar.low <= t
  BY DEF LevelBar, StopBar
<1>2. Stops!PriceOf(plan.fill, bar, buys) \in {bar.close, bar.open, a, t, bar.high, bar.low}
  BY DEF Stops!PriceOf, Stops!PriceKinds, LevelTerms
<1> HIDE DEF a, t
<1>3. QED BY <1>1, <1>2 DEF LevelBar, StopBar

LEMMA EntryIsPaid ==
  ASSUME LevelTerms, NEW bar, LevelBar(bar), NEW buys
  PROVE  LET price == Stops!Traded(plan.slippage, Stops!PriceOf(plan.fill, bar, buys), bar.volume, plan.direction, TRUE)
         IN price \in Int /\ (Stops!Long => bar.low <= price)
<1> DEFINE raw == Stops!PriceOf(plan.fill, bar, buys)
           s == Stops!Slippage(plan.slippage, raw, bar.volume)
<1>1. raw \in Nat /\ bar.low <= raw /\ bar.volume \in Int /\ bar.low \in Int
  BY PriceIsInTheBar DEF LevelBar, StopBar
<1>2. Stops!Traded(plan.slippage, raw, bar.volume, plan.direction, TRUE) = IF Stops!Long THEN raw + s ELSE raw - s
  BY DEF Stops!Traded, Stops!Slipped, Stops!Buys, Stops!Long
<1> HIDE DEF raw
<1>3. s \in Nat
  BY <1>1, SlipIsNat
<1> HIDE DEF s
<1> DEFINE price == Stops!Traded(plan.slippage, raw, bar.volume, plan.direction, TRUE)
<1>4. price = IF Stops!Long THEN raw + s ELSE raw - s
  BY <1>2
<1> HIDE DEF price
<1>5. price \in Int /\ (Stops!Long => bar.low <= price)
  BY <1>1, <1>3, <1>4
<1>6. QED BY <1>5 DEF price, raw

LEMMA PaidIsPositive ==
  ASSUME LevelTerms, NEW cash, NEW price \in Int, ~(Stops!Sized(cash, price) <= 0)
  PROVE  price \in Nat \ {0}
<1> DEFINE f == (IF plan.margin = 0 THEN 1000 ELSE plan.margin) + plan.rate
           each == price * f
<1>1. f \in Nat \ {0}
  BY DEF LevelTerms
<1>2. Stops!Sized(cash, price) = IF each <= 0 THEN 0 ELSE Stops!Lots((1000 * cash) \div each, plan.lot)
  BY DEF Stops!Sized
<1> HIDE DEF f
<1>3. price <= 0 => each <= 0
  BY <1>1
<1> HIDE DEF each
<1>4. QED BY <1>2, <1>3

\* The parabolic stop stands between the holder and the extreme it runs for.
Behind(s) ==
  /\ s.level \in Int /\ s.extreme \in Int /\ s.speed \in Nat
  /\ IF Stops!Long THEN s.level <= s.extreme ELSE s.extreme <= s.level

Trails(p) ==
  LET stop == p.ladder["Trailing"] IN
  IF Stops!Long THEN Beneath(p.high) <= stop ELSE stop <= Beneath(p.low) /\ 0 < stop

\* A position whose levels are the ones its calculators would set.
Levelled(p) ==
  /\ Record(p, PositionFields) /\ p.entry \in Nat \ {0} /\ p.high \in Nat \ {0} /\ p.low \in Nat \ {0}
  /\ p.stop \in Int /\ p.first \in Int /\ p.atr \in Int /\ p.ladder \in [Stops!Ladder -> Int]
  /\ p.target = Stops!TargetAt(p.entry, Stops!StopAt(p.entry, p.first), p.first)
  /\ ~p.own /\ plan.stop \in Stops!Ladder => p.stop = p.ladder[plan.stop]
  /\ Trails(p) /\ Behind(p.sar)
  /\ Stops!Long => plan.terms.multiple * p.atr < p.high
  /\ p.steady => p.ladder["Chandelier"] = Stops!Chandelier(plan.terms, p.high, p.low, plan.direction, p.atr)

\* What a bar makes of a position it leaves open.
Extreme(bar) == IF Stops!Long THEN bar.high ELSE bar.low
Survives(p, q, bar) ==
  /\ Record(q, PositionFields)
  /\ q.bar = p.bar /\ q.entry = p.entry /\ q.first = p.first /\ q.own = p.own /\ q.target = p.target
  /\ q.high = Stops!GreaterOf(p.high, bar.high) /\ q.low = Stops!LesserOf(p.low, bar.low)
  /\ q.stop = IF plan.stop = "Trailing" THEN Raised(p.stop, Beneath(Extreme(q))) ELSE p.stop
  /\ q.ladder = [k \in Stops!Ladder |-> Stops!NextStop(k, plan.terms, p.ladder[k], bar, plan.direction)]
  /\ q.sar = Stops!SarNext(plan.terms, p.sar, bar, plan.direction)
  /\ q.steady = (p.steady /\ bar.atr = p.atr) /\ q.atr = bar.atr

\* The range stop of an extreme.
Ranged(x, atr) == Stops!Against(x, plan.terms.multiple * atr, plan.direction)

LEMMA LadderSteps ==
  ASSUME LevelTerms, NEW p, Levelled(p), NEW bar, LevelBar(bar), NEW q, Survives(p, q, bar)
  PROVE  /\ q.ladder \in [Stops!Ladder -> Int]
         /\ \A k \in Stops!Ladder : Tightest(p.ladder[k], q.ladder[k]) = q.ladder[k]
         /\ \A k \in {"Fixed", "Atr"} : q.ladder[k] = p.ladder[k]
         /\ q.ladder["Trailing"] = Raised(p.ladder["Trailing"], Beneath(Extreme(bar)))
         /\ q.ladder["Chandelier"] =
              IF bar.atr > 0 THEN Raised(p.ladder["Chandelier"], Ranged(Extreme(bar), bar.atr)) ELSE p.ladder["Chandelier"]
<1> DEFINE x == Extreme(bar)
           trail == Beneath(x)
           point == Stops!Against(x, plan.terms.points, plan.direction)
           range == Ranged(x, bar.atr)
           m == Stops!Multiplier(plan.direction)
           Moves(k, old) == Stops!NextStop(k, plan.terms, old, bar, plan.direction)
<1>1. x \in Int /\ bar.atr \in Int
  BY DEF Extreme, LevelBar, StopBar
<1>2. m \in {1, -1}
  BY DEF Stops!Multiplier
<1>3. trail \in Int /\ point \in Int /\ range \in Int
  <2>1. trail \in Int
    BY <1>1, LevelsLieBeneath
  <2>2. m * plan.terms.points \in Int
    BY <1>2 DEF LevelTerms
  <2>3. m * (plan.terms.multiple * bar.atr) \in Int
    <3>1. plan.terms.multiple * bar.atr \in Int
      BY <1>1 DEF LevelTerms
    <3>2. QED BY <1>2, <3>1
  <2> HIDE DEF x, m
  <2>4. point \in Int /\ range \in Int
    BY <1>1, <2>2, <2>3 DEF Stops!Against, Ranged, m
  <2>5. QED BY <2>1, <2>4
<1>4. ASSUME NEW old \in Int
      PROVE  /\ Moves("Fixed", old) = old /\ Moves("Atr", old) = old
             /\ Moves("Trailing", old) = Tightest(old, trail) /\ Moves("Step", old) = Tightest(old, trail)
             /\ Moves("Points", old) = Tightest(old, point)
             /\ Moves("Chandelier", old) = IF bar.atr > 0 THEN Tightest(old, range) ELSE old
  BY DEF Stops!NextStop, Extreme, Stops!Long, Tightest, Beneath, Ranged
<1> HIDE DEF trail, point, range, Moves
<1>5. ASSUME NEW old \in Int
      PROVE  /\ Moves("Fixed", old) = old /\ Moves("Atr", old) = old
             /\ Moves("Trailing", old) = Raised(old, trail) /\ Moves("Step", old) = Raised(old, trail)
             /\ Moves("Points", old) = Raised(old, point)
             /\ Moves("Chandelier", old) = IF bar.atr > 0 THEN Raised(old, range) ELSE old
  BY <1>3, <1>4, TighterIs
<1>6. ASSUME NEW k \in Stops!Ladder, NEW old \in Int
      PROVE  Moves(k, old) \in Int /\ Tightest(old, Moves(k, old)) = Moves(k, old)
  <2>1. \A y \in {trail, point, range} : Raised(old, y) \in Int /\ Tightest(old, Raised(old, y)) = Raised(old, y)
    BY <1>3, TighterIs
  <2>2. Tightest(old, old) = old
    BY TighterIs
  <2>3. Moves(k, old) = old \/ \E y \in {trail, point, range} : Moves(k, old) = Raised(old, y)
    BY <1>5 DEF Stops!Ladder
  <2>4. QED BY <2>1, <2>2, <2>3
<1>7. /\ \A k \in Stops!Ladder : p.ladder[k] \in Int
      /\ {"Fixed", "Atr", "Trailing", "Chandelier"} \subseteq Stops!Ladder
  BY DEF Levelled, Stops!Ladder
<1>8. q.ladder = [k \in Stops!Ladder |-> Moves(k, p.ladder[k])]
  BY DEF Survives, Moves
<1>9. q.ladder \in [Stops!Ladder -> Int] /\ \A k \in Stops!Ladder : Tightest(p.ladder[k], q.ladder[k]) = q.ladder[k]
  BY <1>6, <1>7, <1>8
<1>10. /\ q.ladder["Fixed"] = p.ladder["Fixed"] /\ q.ladder["Atr"] = p.ladder["Atr"]
       /\ q.ladder["Trailing"] = Raised(p.ladder["Trailing"], trail)
       /\ q.ladder["Chandelier"] = IF bar.atr > 0 THEN Raised(p.ladder["Chandelier"], range) ELSE p.ladder["Chandelier"]
  <2>1. \A k \in {"Fixed", "Atr", "Trailing", "Chandelier"} : q.ladder[k] = Moves(k, p.ladder[k]) /\ p.ladder[k] \in Int
    BY <1>7, <1>8
  <2>2. QED BY <1>5, <2>1
<1>11. QED BY <1>9, <1>10 DEF trail, range

\* The stop the kernel keeps, and the calculator's.
LEMMA TrailingSteps ==
  ASSUME LevelTerms, NEW p, Levelled(p), NEW bar, LevelBar(bar), NEW q, Survives(p, q, bar)
  PROVE  /\ q.stop \in Int /\ Tightest(p.stop, q.stop) = q.stop
         /\ Trails(q) /\ (~q.own /\ plan.stop \in Stops!Ladder => q.stop = q.ladder[plan.stop])
<1> DEFINE trailing == p.ladder["Trailing"]
           extreme == Extreme(p)
           own == Extreme(bar)
           next == Extreme(q)
<1>1. /\ trailing \in Int /\ extreme \in Nat \ {0} /\ own \in Nat \ {0} /\ next \in Nat \ {0}
      /\ next = IF Stops!Long THEN (IF extreme > own THEN extreme ELSE own) ELSE IF extreme < own THEN extreme ELSE own
  <2>1. /\ p.high \in Nat \ {0} /\ p.low \in Nat \ {0} /\ bar.high \in Nat \ {0} /\ bar.low \in Nat \ {0}
        /\ q.high = (IF p.high > bar.high THEN p.high ELSE bar.high) /\ q.low = (IF p.low < bar.low THEN p.low ELSE bar.low)
    BY DEF Levelled, LevelBar, StopBar, Survives, Stops!GreaterOf, Stops!LesserOf
  <2>2. trailing \in Int
    BY DEF Levelled, Stops!Ladder
  <2>3. QED BY <2>1, <2>2 DEF Extreme
<1>2. IF Stops!Long THEN Beneath(extreme) <= trailing ELSE trailing <= Beneath(extreme) /\ 0 < trailing
  BY DEF Levelled, Trails, Extreme
<1>3. q.ladder["Trailing"] = Raised(trailing, Beneath(own))
  BY LadderSteps
<1> HIDE DEF trailing, extreme, own, next
<1>4. /\ Raised(trailing, Beneath(next)) = Raised(trailing, Beneath(own))
      /\ LET r == Raised(trailing, Beneath(own)) IN
         IF Stops!Long THEN Beneath(next) <= r ELSE r <= Beneath(next) /\ 0 < r
  BY <1>1, <1>2, TrailsAgree
<1>5. Trails(q)
  BY <1>3, <1>4 DEF Trails, next, Extreme
<1>6. q.stop \in Int /\ Tightest(p.stop, q.stop) = q.stop
  <2>1. p.stop \in Int
    BY DEF Levelled
  <2>2. Beneath(next) \in Int
    BY <1>1, LevelsLieBeneath
  <2>3. q.stop \in {p.stop, Raised(p.stop, Beneath(next))}
    BY DEF Survives, next
  <2>4. QED BY <2>1, <2>2, <2>3, TighterIs
<1>7. ASSUME ~q.own, plan.stop \in Stops!Ladder PROVE q.stop = q.ladder[plan.stop]
  <2>1. p.stop = p.ladder[plan.stop]
    BY <1>7 DEF Levelled, Survives
  <2>2. CASE plan.stop = "Trailing"
    <3>1. q.stop = Raised(p.stop, Beneath(next))
      BY <2>2 DEF Survives, next
    <3>2. QED BY <1>3, <1>4, <2>1, <2>2, <3>1 DEF trailing
  <2>3. CASE plan.stop # "Trailing"
    <3>1. q.stop = p.stop
      BY <2>3 DEF Survives
    <3>2. plan.stop \in {"Fixed", "Atr"}
      BY <1>7, <2>3 DEF LevelTerms, Stops!Ladder
    <3>3. q.ladder[plan.stop] = p.ladder[plan.stop]
      BY <3>2, LadderSteps
    <3>4. QED BY <2>1, <3>1, <3>3
  <2>4. QED BY <2>2, <2>3
<1>8. QED BY <1>5, <1>6, <1>7

LEMMA ChandelierSteps ==
  ASSUME LevelTerms, NEW p, Levelled(p), NEW bar, LevelBar(bar), NEW q, Survives(p, q, bar)
  PROVE  /\ Stops!Long => plan.terms.multiple * q.atr < q.high
         /\ q.steady => q.ladder["Chandelier"] = Stops!Chandelier(plan.terms, q.high, q.low, plan.direction, q.atr)
<1> DEFINE d == plan.terms.multiple * bar.atr
<1>1. d \in Int /\ d < bar.low /\ bar.atr \in Int
  BY DEF LevelTerms, LevelBar, StopBar
<1>2. bar.atr > 0 => d \in Nat
  BY DEF LevelTerms, LevelBar, StopBar
<1>3. /\ p.high \in Nat \ {0} /\ p.low \in Nat \ {0} /\ bar.high \in Nat \ {0} /\ bar.low \in Nat \ {0} /\ bar.low <= bar.high
      /\ q.high = (IF p.high > bar.high THEN p.high ELSE bar.high) /\ q.low = (IF p.low < bar.low THEN p.low ELSE bar.low)
      /\ q.atr = bar.atr
  BY DEF Levelled, LevelBar, StopBar, Survives, Stops!GreaterOf, Stops!LesserOf
<1>4. Stops!Long => plan.terms.multiple * q.atr < q.high
  <2>1. plan.terms.multiple * q.atr = d
    BY <1>3
  <2> HIDE DEF d
  <2>2. QED BY <1>1, <1>3, <2>1
<1>5. ASSUME q.steady
      PROVE  q.ladder["Chandelier"] = Stops!Chandelier(plan.terms, q.high, q.low, plan.direction, q.atr)
  <2> DEFINE c == p.ladder["Chandelier"]
             x == Extreme(bar)
  <2>1. p.steady /\ p.atr = bar.atr
    BY <1>5 DEF Survives
  <2>2. c = IF bar.atr > 0 THEN (IF Stops!Long THEN p.high - d ELSE p.low + d) ELSE 0
    BY <1>1, <1>3, <2>1
    DEF Levelled, Stops!Chandelier, Stops!Against, Stops!Multiplier, Stops!Long, Stops!NoPrice
  <2>3. Stops!Long => d < p.high
    BY <2>1 DEF Levelled
  <2>4. q.ladder["Chandelier"] = IF bar.atr > 0 THEN Raised(c, Ranged(x, bar.atr)) ELSE c
    BY LadderSteps
  <2>5. Ranged(x, bar.atr) = IF Stops!Long THEN bar.high - d ELSE bar.low + d
    BY <1>1, <1>3 DEF Ranged, Stops!Against, Stops!Multiplier, Stops!Long, Extreme
  <2>6. Stops!Chandelier(plan.terms, q.high, q.low, plan.direction, q.atr) =
          IF bar.atr > 0 THEN (IF Stops!Long THEN q.high - d ELSE q.low + d) ELSE 0
    BY <1>1, <1>3
    DEF Stops!Chandelier, Stops!Against, Stops!Multiplier, Stops!Long, Stops!NoPrice
  <2> DEFINE r == Ranged(x, bar.atr)
             e == q.ladder["Chandelier"]
  <2>7. e = IF bar.atr > 0 THEN Raised(c, r) ELSE c
    BY <2>4
  <2> HIDE DEF d, c, r, e
  <2>8. e = IF bar.atr > 0 THEN (IF Stops!Long THEN q.high - d ELSE q.low + d) ELSE 0
    BY <1>1, <1>2, <1>3, <2>2, <2>3, <2>5, <2>7 DEF Raised, r
  <2>9. QED BY <2>6, <2>8 DEF e
<1>6. QED BY <1>4, <1>5

LEMMA SarSteps ==
  ASSUME LevelTerms, NEW s, Behind(s), NEW bar, LevelBar(bar)
  PROVE  LET t == Stops!SarNext(plan.terms, s, bar, plan.direction) IN
         /\ Behind(t)
         /\ IF Stops!Long THEN t.level <= bar.low /\ t.level >= Stops!LesserOf(s.level, bar.low)
            ELSE t.level >= bar.high /\ t.level <= Stops!GreaterOf(s.level, bar.high)
<1> DEFINE fresh == IF Stops!Long THEN bar.high > s.extreme ELSE bar.low < s.extreme
           speed == IF fresh THEN Stops!LesserOf(s.speed + plan.terms.step, plan.terms.fastest) ELSE s.speed
           extreme == IF ~fresh THEN s.extreme ELSE IF Stops!Long THEN bar.high ELSE bar.low
           gap == extreme - s.level
           step == Stops!Portion(speed, gap)
           moved == s.level + step
           level == IF Stops!Long THEN Stops!LesserOf(moved, bar.low) ELSE Stops!GreaterOf(moved, bar.high)
           t == Stops!SarNext(plan.terms, s, bar, plan.direction)
<1>1. t = [level |-> level, extreme |-> extreme, speed |-> speed]
  BY DEF Stops!SarNext, Stops!Long
<1>2. /\ s.level \in Int /\ s.extreme \in Int /\ s.speed \in Nat
      /\ bar.high \in Int /\ bar.low \in Int /\ bar.low <= bar.high
      /\ IF Stops!Long THEN s.level <= s.extreme ELSE s.extreme <= s.level
  BY DEF Behind, LevelBar, StopBar
<1>3. speed \in Nat
  BY <1>2 DEF LevelTerms, Stops!LesserOf
<1> HIDE DEF speed
<1>4. extreme \in Int /\ IF Stops!Long THEN s.extreme <= extreme /\ bar.high <= extreme ELSE extreme <= s.extreme /\ extreme <= bar.low
  BY <1>2
<1> HIDE DEF extreme, fresh
<1>5. gap \in Int /\ (Stops!Long => 0 <= gap) /\ (~Stops!Long => gap <= 0)
  BY <1>2, <1>4
<1> HIDE DEF gap
<1>6. step \in Int /\ (Stops!Long => 0 <= step) /\ (~Stops!Long => step <= 0)
  <2>1. Stops!Portion(speed, 0) = 0
    <3>1. speed * 0 = 0
      BY <1>3
    <3>2. QED BY <3>1 DEF Stops!Portion
  <2>2. ASSUME NEW x \in Int, NEW y \in Int, x <= y
        PROVE  Stops!Portion(speed, x) \in Int /\ Stops!Portion(speed, y) \in Int
               /\ Stops!Portion(speed, x) <= Stops!Portion(speed, y)
    BY <1>3, <2>2, PortionGrows
  <2>3. step \in Int
    BY <1>5, <2>2
  <2>4. CASE Stops!Long
    BY <1>5, <2>1, <2>2, <2>4
  <2>5. CASE ~Stops!Long
    BY <1>5, <2>1, <2>2, <2>5
  <2>6. QED BY <2>3, <2>4, <2>5
<1> HIDE DEF step
<1>7. /\ level \in Int /\ IF Stops!Long THEN level <= extreme ELSE extreme <= level
      /\ IF Stops!Long THEN level <= bar.low /\ level >= Stops!LesserOf(s.level, bar.low)
         ELSE level >= bar.high /\ level <= Stops!GreaterOf(s.level, bar.high)
  BY <1>2, <1>4, <1>6 DEF Stops!LesserOf, Stops!GreaterOf
<1> HIDE DEF level, t
<1>8. t.level = level /\ t.extreme = extreme /\ t.speed = speed
  BY <1>1
<1>9. Behind(t)
  BY <1>3, <1>4, <1>7, <1>8 DEF Behind
<1>10. QED BY <1>7, <1>8, <1>9 DEF t

\* A bar keeps the levels of a position it leaves open.
LEMMA SurvivorIsLevelled ==
  ASSUME LevelTerms, NEW p, Levelled(p), NEW bar, LevelBar(bar), NEW q, Survives(p, q, bar)
  PROVE  Levelled(q)
<1>1. /\ q.ladder \in [Stops!Ladder -> Int] /\ q.stop \in Int /\ Trails(q)
      /\ ~q.own /\ plan.stop \in Stops!Ladder => q.stop = q.ladder[plan.stop]
  BY LadderSteps, TrailingSteps
<1>2. /\ Stops!Long => plan.terms.multiple * q.atr < q.high
      /\ q.steady => q.ladder["Chandelier"] = Stops!Chandelier(plan.terms, q.high, q.low, plan.direction, q.atr)
  BY ChandelierSteps
<1>3. Behind(q.sar)
  BY SarSteps DEF Levelled, Survives
<1>4. /\ Record(q, PositionFields) /\ q.entry = p.entry /\ q.first = p.first /\ q.target = p.target
      /\ q.high \in Nat \ {0} /\ q.low \in Nat \ {0} /\ q.atr \in Int
  BY DEF Levelled, LevelBar, StopBar, Survives, Stops!GreaterOf, Stops!LesserOf
<1>5. /\ q.entry \in Nat \ {0} /\ q.first \in Int
      /\ q.target = Stops!TargetAt(q.entry, Stops!StopAt(q.entry, q.first), q.first)
  BY <1>4 DEF Levelled
<1>6. QED BY <1>1, <1>2, <1>3, <1>4, <1>5 DEF Levelled

-----------------------------------------------------------------------------
(* An entry sets the levels *)

LEMMA LevelsMatch ==
  ASSUME LevelTerms, NEW entry \in Int, NEW atr \in Int
  PROVE  /\ Stops!StopAt(entry, atr) = Stops!FirstStop(plan.stop, plan.terms, entry, plan.direction, atr)
         /\ Stops!StopAt(entry, atr) \in Int
         /\ \A stop \in Int :
              Stops!TargetAt(entry, stop, atr) = Stops!FirstTarget(plan.target, plan.terms, entry, stop, plan.direction, atr)
<1> DEFINE m == Stops!Multiplier(plan.direction)
           n == plan.terms.multiple
           w == plan.terms.reward
           g == plan.terms.ratio
<1>1. m \in Int /\ n \in Int /\ w \in Int /\ g \in Int /\ Beneath(entry) \in Int
  BY LevelsLieBeneath DEF Stops!Multiplier, LevelTerms
<1>2. m * n * atr = m * (n * atr) /\ m * n * atr \in Int
  <2> HIDE DEF m, n
  <2>1. QED BY <1>1
<1>3. Stops!StopAt(entry, atr) =
        IF plan.stop \in {"Fixed", "Trailing"} THEN Beneath(entry)
        ELSE IF plan.stop = "Atr" /\ atr > 0 THEN entry - m * n * atr ELSE 0
  BY DEF Stops!StopAt, Beneath, LevelTerms, Stops!NoPrice
<1>4. Stops!FirstStop(plan.stop, plan.terms, entry, plan.direction, atr) =
        IF plan.stop \in {"Fixed", "Trailing"} THEN Beneath(entry)
        ELSE IF plan.stop = "Atr" /\ atr > 0 THEN entry - m * (n * atr) ELSE 0
  BY DEF Stops!FirstStop, Stops!Against, Beneath, LevelTerms, Stops!NoPrice
<1>5. ASSUME NEW stop \in Int
      PROVE  Stops!TargetAt(entry, stop, atr) = Stops!FirstTarget(plan.target, plan.terms, entry, stop, plan.direction, atr)
  <2> DEFINE z == Stops!Size(entry - stop)
  <2>1. z \in Int
    BY DEF Stops!Size
  <2> HIDE DEF z
  <2>2. m * z * g = m * (g * z)
    <3> HIDE DEF m, g
    <3>1. QED BY <1>1, <2>1
  <2>3. 1000 - m * (-w) = 1000 + m * w
    <3> HIDE DEF m, w
    <3>1. QED BY <1>1
  <2>4. Stops!BelowBy(-w, entry, plan.direction) = Stops!Portion(1000 + m * w, entry)
    BY <2>3 DEF Stops!BelowBy
  <2>5. CASE plan.target = "Fixed"
    BY <2>4, <2>5 DEF Stops!TargetAt, Stops!FirstTarget
  <2>6. CASE plan.target = "Atr"
    BY <1>2, <2>6 DEF Stops!TargetAt, Stops!FirstTarget, Stops!InFavor
  <2>7. CASE plan.target = "RiskReward"
    BY <2>2, <2>7 DEF Stops!TargetAt, Stops!FirstTarget, Stops!InFavor, z
  <2>8. CASE plan.target = "None"
    BY <2>8 DEF Stops!TargetAt, Stops!FirstTarget
  <2>9. QED BY <2>5, <2>6, <2>7, <2>8 DEF LevelTerms
<1> HIDE DEF m, n
<1>6. QED BY <1>1, <1>2, <1>3, <1>4, <1>5

LEMMA SarStarts ==
  ASSUME LevelTerms, NEW entry \in Nat \ {0}
  PROVE  Behind(Stops!SarInit(plan.terms, entry, plan.direction))
<1> DEFINE level == Stops!BelowBy(10, entry, plan.direction)
           a == 990 * entry
           b == 1010 * entry
<1>1. level = IF Stops!Long THEN a \div 1000 ELSE b \div 1000
  BY DEF Stops!BelowBy, Stops!Portion, Stops!Multiplier, Stops!Long
<1>2. a \div 1000 \in Int /\ a \div 1000 <= entry /\ b \div 1000 \in Int /\ entry <= b \div 1000
  OBVIOUS
<1> HIDE DEF a, b
<1>3. level \in Int /\ IF Stops!Long THEN level <= entry ELSE entry <= level
  BY <1>1, <1>2
<1> HIDE DEF level
<1>4. Stops!SarInit(plan.terms, entry, plan.direction) = [level |-> level, extreme |-> entry, speed |-> plan.terms.speed]
  BY DEF Stops!SarInit, level
<1>5. QED BY <1>3, <1>4 DEF Behind, LevelTerms

LEMMA LadderStarts ==
  ASSUME LevelTerms, NEW entry \in Nat \ {0}, NEW atr \in Int
  PROVE  LET First(k) == Stops!FirstStop(k, plan.terms, entry, plan.direction, atr) IN
         /\ \A k \in Stops!Ladder : First(k) \in Int
         /\ First("Trailing") = Beneath(entry)
         /\ First("Chandelier") = Stops!Chandelier(plan.terms, entry, entry, plan.direction, atr)
<1> DEFINE First(k) == Stops!FirstStop(k, plan.terms, entry, plan.direction, atr)
           range == Stops!Against(entry, plan.terms.multiple * atr, plan.direction)
           point == Stops!Against(entry, plan.terms.points, plan.direction)
           m == Stops!Multiplier(plan.direction)
<1>1. \A k \in Stops!Ladder : First(k) \in {Beneath(entry), range, point, 0}
  BY DEF Stops!FirstStop, Stops!Ladder, Beneath, Stops!NoPrice
<1>2. Beneath(entry) \in Int /\ range \in Int /\ point \in Int
  <2>1. m \in Int /\ plan.terms.multiple * atr \in Int /\ plan.terms.points \in Int
    BY DEF Stops!Multiplier, LevelTerms
  <2>2. m * (plan.terms.multiple * atr) \in Int /\ m * plan.terms.points \in Int
    <3> HIDE DEF m
    <3>1. QED BY <2>1
  <2> HIDE DEF m
  <2>3. range \in Int /\ point \in Int
    BY <2>2 DEF Stops!Against, m
  <2>4. QED BY <2>3, LevelsLieBeneath
<1> HIDE DEF range, point
<1>3. \A k \in Stops!Ladder : First(k) \in Int
  <2> HIDE DEF First
  <2>1. QED BY <1>1, <1>2
<1>4. First("Trailing") = Beneath(entry)
  BY DEF Stops!FirstStop, Beneath
<1>5. First("Chandelier") = Stops!Chandelier(plan.terms, entry, entry, plan.direction, atr)
  BY DEF Stops!FirstStop, Stops!Chandelier
<1>6. QED BY <1>3, <1>4, <1>5

LEMMA FreshIsLevelled ==
  ASSUME LevelTerms, NEW bar, NEW price \in Nat \ {0}, NEW size, NEW intent, intent.atr \in Int, intent.at \in Int,
         Stops!Long => plan.terms.multiple * intent.atr < price
  PROVE  LET p == Stops!Fresh(bar, price, size, intent) IN Levelled(p) /\ p.bar = bar
<1> DEFINE atr == intent.atr
           own == intent.at # 0
           chosen == Stops!StopAt(price, atr)
           First(k) == Stops!FirstStop(k, plan.terms, price, plan.direction, atr)
           ladder == [k \in Stops!Ladder |-> First(k)]
           sar == Stops!SarInit(plan.terms, price, plan.direction)
           stop == IF own THEN intent.at ELSE chosen
           target == Stops!TargetAt(price, chosen, atr)
           p == Stops!Fresh(bar, price, size, intent)
<1>1. /\ p.bar = bar /\ p.entry = price /\ p.stop = stop /\ p.target = target /\ p.high = price /\ p.low = price
      /\ p.first = atr /\ p.atr = atr /\ p.steady = TRUE /\ p.own = own /\ p.ladder = ladder /\ p.sar = sar
  BY DEF Stops!Fresh, Stops!NoPrice
<1>2. Record(p, PositionFields)
  BY StopBuys
<1>3. chosen \in Int /\ chosen = First(plan.stop)
  <2>1. atr \in Int /\ price \in Int
    OBVIOUS
  <2> HIDE DEF atr
  <2>2. QED BY <2>1, LevelsMatch
<1>4. Behind(sar)
  BY SarStarts
<1>5. /\ \A k \in Stops!Ladder : First(k) \in Int
      /\ First("Trailing") = Beneath(price)
      /\ First("Chandelier") = Stops!Chandelier(plan.terms, price, price, plan.direction, atr)
  BY LadderStarts
<1> HIDE DEF First
<1>6. /\ ladder \in [Stops!Ladder -> Int] /\ ladder["Trailing"] = Beneath(price)
      /\ ladder["Chandelier"] = Stops!Chandelier(plan.terms, price, price, plan.direction, atr)
      /\ plan.stop \in Stops!Ladder => ladder[plan.stop] = chosen
  BY <1>3, <1>5 DEF Stops!Ladder
<1> HIDE DEF ladder, sar
<1>7. stop \in Int /\ (~own => stop = chosen)
  BY <1>3
<1> HIDE DEF p, stop, own
<1>8. Trails(p)
  BY <1>1, <1>6, LevelsLieBeneath DEF Trails
<1>9. /\ p.entry \in Nat \ {0} /\ p.high \in Nat \ {0} /\ p.low \in Nat \ {0}
      /\ p.stop \in Int /\ p.first \in Int /\ p.atr \in Int /\ p.ladder \in [Stops!Ladder -> Int]
      /\ p.target = Stops!TargetAt(p.entry, Stops!StopAt(p.entry, p.first), p.first)
      /\ Behind(p.sar)
  BY <1>1, <1>4, <1>6, <1>7
<1>10. /\ ~p.own /\ plan.stop \in Stops!Ladder => p.stop = p.ladder[plan.stop]
       /\ Stops!Long => plan.terms.multiple * p.atr < p.high
       /\ p.ladder["Chandelier"] = Stops!Chandelier(plan.terms, p.high, p.low, plan.direction, p.atr)
  BY <1>1, <1>6, <1>7
<1>11. Levelled(p) /\ p.bar = bar
  BY <1>1, <1>2, <1>8, <1>9, <1>10 DEF Levelled
<1>12. QED BY <1>11 DEF p

\* A book whose position is levelled.
LevelIntent(i) == i.atr \in Int /\ i.at \in Int /\ Ranges(i.atr)

LEMMA EntryIsLevelled ==
  ASSUME LevelTerms, NEW b, StopBook(b), NEW bar \in StopBars, LevelBar(bar), NEW intent, LevelIntent(intent)
  PROVE  LET c == Stops!Entered(b, bar, intent) IN
         /\ StopBook(c) /\ c.bar = b.bar /\ c.due = b.due
         /\ c = b \/ (Levelled(c.position) /\ c.position.bar = b.bar)
<1> DEFINE raw == Stops!PriceOf(plan.fill, bar, Stops!Buys(plan.direction, TRUE))
           price == Stops!Traded(plan.slippage, raw, bar.volume, plan.direction, TRUE)
           size == Stops!Sized(b.cash, price)
           fresh == Stops!Fresh(b.bar, price, size, intent)
           paid == IF plan.margin = 0 THEN Stops!Value(price, size) ELSE 0
           cash == b.cash - Stops!Charge(price, size, TRUE) - paid
           c == Stops!Entered(b, bar, intent)
<1>1. StopBook(c) /\ c.bar = b.bar /\ c.due = b.due
  BY StopEnters
<1>2. c = b \/ (~(size <= 0) /\ c = [b EXCEPT !.cash = cash, !.position = fresh])
  BY DEF Stops!Entered, Stops!Opened
<1>3. price \in Int /\ (Stops!Long => bar.low <= price)
  BY EntryIsPaid
<1>4. ~(size <= 0) => price \in Nat \ {0}
  <2> HIDE DEF price
  <2>1. QED BY <1>3, PaidIsPositive
<1>5. ~(size <= 0) => Levelled(fresh) /\ fresh.bar = b.bar
  <2> SUFFICES ASSUME ~(size <= 0) PROVE Levelled(fresh) /\ fresh.bar = b.bar
    OBVIOUS
  <2> DEFINE d == plan.terms.multiple * intent.atr
             now == b.bar
  <2>1. d < bar.low /\ d \in Int /\ bar.low \in Int
    BY DEF LevelIntent, Ranges, LevelTerms, LevelBar
  <2> HIDE DEF size, price
  <2>2. Stops!Long => d < price
    <3> HIDE DEF d
    <3>1. QED BY <1>3, <2>1
  <2>3. intent.atr \in Int /\ intent.at \in Int /\ price \in Nat \ {0}
    BY <1>4 DEF LevelIntent
  <2> HIDE DEF now, fresh
  <2>4. Levelled(Stops!Fresh(now, price, size, intent)) /\ Stops!Fresh(now, price, size, intent).bar = now
    BY <2>2, <2>3, FreshIsLevelled
  <2>5. QED BY <2>4 DEF now, fresh
<1> HIDE DEF fresh, cash, paid, size, price, c
<1>6. c = b \/ c.position = fresh
  BY <1>2 DEF StopBook, Record, StopFields
<1>7. c = b \/ (Levelled(c.position) /\ c.position.bar = b.bar)
  BY <1>2, <1>5, <1>6
<1>8. QED BY <1>1, <1>7 DEF c

-----------------------------------------------------------------------------
(* A bar, for a position it leaves open *)

LEMMA SeenPosition ==
  ASSUME NEW b, StopBook(b), Stops!Holds(b), NEW bar
  PROVE  LET p == b.position
             q == Stops!Seen(b, bar).position
         IN /\ Record(q, PositionFields)
            /\ q.high = Stops!GreaterOf(p.high, bar.high) /\ q.low = Stops!LesserOf(p.low, bar.low)
            /\ \A f \in PositionFields \ {"high", "low"} : q[f] = p[f]
<1> DEFINE p == b.position
           h == Stops!GreaterOf(p.high, bar.high)
           l == Stops!LesserOf(p.low, bar.low)
           q == [p EXCEPT !.high = h, !.low = l]
<1>1. Stops!Seen(b, bar) = [b EXCEPT !.position = q]
  BY DEF Stops!Seen, StopBook, Record, StopFields, PositionFields
<1> HIDE DEF q
<1>2. Stops!Seen(b, bar).position = q
  BY <1>1 DEF StopBook, Record, StopFields
<1> HIDE DEF h, l
<1>3. /\ Record(q, PositionFields) /\ q.high = h /\ q.low = l
      /\ \A f \in PositionFields \ {"high", "low"} : q[f] = p[f]
  BY DEF StopBook, Record, PositionFields, q
<1> HIDE DEF p
<1>4. QED BY <1>2, <1>3 DEF h, l, p

LEMMA TrailedPosition ==
  ASSUME NEW b, StopBook(b), Stops!Holds(b)
  PROVE  LET p == b.position
             q == Stops!Trailed(b).position
         IN /\ Record(q, PositionFields)
            /\ q.stop = IF plan.stop = "Trailing" THEN Raised(p.stop, Beneath(Extreme(p))) ELSE p.stop
            /\ \A f \in PositionFields \ {"stop"} : q[f] = p[f]
<1> DEFINE p == b.position
           stop == Raised(p.stop, Beneath(Extreme(p)))
           q == [p EXCEPT !.stop = stop]
           c == Stops!Trailed(b)
<1>1. CASE plan.stop # "Trailing"
  <2>1. c = b
    BY <1>1 DEF Stops!Trailed
  <2> HIDE DEF c
  <2>2. QED BY <1>1, <2>1 DEF StopBook, c
<1>2. CASE plan.stop = "Trailing"
  <2>1. c = [b EXCEPT !.position = q]
    BY <1>2 DEF Stops!Trailed, StopBook, Record, StopFields, PositionFields, Raised, Beneath, Extreme, Stops!NoPrice
  <2> HIDE DEF q, stop, c
  <2>2. c.position = q
    BY <2>1 DEF StopBook, Record, StopFields
  <2>3. Record(q, PositionFields) /\ q.stop = stop /\ \A f \in PositionFields \ {"stop"} : q[f] = p[f]
    BY DEF StopBook, Record, PositionFields, q
  <2> HIDE DEF p
  <2>4. QED BY <1>2, <2>2, <2>3 DEF stop, c, p
<1>3. QED BY <1>1, <1>2

LEMMA FollowedPosition ==
  ASSUME NEW b, StopBook(b), Stops!Holds(b), NEW bar
  PROVE  LET p == b.position
             q == Stops!Followed(b, bar).position
         IN /\ Record(q, PositionFields)
            /\ q.ladder = [k \in Stops!Ladder |-> Stops!NextStop(k, plan.terms, p.ladder[k], bar, plan.direction)]
            /\ q.sar = Stops!SarNext(plan.terms, p.sar, bar, plan.direction)
            /\ q.steady = (p.steady /\ bar.atr = p.atr) /\ q.atr = bar.atr
            /\ \A f \in PositionFields \ {"ladder", "sar", "steady", "atr"} : q[f] = p[f]
<1> DEFINE p == b.position
           ladder == [k \in Stops!Ladder |-> Stops!NextStop(k, plan.terms, p.ladder[k], bar, plan.direction)]
           sar == Stops!SarNext(plan.terms, p.sar, bar, plan.direction)
           steady == p.steady /\ bar.atr = p.atr
           q == [p EXCEPT !.ladder = ladder, !.sar = sar, !.steady = steady, !.atr = bar.atr]
           c == Stops!Followed(b, bar)
<1>1. c = [b EXCEPT !.position.ladder = ladder, !.position.sar = sar,
                    !.position.steady = steady, !.position.atr = bar.atr]
  BY DEF Stops!Followed, StopBook, Record, StopFields, PositionFields
<1> HIDE DEF ladder, sar, steady, c
<1>2. c.position = q
  BY <1>1 DEF StopBook, Record, StopFields
<1>3. /\ Record(q, PositionFields) /\ q.ladder = ladder /\ q.sar = sar /\ q.steady = steady /\ q.atr = bar.atr
      /\ \A f \in PositionFields \ {"ladder", "sar", "steady", "atr"} : q[f] = p[f]
  BY DEF StopBook, Record, PositionFields
<1> HIDE DEF q, p
<1>4. QED BY <1>2, <1>3 DEF ladder, sar, steady, c, p

LEMMA ManagedSurvives ==
  ASSUME NEW b, StopBook(b), NEW bar, NEW signal,
         Stops!Holds(Stops!Managed(b, bar, signal))
  PROVE  /\ Stops!Holds(b) /\ ~Stops!StopHit(b.position, bar) /\ ~Stops!TargetHit(b.position, bar)
         /\ Survives(b.position, Stops!Managed(b, bar, signal).position, bar)
<1> DEFINE s == Stops!Seen(b, bar)
           d == Stops!Exited(s, bar, signal)
           t == Stops!Trailed(d)
           c == Stops!Followed(t, bar)
           p == b.position
           q == c.position
<1>1. Stops!Managed(b, bar, signal) = c
  BY DEF Stops!Managed
<1>2. /\ StopBook(s) /\ Stops!Holds(s) = Stops!Holds(b)
      /\ Stops!Holds(b) => s.position.stop = p.stop /\ s.position.target = p.target
  BY StopSees
<1>3. StopBook(d) /\ (d = s \/ ~Stops!Holds(d))
  BY <1>2, StopExits
<1>4. StopBook(t) /\ Stops!Holds(t) = Stops!Holds(d)
  BY <1>3, StopTrails
<1>5. StopBook(c) /\ Stops!Holds(c) = Stops!Holds(t)
  BY <1>4, StopFollows
<1>6. Stops!Holds(c)
  BY <1>1
<1>7. Stops!Holds(t) /\ Stops!Holds(d) /\ d = s /\ Stops!Holds(s) /\ Stops!Holds(b)
  BY <1>2, <1>3, <1>4, <1>5, <1>6
<1>8. ~Stops!StopHit(p, bar) /\ ~Stops!TargetHit(p, bar)
  <2>1. ASSUME NEW raw, NEW why PROVE ~Stops!Holds(Stops!Closed(s, raw, bar.volume, why))
    BY <1>2, StopCloses
  <2>2. /\ ~Stops!Holds(AtTarget(s, bar)) /\ ~Stops!Holds(AtStop(s, bar)) /\ ~Stops!Holds(AtMarket(s, bar))
    BY <2>1 DEF AtTarget, AtStop, AtMarket
  <2>3. ~Stops!StopHit(s.position, bar) /\ ~Stops!TargetHit(s.position, bar)
    BY <1>7, <2>2, ExitWays
  <2>4. QED BY <1>2, <1>7, <2>3 DEF Stops!StopHit, Stops!TargetHit
<1> DEFINE x == s.position
           y == t.position
<1>9. /\ x.high = Stops!GreaterOf(p.high, bar.high) /\ x.low = Stops!LesserOf(p.low, bar.low)
      /\ \A f \in PositionFields \ {"high", "low"} : x[f] = p[f]
  BY <1>7, SeenPosition
<1>10. /\ y.stop = IF plan.stop = "Trailing" THEN Raised(x.stop, Beneath(Extreme(x))) ELSE x.stop
       /\ \A f \in PositionFields \ {"stop"} : y[f] = x[f]
  BY <1>3, <1>7, TrailedPosition
<1>11. /\ Record(q, PositionFields)
       /\ q.ladder = [k \in Stops!Ladder |-> Stops!NextStop(k, plan.terms, y.ladder[k], bar, plan.direction)]
       /\ q.sar = Stops!SarNext(plan.terms, y.sar, bar, plan.direction)
       /\ q.steady = (y.steady /\ bar.atr = y.atr) /\ q.atr = bar.atr
       /\ \A f \in PositionFields \ {"ladder", "sar", "steady", "atr"} : q[f] = y[f]
  BY <1>4, <1>7, FollowedPosition
<1> HIDE DEF x, y, p, q, c, s, d, t
<1>12. /\ y.ladder = p.ladder /\ y.sar = p.sar /\ y.steady = p.steady /\ y.atr = p.atr
       /\ y.bar = p.bar /\ y.entry = p.entry /\ y.first = p.first /\ y.own = p.own /\ y.target = p.target
       /\ y.high = x.high /\ y.low = x.low /\ x.stop = p.stop
  BY <1>9, <1>10 DEF PositionFields
<1>13. /\ q.bar = p.bar /\ q.entry = p.entry /\ q.first = p.first /\ q.own = p.own /\ q.target = p.target
       /\ q.high = x.high /\ q.low = x.low /\ q.stop = y.stop
  BY <1>11, <1>12 DEF PositionFields
<1>14. Extreme(x) = Extreme(q)
  BY <1>13 DEF Extreme
<1>15. Survives(p, q, bar)
  BY <1>9, <1>10, <1>11, <1>12, <1>13, <1>14 DEF Survives
<1>16. QED BY <1>1, <1>7, <1>8, <1>15 DEF p, q

\* What a bar ends with: nothing, the position it began with, or one of its own.
Ends(b, c, bar) ==
  /\ StopBook(c) /\ LevelIntent(c.due)
  /\ Stops!Holds(c) =>
       \/ /\ Stops!Holds(b) /\ ~Stops!StopHit(b.position, bar) /\ ~Stops!TargetHit(b.position, bar)
          /\ Survives(b.position, c.position, bar)
       \/ Levelled(c.position) /\ c.position.bar = b.bar

LEMMA BarEnds ==
  ASSUME LevelTerms, \A x \in StopBars : LevelBar(x) /\ LevelIntent(Stops!Intent(x)),
         NEW b, StopBook(b), LevelIntent(b.due), NEW bar \in StopBars
  PROVE  Ends(b, Stops!OnBar(b, bar), bar) /\ Stops!OnBar(b, bar).bar = b.bar + 1
<1> DEFINE intent == Stops!Intent(bar)
           c == Stops!Passed(b, bar)
           o == Stops!OnBar(b, bar)
<1>1. LevelBar(bar) /\ LevelIntent(intent)
  OBVIOUS
<1>2. Ends(b, c, bar) /\ c.bar = b.bar
  <2>1. CASE plan.nextOpen
    <3> DEFINE l == Stops!Left(b, bar)
               f == Stops!DueFilled(b, bar)
               m == Stops!Managed(f, bar, FALSE)
    <3>1. f = Stops!Entered(l, bar, b.due)
      BY DEF Stops!DueFilled
    <3>2. StopBook(l) /\ l.bar = b.bar
      BY StopLeaves
    <3>3. l = b \/ ~Stops!Holds(l)
      <4>1. ASSUME NEW raw PROVE ~Stops!Holds(Stops!Closed(b, raw, bar.volume, "Signal"))
        BY StopCloses
      <4>2. QED BY <4>1 DEF Stops!Left
    <3> HIDE DEF l, f
    <3>4. StopBook(f) /\ f.bar = b.bar /\ (f = l \/ (Levelled(f.position) /\ f.position.bar = b.bar))
      <4> DEFINE due == b.due
      <4>1. LevelIntent(due)
        OBVIOUS
      <4> HIDE DEF due
      <4>2. LET e == Stops!Entered(l, bar, due) IN
            StopBook(e) /\ e.bar = l.bar /\ (e = l \/ (Levelled(e.position) /\ e.position.bar = l.bar))
        BY <1>1, <3>2, <4>1, EntryIsLevelled
      <4>3. QED BY <3>1, <3>2, <4>2 DEF due
    <3>5. StopBook(m) /\ m.bar = b.bar
      <4>1. ASSUME NEW signal
            PROVE  StopBook(Stops!Managed(f, bar, signal)) /\ Stops!Managed(f, bar, signal).bar = f.bar
        BY <3>4, StopManages
      <4>2. QED BY <3>4, <4>1
    <3>6. Stops!Holds(m) =>
            /\ Stops!Holds(f) /\ ~Stops!StopHit(f.position, bar) /\ ~Stops!TargetHit(f.position, bar)
            /\ Survives(f.position, m.position, bar)
      <4>1. ASSUME NEW signal, Stops!Holds(Stops!Managed(f, bar, signal))
            PROVE  /\ Stops!Holds(f) /\ ~Stops!StopHit(f.position, bar) /\ ~Stops!TargetHit(f.position, bar)
                   /\ Survives(f.position, Stops!Managed(f, bar, signal).position, bar)
        BY <3>4, <4>1, ManagedSurvives
      <4>2. QED BY <4>1
    <3> HIDE DEF m
    <3>7. Stops!Holds(m) =>
            \/ /\ Stops!Holds(b) /\ ~Stops!StopHit(b.position, bar) /\ ~Stops!TargetHit(b.position, bar)
               /\ Survives(b.position, m.position, bar)
            \/ Levelled(m.position) /\ m.position.bar = b.bar
      <4> SUFFICES ASSUME Stops!Holds(m)
                   PROVE  \/ /\ Stops!Holds(b) /\ ~Stops!StopHit(b.position, bar) /\ ~Stops!TargetHit(b.position, bar)
                             /\ Survives(b.position, m.position, bar)
                          \/ Levelled(m.position) /\ m.position.bar = b.bar
        OBVIOUS
      <4>1. CASE f = b
        BY <3>6, <4>1
      <4>2. CASE Levelled(f.position) /\ f.position.bar = b.bar
        <5> DEFINE p == f.position
                   q == m.position
        <5>1. Levelled(p) /\ Survives(p, q, bar) /\ p.bar = b.bar
          BY <3>6, <4>2
        <5> HIDE DEF p, q
        <5>2. Levelled(q) /\ q.bar = b.bar
          BY <1>1, <5>1, SurvivorIsLevelled DEF Survives
        <5>3. QED BY <5>2 DEF q
      <4>3. QED BY <3>3, <3>4, <3>6, <4>1, <4>2
    <3>8. c = [m EXCEPT !.due = intent]
      BY <2>1 DEF Stops!Passed, m, f
    <3> HIDE DEF c, intent
    <3>9. Record(c, StopFields) /\ c.bar = m.bar /\ c.position = m.position /\ c.due = intent
      BY <3>5, <3>8 DEF StopBook, Record, StopFields
    <3>10. QED BY <1>1, <3>5, <3>7, <3>9 DEF Ends, StopBook, Stops!Holds
  <2>2. CASE ~plan.nextOpen
    <3> DEFINE m == Stops!Managed(b, bar, bar.exit)
               exit == bar.exit
    <3>1. StopBook(m) /\ m.bar = b.bar /\ m.due = b.due
      BY StopManages
    <3>2. Stops!Holds(m) =>
            /\ Stops!Holds(b) /\ ~Stops!StopHit(b.position, bar) /\ ~Stops!TargetHit(b.position, bar)
            /\ Survives(b.position, m.position, bar)
      BY ManagedSurvives
    <3>3. c = Stops!Entered(m, bar, intent)
      BY <2>2 DEF Stops!Passed
    <3> HIDE DEF m, c, intent
    <3>4. StopBook(c) /\ c.bar = b.bar /\ c.due = b.due /\ (c = m \/ (Levelled(c.position) /\ c.position.bar = b.bar))
      BY <1>1, <3>1, <3>3, EntryIsLevelled
    <3>5. QED BY <3>2, <3>4 DEF Ends
  <2>3. QED BY <2>1, <2>2
<1>3. o = [c EXCEPT !.bar = @ + 1]
  BY DEF Stops!OnBar
<1> HIDE DEF c, o
<1>4. Record(o, StopFields) /\ o.bar = c.bar + 1 /\ o.position = c.position /\ o.due = c.due
  BY <1>2, <1>3 DEF Ends, StopBook, Record, StopFields
<1>5. Ends(b, o, bar) /\ o.bar = b.bar + 1
  BY <1>2, <1>4 DEF Ends, StopBook, Stops!Holds
<1>6. QED BY <1>5 DEF o

-----------------------------------------------------------------------------
(* The stops, bar after bar *)

LevelHeld ==
  /\ plan \in StopPlans /\ LevelTerms
  /\ StopBook(book) /\ book.bar \in Nat /\ LevelIntent(book.due)
  /\ Stops!Holds(book) =>
       Levelled(book.position) /\ book.position.bar \in Nat /\ book.position.bar < book.bar

LEMMA TermsAreLevel ==
  ASSUME plan \in StopPlans
  PROVE  LevelTerms /\ \A x \in StopBars : LevelBar(x) /\ LevelIntent(Stops!Intent(x))
<1>1. LevelTerms
  BY StopAssumption, LevelAssumption DEF LevelTerms
<1>2. ASSUME NEW x \in StopBars PROVE LevelBar(x)
  BY StopAssumption, LevelAssumption DEF LevelBar, StopBar
<1>3. ASSUME NEW x \in StopBars PROVE LevelIntent(Stops!Intent(x))
  <2> DEFINE n == plan.terms.multiple
             i == Stops!Intent(x)
  <2>1. x.atr \in Int /\ x.at \in Int /\ n \in Nat /\ \A y \in StopBars : n * x.atr < y.low /\ y.low \in Nat \ {0}
    BY StopAssumption, LevelAssumption
  <2>2. /\ i.atr = x.atr \/ i.atr = 0
        /\ i.at = x.at \/ i.at = 0
    BY DEF Stops!Intent, Stops!NoPrice
  <2> HIDE DEF i
  <2>3. n * 0 = 0
    BY <2>1
  <2>4. \A y \in StopBars : n * i.atr < y.low
    <3>1. CASE i.atr = x.atr
      BY <2>1, <3>1
    <3>2. CASE i.atr = 0
      BY <2>1, <2>3, <3>2
    <3>3. QED BY <2>2, <3>1, <3>2
  <2>5. QED BY <2>1, <2>2, <2>4 DEF LevelIntent, Ranges, i
<1>4. QED BY <1>1, <1>2, <1>3

LEMMA LevelStarts ==
  ASSUME Stops!Init
  PROVE  LevelHeld
<1>1. plan \in StopPlans
  BY DEF Stops!Init
<1>2. LevelTerms /\ \A x \in StopBars : LevelBar(x)
  BY <1>1, TermsAreLevel
<1>3. StopBook(book) /\ book.bar = 0 /\ ~Stops!Holds(book) /\ book.due = Stops!NoIntent
  BY DEF Stops!Init, StopBook, Record, StopFields, Stops!Holds, Stops!None
<1>4. LevelIntent(Stops!NoIntent)
  <2>1. plan.terms.multiple * 0 = 0
    BY <1>2 DEF LevelTerms
  <2>2. QED BY <1>2, <2>1 DEF LevelIntent, Ranges, LevelBar, Stops!NoIntent, Stops!NoPrice
<1>5. QED BY <1>1, <1>2, <1>3, <1>4 DEF LevelHeld

LEMMA LevelStays ==
  ASSUME plan' = plan
  PROVE  /\ LevelTerms' = LevelTerms
         /\ \A p : Levelled(p)' = Levelled(p)
         /\ \A i : LevelIntent(i)' = LevelIntent(i)
         /\ \A b : StopBook(b)' = StopBook(b)
BY DEF LevelTerms, Levelled, LevelIntent, StopBook, Ranges, Trails, Behind, Beneath, Stops!Long, Stops!BelowBy,
       Stops!Multiplier, Stops!TargetAt, Stops!StopAt, Stops!Chandelier, Stops!Holds

LEMMA LevelStep ==
  ASSUME LevelHeld, NEW bar \in StopBars, Stops!Bar(bar)
  PROVE  LevelHeld'
<1> DEFINE b == book
           o == Stops!OnBar(b, bar)
<1>1. book' = o /\ plan' = plan
  BY DEF Stops!Bar
<1>2. LevelTerms /\ \A x \in StopBars : LevelBar(x) /\ LevelIntent(Stops!Intent(x))
  BY TermsAreLevel DEF LevelHeld
<1>3. StopBook(b) /\ LevelIntent(b.due) /\ b.bar \in Nat /\ plan \in StopPlans
  BY DEF LevelHeld
<1>4. Stops!Holds(b) => Levelled(b.position) /\ b.position.bar \in Nat /\ b.position.bar < b.bar
  BY DEF LevelHeld
<1> HIDE DEF b
<1>5. Ends(b, o, bar) /\ o.bar = b.bar + 1
  BY <1>2, <1>3, BarEnds
<1> HIDE DEF o
<1>6. StopBook(o) /\ LevelIntent(o.due) /\ o.bar \in Nat
  BY <1>3, <1>5 DEF Ends
<1>7. Stops!Holds(o) => Levelled(o.position) /\ o.position.bar \in Nat /\ o.position.bar < o.bar
  <2> SUFFICES ASSUME Stops!Holds(o)
               PROVE  Levelled(o.position) /\ o.position.bar \in Nat /\ o.position.bar < o.bar
    OBVIOUS
  <2>1. CASE Stops!Holds(b) /\ Survives(b.position, o.position, bar)
    <3> DEFINE p == b.position
               q == o.position
    <3>1. Levelled(p) /\ Survives(p, q, bar) /\ p.bar \in Nat /\ p.bar < b.bar /\ q.bar = p.bar
      BY <1>4, <2>1 DEF Survives
    <3> HIDE DEF p, q
    <3>2. Levelled(q)
      BY <1>2, <3>1, SurvivorIsLevelled
    <3>3. QED BY <1>3, <1>5, <3>1, <3>2 DEF q
  <2>2. CASE Levelled(o.position) /\ o.position.bar = b.bar
    BY <1>3, <1>5, <2>2
  <2>3. QED BY <1>5, <2>1, <2>2 DEF Ends
<1>8. /\ LevelTerms' /\ (plan \in StopPlans)'
      /\ \A p : Levelled(p)' = Levelled(p)
      /\ \A i : LevelIntent(i)' = LevelIntent(i)
      /\ \A d : StopBook(d)' = StopBook(d)
  BY <1>1, <1>2, <1>3, LevelStays
<1>9. QED BY <1>1, <1>6, <1>7, <1>8 DEF LevelHeld, Stops!Holds

\* What a bar does to a position it keeps.
LEMMA LevelKept ==
  ASSUME LevelHeld, NEW bar \in StopBars, Stops!Kept(Stops!OnBar(book, bar))
  PROVE  /\ Levelled(book.position) /\ LevelTerms /\ LevelBar(bar)
         /\ ~Stops!StopHit(book.position, bar) /\ ~Stops!TargetHit(book.position, bar)
         /\ Survives(book.position, Stops!OnBar(book, bar).position, bar)
<1> DEFINE b == book
           o == Stops!OnBar(b, bar)
<1>1. LevelTerms /\ \A x \in StopBars : LevelBar(x) /\ LevelIntent(Stops!Intent(x))
  BY TermsAreLevel DEF LevelHeld
<1>2. StopBook(b) /\ LevelIntent(b.due) /\ b.bar \in Nat
  BY DEF LevelHeld
<1>3. Ends(b, o, bar)
  <2> HIDE DEF b
  <2>1. QED BY <1>1, <1>2, BarEnds
<1>4. /\ Stops!Holds(b) /\ Stops!Holds(o) /\ o.position.bar = b.position.bar
      /\ Levelled(b.position) /\ b.position.bar \in Nat /\ b.position.bar < b.bar
  BY DEF LevelHeld, Stops!Kept
<1> HIDE DEF o
<1>5. o.position.bar # b.bar
  BY <1>2, <1>4
<1>6. /\ ~Stops!StopHit(b.position, bar) /\ ~Stops!TargetHit(b.position, bar)
      /\ Survives(b.position, o.position, bar)
  BY <1>3, <1>4, <1>5 DEF Ends
<1>7. QED BY <1>1, <1>4, <1>6 DEF o

LEMMA StopsWithin ==
  ASSUME LevelHeld
  PROVE  Stops!StopsOnlyTighten /\ Stops!LevelsAgree /\ Stops!ParabolicFollows
<1>1. Stops!StopsOnlyTighten
  <2> SUFFICES ASSUME NEW bar \in StopBars, Stops!Kept(Stops!OnBar(book, bar))
               PROVE  LET next == Stops!OnBar(book, bar) IN
                      /\ Stops!Tighter(book.position.stop, next.position.stop)
                      /\ \A k \in Stops!Ladder : Stops!Tighter(book.position.ladder[k], next.position.ladder[k])
                      /\ ~Stops!StopHit(book.position, bar) /\ ~Stops!TargetHit(book.position, bar)
    BY DEF Stops!StopsOnlyTighten, Stops!Tightens
  <2> DEFINE p == book.position
             q == Stops!OnBar(book, bar).position
  <2>1. /\ Levelled(p) /\ LevelTerms /\ LevelBar(bar) /\ Survives(p, q, bar)
        /\ ~Stops!StopHit(p, bar) /\ ~Stops!TargetHit(p, bar)
    BY LevelKept
  <2> HIDE DEF p, q
  <2>2. Tightest(p.stop, q.stop) = q.stop
    BY <2>1, TrailingSteps
  <2>3. \A k \in Stops!Ladder : Tightest(p.ladder[k], q.ladder[k]) = q.ladder[k]
    BY <2>1, LadderSteps
  <2>4. QED BY <2>1, <2>2, <2>3 DEF Tightest, Stops!Tighter, p, q
<1>2. Stops!LevelsAgree
  <2> SUFFICES ASSUME Stops!Holds(book)
               PROVE  LET p == book.position IN
                      /\ plan.stop \in Stops!Ladder /\ ~p.own => p.stop = p.ladder[plan.stop]
                      /\ ~p.own => p.target = Stops!FirstTarget(plan.target, plan.terms, p.entry,
                                     Stops!FirstStop(plan.stop, plan.terms, p.entry, plan.direction, p.first),
                                     plan.direction, p.first)
                      /\ p.steady => p.ladder["Chandelier"] = Stops!Chandelier(plan.terms, p.high, p.low, plan.direction, p.atr)
    BY DEF Stops!LevelsAgree
  <2> DEFINE p == book.position
  <2>1. Levelled(p) /\ LevelTerms
    BY DEF LevelHeld
  <2> HIDE DEF p
  <2>2. p.entry \in Int /\ p.first \in Int
    BY <2>1 DEF Levelled
  <2>3. p.target = Stops!FirstTarget(plan.target, plan.terms, p.entry,
                     Stops!FirstStop(plan.stop, plan.terms, p.entry, plan.direction, p.first),
                     plan.direction, p.first)
    <3> DEFINE stop == Stops!StopAt(p.entry, p.first)
    <3>1. stop \in Int /\ stop = Stops!FirstStop(plan.stop, plan.terms, p.entry, plan.direction, p.first)
      BY <2>1, <2>2, LevelsMatch
    <3>2. \A s \in Int : Stops!TargetAt(p.entry, s, p.first) =
                           Stops!FirstTarget(plan.target, plan.terms, p.entry, s, plan.direction, p.first)
      BY <2>1, <2>2, LevelsMatch
    <3>3. p.target = Stops!TargetAt(p.entry, stop, p.first)
      BY <2>1 DEF Levelled
    <3> HIDE DEF stop
    <3>4. QED BY <3>1, <3>2, <3>3
  <2>4. QED BY <2>1, <2>3 DEF Levelled, p
<1>3. Stops!ParabolicFollows
  <2> SUFFICES ASSUME NEW bar \in StopBars, Stops!Kept(Stops!OnBar(book, bar))
               PROVE  LET old == book.position.sar.level
                          new == Stops!OnBar(book, bar).position.sar.level
                      IN IF Stops!Long THEN new <= bar.low /\ new >= Stops!LesserOf(old, bar.low)
                         ELSE new >= bar.high /\ new <= Stops!GreaterOf(old, bar.high)
    BY DEF Stops!ParabolicFollows, Stops!Follows
  <2> DEFINE p == book.position
             q == Stops!OnBar(book, bar).position
  <2>1. Levelled(p) /\ LevelTerms /\ LevelBar(bar) /\ Survives(p, q, bar)
    BY LevelKept
  <2> HIDE DEF p, q
  <2>2. Behind(p.sar) /\ q.sar = Stops!SarNext(plan.terms, p.sar, bar, plan.direction)
    BY <2>1 DEF Levelled, Survives
  <2>3. IF Stops!Long THEN q.sar.level <= bar.low /\ q.sar.level >= Stops!LesserOf(p.sar.level, bar.low)
        ELSE q.sar.level >= bar.high /\ q.sar.level <= Stops!GreaterOf(p.sar.level, bar.high)
    BY <2>1, <2>2, SarSteps
  <2>4. QED BY <2>3 DEF p, q
<1>4. QED BY <1>1, <1>2, <1>3

-----------------------------------------------------------------------------
(* The limits together *)

Limited ==
  /\ In("spreads", SpreadLegal)
  /\ In("ticks", TickHeld)
  /\ In("pool", PoolLimited)
  /\ In("stops", LevelHeld)
  /\ In("desk", DeskHeld)

\* What nobody touches stays within its limits.
LEMMA LimitsRest ==
  ASSUME UNCHANGED <<plan, book>>
  PROVE  /\ SpreadLegal => SpreadLegal'
         /\ TickHeld => TickHeld'
         /\ PoolLimited => PoolLimited'
         /\ LevelHeld => LevelHeld'
         /\ DeskHeld => DeskHeld'
<1>1. SpreadLegal => SpreadLegal'
  BY BooksRest DEF SpreadLegal, HeldTo, Spreads!Holds, Credited, Made, Dead, Contracts, Dated, LegalAt,
                   Spreads!Squareoff, Spreads!Expired, Spreads!AllSettled
<1>2. TickHeld => TickHeld'
  BY DEF TickHeld, TickPlan, TickKept, Traded, Waited, Fair, Bracketed, Apart, TickSim!Holds, TickSim!Contracts
<1>3. PoolLimited => PoolLimited'
  BY PoolLimitedStays DEF PoolLimited
<1>4. LevelHeld => LevelHeld'
  BY LevelStays DEF LevelHeld, Stops!Holds
<1>5. DeskHeld => DeskHeld'
  BY DEF DeskHeld, DeskPlan, DeskKept, Sided, Switching, Pyramids, Fires
<1>6. QED BY <1>1, <1>2, <1>3, <1>4, <1>5

(* Whatever the plan, the bars and the ticks, what a simulator holds is     *)
(* within its limits: no leg outlives its expiry or settles twice, a trade  *)
(* waits for the cooldown and none is left open, the pool neither borrows   *)
(* nor opens a position too many, a stop never loosens and agrees with the  *)
(* calculators, and entries and exits alternate, on one side at a time.     *)
THEOREM LimitsHold == Spec => []HeldWithinLimits
<1>1. Init => Limited
  BY SpreadLegalStarts, TickStarts, PoolLimitedStarts, LevelStarts, DeskStarts DEF Init, Limited, In
<1>2. Limited /\ [Next]_vars => Limited'
  <2> SUFFICES ASSUME Limited, [Next]_vars PROVE Limited'
    OBVIOUS
  <2>1. CASE UNCHANGED vars
    BY <2>1, LimitsRest DEF vars, Limited, In
  <2>2. CASE Next
    <3>1. part' = part
      BY <2>2 DEF Next
    <3>2. CASE part = "spreads"
      <4>1. SpreadLegal /\ Spreads!Next
        BY <2>2, <3>2 DEF Next, Limited, In
      <4>2. SpreadLegal'
        BY <4>1, SpreadLegalStep
      <4>3. QED BY <3>1, <3>2, <4>2 DEF Limited, In
    <3>3. CASE part = "ticks"
      <4>1. TickHeld /\ TickSim!Next
        BY <2>2, <3>3 DEF Next, Limited, In
      <4>2. TickHeld'
        BY <4>1, TickStep
      <4>3. QED BY <3>1, <3>3, <4>2 DEF Limited, In
    <3>4. CASE part = "pool"
      <4>1. PoolLimited /\ Pool!Next
        BY <2>2, <3>4 DEF Next, Limited, In
      <4>2. PoolLimited'
        BY <4>1, PoolLimitedBar, PoolLimitedFinish DEF Pool!Next
      <4>3. QED BY <3>1, <3>4, <4>2 DEF Limited, In
    <3>5. CASE part = "stops"
      <4>1. LevelHeld /\ Stops!Next
        BY <2>2, <3>5 DEF Next, Limited, In
      <4>2. LevelHeld'
        BY <4>1, LevelStep DEF Stops!Next
      <4>3. QED BY <3>1, <3>5, <4>2 DEF Limited, In
    <3>6. CASE part = "desk"
      <4>1. DeskHeld /\ Desk!Next
        BY <2>2, <3>6 DEF Next, Limited, In
      <4>2. DeskHeld'
        BY <4>1, DeskStep
      <4>3. QED BY <3>1, <3>6, <4>2 DEF Limited, In
    <3>7. CASE part \notin {"spreads", "ticks", "pool", "stops", "desk"}
      BY <3>1, <3>7 DEF Limited, In
    <3>8. QED BY <3>2, <3>3, <3>4, <3>5, <3>6, <3>7
  <2>3. QED BY <2>1, <2>2
<1>3. Limited => HeldWithinLimits
  BY SpreadsWithin, TicksWithin, PoolWithin, StopsWithin, DeskWithin DEF Limited, HeldWithinLimits, In
<1>4. QED
  BY <1>1, <1>2, <1>3, PTL DEF Spec
=============================================================================
