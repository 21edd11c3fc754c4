---------------------------- MODULE SessionProofs ---------------------------
(***************************************************************************)
(* The session, for any instruments, prices and configurations: halts over *)
(* the whole portfolio first, then its money.                              *)
(*                                                                         *)
(* HaltInv follows the kernel that has called and is ahead of the others.  *)
(* LedgerInv follows the money through a step: the capital the stepping    *)
(* kernel was lent, what it has moved since, what the records booked, and  *)
(* how many positions its gate was told of.                                *)
(***************************************************************************)
EXTENDS Session, Sums

\* What the arguments need to know of a kernel: it has its fields, and its two
\* halts are truth values.
IsKernel(k) ==
  /\ DOMAIN k = {"cash", "positions", "locks", "nextId", "called", "riskHalted"}
  /\ k.called \in BOOLEAN /\ k.riskHalted \in BOOLEAN

\* A money operation leaves the halts alone.
SameHalts(new, old) ==
  /\ IsKernel(new)
  /\ new.called = old.called /\ new.riskHalted = old.riskHalted

\* Nothing was opened.
SameGate(new, old) == SameHalts(new, old) /\ new.nextId = old.nextId

\* The kernel that has called and whose call has not yet reached the others.
Ahead(i) == step.phase = "orders" /\ step.called /\ i = step.at

Shapes ==
  /\ DOMAIN account = {"balance", "locked", "halted"} /\ account.halted \in BOOLEAN
  /\ DOMAIN kernels = Instruments
  /\ \A i \in Instruments : IsKernel(kernels[i])
  /\ step.phase \in {"idle", "exits", "orders"}
  /\ Stepping =>
       /\ step.at \in Instruments /\ step.called \in BOOLEAN
       /\ DOMAIN step = {"phase", "at", "close", "injected", "locked", "external",
                         "called", "pnl"}
  /\ samples \in Nat /\ calls \in Nat

Agreed ==
  /\ \A i, j \in Instruments : kernels[i].riskHalted = kernels[j].riskHalted
  /\ \A i, j \in Instruments :
       ~Ahead(i) /\ ~Ahead(j) => kernels[i].called = kernels[j].called
  /\ \A i \in Instruments :
       IF Ahead(i) THEN kernels[i].called /\ calls = 0
       ELSE account.halted = (kernels[i].called \/ kernels[i].riskHalted)

Called ==
  /\ calls <= 1
  /\ calls > 0 => \A i \in Instruments : kernels[i].called
  /\ \A i \in Instruments : kernels[i].called /\ ~Ahead(i) => calls > 0
  /\ samples = 0 => ~account.halted

HaltInv == Shapes /\ Agreed /\ Called

-----------------------------------------------------------------------------
\* Opening and closing, adding and reducing touch neither halt (money operations
\* of the kernel).
LEMMA OpeningKeepsHalts ==
  ASSUME NEW k, IsKernel(k), NEW p, NEW lev
  PROVE  SameHalts(Opened(k, p, lev), k)
BY DEF IsKernel, SameHalts, Opened

\* Adding moves no halt and opens nothing.
LEMMA AddingKeepsGate ==
  ASSUME NEW k, IsKernel(k), NEW id, NEW price, NEW units, NEW fee, NEW lev
  PROVE  SameGate(Added(k, id, price, units, fee, lev), k)
BY DEF IsKernel, SameHalts, SameGate, Added

\* Nor does closing.
LEMMA ClosingKeepsGate ==
  ASSUME NEW k, IsKernel(k), NEW id, NEW price, NEW fee, NEW lev
  PROVE  SameGate(Closed(k, id, price, fee, lev), k)
BY DEF IsKernel, SameHalts, SameGate, Closed

\* Nor does reducing.
LEMMA ReducingKeepsGate ==
  ASSUME NEW k, IsKernel(k), NEW id, NEW units, NEW price, NEW fee, NEW lev
  PROVE  SameGate(Reduced(k, id, units, price, fee, lev), k)
BY DEF IsKernel, SameHalts, SameGate, Reduced

\* So do lending, draining and selling out.
LEMMA CashKeepsGate ==
  ASSUME NEW k, IsKernel(k), NEW cash
  PROVE  SameGate([k EXCEPT !.cash = cash], k)
BY DEF IsKernel, SameHalts, SameGate

\* Nor does emptying a kernel.
LEMMA EmptyingKeepsGate ==
  ASSUME NEW k, IsKernel(k)
  PROVE  SameGate(Emptied(k), k)
BY DEF IsKernel, SameHalts, SameGate, Emptied

\* Reconciling does not touch the account's halt.
LEMMA ReconcilingKeepsHalt ==
  ASSUME NEW a, DOMAIN a = {"balance", "locked", "halted"}, NEW cash, NEW locked
  PROVE  /\ DOMAIN Reconciled(a, cash, locked) = {"balance", "locked", "halted"}
         /\ Reconciled(a, cash, locked).halted = a.halted
BY DEF Reconciled

-----------------------------------------------------------------------------
\* A money operation of the stepping kernel preserves the invariant.
LEMMA MovingKeeps ==
  ASSUME HaltInv, Stepping, NEW k, NEW pnl, SameHalts(k, Current), Moved(k, pnl)
  PROVE  HaltInv'
<1>1. /\ kernels' = [kernels EXCEPT ![step.at] = k]
      /\ step' = [step EXCEPT !.pnl = @ + pnl]
      /\ UNCHANGED <<account, samples, calls>>
  BY DEF Moved
<1>2. /\ step'.phase = step.phase /\ step'.at = step.at /\ step'.called = step.called
      /\ step.at \in Instruments /\ step.called \in BOOLEAN
      /\ DOMAIN step' = DOMAIN step
  BY <1>1 DEF HaltInv, Shapes, Stepping
<1>3. \A i \in Instruments : SameHalts(kernels'[i], kernels[i])
  BY <1>1, <1>2 DEF HaltInv, Shapes, SameHalts, Current
<1>4. \A i \in Instruments : Ahead(i)' <=> Ahead(i)
  BY <1>2 DEF Ahead
<1>5. Shapes'
  BY <1>1, <1>2, <1>3 DEF HaltInv, Shapes, SameHalts, Stepping
<1>6. \A i \in Instruments : /\ kernels'[i].called = kernels[i].called
                             /\ kernels'[i].riskHalted = kernels[i].riskHalted
  BY <1>3 DEF SameHalts
<1>7. Agreed'
  <2>1. \A i, j \in Instruments : kernels'[i].riskHalted = kernels'[j].riskHalted
    BY <1>6 DEF HaltInv, Agreed
  <2>2. \A i, j \in Instruments :
          ~Ahead(i)' /\ ~Ahead(j)' => kernels'[i].called = kernels'[j].called
    BY <1>4, <1>6 DEF HaltInv, Agreed
  <2>3. \A i \in Instruments :
          IF Ahead(i)' THEN kernels'[i].called /\ calls' = 0
          ELSE account'.halted = (kernels'[i].called \/ kernels'[i].riskHalted)
    BY <1>1, <1>4, <1>6 DEF HaltInv, Agreed
  <2>4. QED BY <2>1, <2>2, <2>3 DEF Agreed
<1>8. Called'
  BY <1>1, <1>4, <1>6 DEF HaltInv, Called
<1>9. QED BY <1>5, <1>7, <1>8 DEF HaltInv

\* The margin check sets the stepping kernel's halt, and only that one's.
LEMMA MarginCheckKeeps == HaltInv /\ MarginCheck => HaltInv'
<1> SUFFICES ASSUME HaltInv, MarginCheck PROVE HaltInv'
  OBVIOUS
<1> DEFINE required == Maintenance(Current, step.close, Leverage)
           breach   == /\ OpenCount(Current) > 0 /\ ~Current.called /\ required > 0
                       /\ Current.cash + Unrealized(Current, step.close) < required
           sold     == [Emptied(Current) EXCEPT
                          !.cash = @ + Proceeds(Current, step.close, Fee, Leverage)]
           after    == IF breach /\ Liquidates THEN sold ELSE Current
<1>1. /\ step.phase = "exits" /\ step.at \in Instruments
      /\ IsKernel(Current) /\ Current = kernels[step.at]
  BY DEF HaltInv, Shapes, MarginCheck, Stepping, Current
<1>2. breach \in BOOLEAN
  OBVIOUS
<1>3. /\ kernels' = [kernels EXCEPT ![step.at] = [after EXCEPT !.called = after.called \/ breach]]
      /\ step' = [step EXCEPT
                    !.phase = "orders", !.called = breach,
                    !.pnl = @ + IF breach /\ Liquidates
                                THEN Profits(Current, step.close, Fee) ELSE 0]
      /\ UNCHANGED <<account, samples, calls>>
  BY DEF MarginCheck
<1> HIDE DEF breach
<1>4. SameGate(after, Current)
  <2>1. SameGate(Emptied(Current), Current)
    BY <1>1, EmptyingKeepsGate
  <2>2. SameGate(sold, Emptied(Current))
    <3> DEFINE c == Emptied(Current).cash + Proceeds(Current, step.close, Fee, Leverage)
    <3>1. sold = [Emptied(Current) EXCEPT !.cash = c]
      OBVIOUS
    <3> HIDE DEF c
    <3>2. QED BY <2>1, <3>1, CashKeepsGate DEF SameGate, SameHalts
  <2>3. SameGate(Current, Current)
    BY <1>1 DEF SameGate, SameHalts
  <2>4. QED BY <2>1, <2>2, <2>3 DEF SameGate, SameHalts
<1> HIDE DEF after
<1>5. /\ kernels'[step.at] = [after EXCEPT !.called = after.called \/ breach]
      /\ \A i \in Instruments : i # step.at => kernels'[i] = kernels[i]
      /\ DOMAIN kernels' = Instruments
  BY <1>1, <1>3 DEF HaltInv, Shapes
<1>6. /\ IsKernel(kernels'[step.at])
      /\ kernels'[step.at].called = (kernels[step.at].called \/ breach)
      /\ kernels'[step.at].riskHalted = kernels[step.at].riskHalted
  BY <1>1, <1>2, <1>4, <1>5 DEF SameGate, SameHalts, IsKernel
<1>7. /\ step'.phase = "orders" /\ step'.at = step.at /\ step'.called = breach
      /\ DOMAIN step' = DOMAIN step
  BY <1>1, <1>3 DEF HaltInv, Shapes, Stepping
<1>8. \A i \in Instruments : ~Ahead(i)
  BY <1>1 DEF Ahead
<1>9. breach => ~kernels[step.at].called
  BY <1>1 DEF breach
<1>10. breach => calls = 0
  BY <1>1, <1>9 DEF HaltInv, Shapes, Called
<1>11. Shapes'
  <2>1. \A i \in Instruments : IsKernel(kernels'[i])
    BY <1>5, <1>6 DEF HaltInv, Shapes
  <2>2. Stepping' =>
          /\ step'.at \in Instruments /\ step'.called \in BOOLEAN
          /\ DOMAIN step' = {"phase", "at", "close", "injected", "locked", "external",
                             "called", "pnl"}
    BY <1>1, <1>2, <1>7 DEF HaltInv, Shapes, Stepping
  <2>3. account' = account /\ samples' = samples /\ calls' = calls
    BY <1>3
  <2>4. step'.phase \in {"idle", "exits", "orders"}
    BY <1>7
  <2>5. QED BY <1>5, <2>1, <2>2, <2>3, <2>4 DEF HaltInv, Shapes
<1>12. Agreed'
  <2>0. \A i \in Instruments : kernels'[i].riskHalted = kernels[i].riskHalted
    <3> SUFFICES ASSUME NEW i \in Instruments
                 PROVE  kernels'[i].riskHalted = kernels[i].riskHalted
      OBVIOUS
    <3>1. CASE i = step.at
      BY <3>1, <1>6
    <3>2. CASE i # step.at
      BY <3>2, <1>5
    <3>3. QED BY <3>1, <3>2
  <2>1. \A i, j \in Instruments : kernels'[i].riskHalted = kernels'[j].riskHalted
    BY <2>0 DEF HaltInv, Agreed
  <2>2. \A i \in Instruments : Ahead(i)' <=> (breach /\ i = step.at)
    BY <1>7 DEF Ahead
  <2>3. \A i \in Instruments : ~Ahead(i)' => kernels'[i].called = kernels[i].called
    BY <1>2, <1>5, <1>6, <2>2 DEF HaltInv, Shapes, IsKernel
  <2>4. \A i, j \in Instruments :
          ~Ahead(i)' /\ ~Ahead(j)' => kernels'[i].called = kernels'[j].called
    BY <1>8, <2>3 DEF HaltInv, Agreed
  <2>5. \A i \in Instruments :
          IF Ahead(i)' THEN kernels'[i].called /\ calls' = 0
          ELSE account'.halted = (kernels'[i].called \/ kernels'[i].riskHalted)
    <3> SUFFICES ASSUME NEW i \in Instruments
                 PROVE  IF Ahead(i)' THEN kernels'[i].called /\ calls' = 0
                        ELSE account'.halted = (kernels'[i].called \/ kernels'[i].riskHalted)
      OBVIOUS
    <3>1. CASE Ahead(i)'
      BY <3>1, <1>3, <1>6, <1>10, <2>2
    <3>2. CASE ~Ahead(i)'
      BY <3>2, <1>3, <1>8, <2>0, <2>3 DEF HaltInv, Agreed
    <3>3. QED BY <3>1, <3>2
  <2>6. QED BY <2>1, <2>4, <2>5 DEF Agreed
<1>13. Called'
  <2>1. calls > 0 => \A i \in Instruments : kernels'[i].called
    BY <1>2, <1>5, <1>6 DEF HaltInv, Called
  <2>2. \A i \in Instruments : kernels'[i].called /\ ~Ahead(i)' => calls' > 0
    <3> SUFFICES ASSUME NEW i \in Instruments, kernels'[i].called, ~Ahead(i)'
                 PROVE  calls' > 0
      OBVIOUS
    <3>1. kernels[i].called
      BY <1>2, <1>5, <1>6, <1>7 DEF Ahead
    <3>2. QED BY <1>3, <1>8, <3>1 DEF HaltInv, Called
  <2>3. QED BY <1>3, <2>1, <2>2 DEF HaltInv, Called
<1>14. QED BY <1>11, <1>12, <1>13 DEF HaltInv

\* Lending a kernel its cash.
LEMMA BeginStepKeeps ==
  ASSUME HaltInv, NEW i \in Instruments, NEW close, BeginStep(i, close)
  PROVE  HaltInv'
<1> DEFINE c == Lent(i)
<1>1. /\ kernels' = [kernels EXCEPT ![i] = [kernels[i] EXCEPT !.cash = c]]
      /\ UNCHANGED <<account, samples, calls>>
      /\ step'.phase = "exits" /\ step'.at = i /\ step'.called = FALSE
      /\ DOMAIN step' = {"phase", "at", "close", "injected", "locked", "external",
                         "called", "pnl"}
      /\ step.phase = "idle"
  BY DEF BeginStep, Between
<1> HIDE DEF c
<1>2. \A j \in Instruments : SameGate(kernels'[j], kernels[j])
  <2>1. SameGate([kernels[i] EXCEPT !.cash = c], kernels[i])
    BY CashKeepsGate DEF HaltInv, Shapes
  <2>2. QED BY <1>1, <2>1 DEF HaltInv, Shapes, SameGate, SameHalts
<1>3. /\ \A j \in Instruments : ~Ahead(j) /\ ~Ahead(j)'
      /\ DOMAIN kernels' = Instruments
  BY <1>1 DEF Ahead, HaltInv, Shapes
<1>4. \A j \in Instruments : /\ kernels'[j].called = kernels[j].called
                             /\ kernels'[j].riskHalted = kernels[j].riskHalted
                             /\ IsKernel(kernels'[j])
  BY <1>2 DEF SameGate, SameHalts
<1>5. Shapes'
  BY <1>1, <1>3, <1>4 DEF HaltInv, Shapes, Stepping
<1>6. Agreed'
  BY <1>1, <1>3, <1>4 DEF HaltInv, Agreed
<1>7. Called'
  BY <1>1, <1>3, <1>4 DEF HaltInv, Called
<1>8. QED BY <1>5, <1>6, <1>7 DEF HaltInv

\* Adopting opens a position and halts nobody.
LEMMA AdoptKeeps ==
  ASSUME HaltInv, NEW i \in Instruments, NEW price, NEW units, Adopt(i, price, units)
  PROVE  HaltInv'
<1> DEFINE lent == [kernels[i] EXCEPT !.cash = Lent(i)]
           held == [long |-> TRUE, units |-> units, cost |-> price * units, fees |-> 0]
           k    == Opened(lent, held, Leverage)
           back == [k EXCEPT !.cash = 0]
<1>1. /\ kernels' = [kernels EXCEPT ![i] = back]
      /\ account' = Drained(account, k, lent.cash, TotalLocked(lent))
      /\ UNCHANGED <<step, samples, calls>>
      /\ step.phase = "idle"
  BY DEF Adopt, Between
<1>2. SameHalts(back, kernels[i])
  <2>1. IsKernel(kernels[i])
    BY DEF HaltInv, Shapes
  <2>2. SameGate(lent, kernels[i])
    <3> DEFINE c == Lent(i)
    <3>1. lent = [kernels[i] EXCEPT !.cash = c]
      OBVIOUS
    <3> HIDE DEF c, lent
    <3>2. QED BY <2>1, <3>1, CashKeepsGate
  <2> HIDE DEF lent, held
  <2>3. SameHalts(k, lent)
    BY <2>2, OpeningKeepsHalts DEF SameGate, SameHalts
  <2> HIDE DEF k
  <2>4. SameGate(back, k)
    BY <2>3, CashKeepsGate DEF SameHalts
  <2>5. QED BY <2>2, <2>3, <2>4 DEF SameGate, SameHalts
<1> HIDE DEF k, lent, held, back
<1>3. /\ DOMAIN account' = {"balance", "locked", "halted"}
      /\ account'.halted = account.halted
  BY <1>1, ReconcilingKeepsHalt DEF Drained, HaltInv, Shapes
<1>4. \A j \in Instruments : SameHalts(kernels'[j], kernels[j])
  BY <1>1, <1>2 DEF HaltInv, Shapes, SameHalts
<1>5. /\ \A j \in Instruments : ~Ahead(j) /\ ~Ahead(j)'
      /\ DOMAIN kernels' = Instruments
  BY <1>1 DEF Ahead, HaltInv, Shapes
<1>6. \A j \in Instruments : /\ kernels'[j].called = kernels[j].called
                             /\ kernels'[j].riskHalted = kernels[j].riskHalted
                             /\ IsKernel(kernels'[j])
  BY <1>4 DEF SameHalts
<1>7. Shapes'
  BY <1>1, <1>3, <1>5, <1>6 DEF HaltInv, Shapes, Stepping
<1>8. Agreed'
  BY <1>1, <1>3, <1>5, <1>6 DEF HaltInv, Agreed
<1>9. Called'
  BY <1>1, <1>3, <1>5, <1>6 DEF HaltInv, Called
<1>10. QED BY <1>7, <1>8, <1>9 DEF HaltInv

\* So does the finish.
LEMMA FinishKeeps == HaltInv /\ Finish => HaltInv'
<1> SUFFICES ASSUME HaltInv, Finish PROVE HaltInv'
  OBVIOUS
<1>1. /\ account' = Settled(account, kernels, lastClose, 0)
      /\ kernels' = SoldOut(kernels, lastClose)
      /\ UNCHANGED <<step, samples, calls>>
      /\ step.phase = "idle"
  BY DEF Finish, Between
<1>2. /\ DOMAIN account' = {"balance", "locked", "halted"}
      /\ account'.halted = account.halted
  BY <1>1, ReconcilingKeepsHalt DEF Settled, HaltInv, Shapes
<1>3. \A j \in Instruments : SameHalts(kernels'[j], kernels[j])
  BY <1>1, EmptyingKeepsGate DEF SoldOut, HaltInv, Shapes, SameHalts, SameGate
<1>4. /\ \A j \in Instruments : ~Ahead(j) /\ ~Ahead(j)'
      /\ DOMAIN kernels' = Instruments
  BY <1>1 DEF Ahead, SoldOut
<1>5. \A j \in Instruments : /\ kernels'[j].called = kernels[j].called
                             /\ kernels'[j].riskHalted = kernels[j].riskHalted
                             /\ IsKernel(kernels'[j])
  BY <1>3 DEF SameHalts
<1>6. Shapes'
  BY <1>1, <1>2, <1>4, <1>5 DEF HaltInv, Shapes, Stepping
<1>7. Agreed'
  BY <1>1, <1>2, <1>4, <1>5 DEF HaltInv, Agreed
<1>8. Called'
  BY <1>1, <1>2, <1>4, <1>5 DEF HaltInv, Called
<1>9. QED BY <1>6, <1>7, <1>8 DEF HaltInv

-----------------------------------------------------------------------------
\* A call on every kernel, and a selling-out, keep each a kernel.
LEMMA HaltAllHalts ==
  ASSUME NEW ks, DOMAIN ks = Instruments, \A i \in Instruments : IsKernel(ks[i])
  PROVE  /\ DOMAIN HaltAll(ks) = Instruments
         /\ \A i \in Instruments : /\ IsKernel(HaltAll(ks)[i]) /\ HaltAll(ks)[i].called
                                   /\ HaltAll(ks)[i].riskHalted = ks[i].riskHalted
BY DEF HaltAll, IsKernel

\* Selling out keeps both halts of every kernel.
LEMMA SoldOutKeepsHalts ==
  ASSUME NEW ks, NEW closes, \A i \in Instruments : IsKernel(ks[i])
  PROVE  /\ DOMAIN SoldOut(ks, closes) = Instruments
         /\ \A i \in Instruments : SameHalts(SoldOut(ks, closes)[i], ks[i])
BY EmptyingKeepsGate DEF SoldOut, SameHalts, SameGate

\* The equity is told to every kernel, and may trip the drawdown halt.
LEMMA ObserveTrips ==
  ASSUME NEW ks, NEW sample, NEW top, \A i \in Instruments : IsKernel(ks[i])
  PROVE  /\ DOMAIN Observe(ks, sample, top) = Instruments
         /\ Trips(sample, top) \in BOOLEAN
         /\ \A i \in Instruments :
              /\ IsKernel(Observe(ks, sample, top)[i])
              /\ Observe(ks, sample, top)[i].called = ks[i].called
              /\ Observe(ks, sample, top)[i].riskHalted
                   = (ks[i].riskHalted \/ Trips(sample, top))
BY DEF Observe, IsKernel, Trips

\* The end of an event tells every kernel of a call and of the equity, and the
\* account of both.
LEMMA EndStepKeeps ==
  HaltInv /\ EndStep
    => /\ HaltInv' /\ samples' = samples + 1
       /\ \A i \in Instruments : kernels[i].riskHalted => kernels'[i].riskHalted
<1> SUFFICES ASSUME HaltInv, EndStep
             PROVE  /\ HaltInv' /\ samples' = samples + 1
                    /\ \A i \in Instruments : kernels[i].riskHalted => kernels'[i].riskHalted
  OBVIOUS
<1> DEFINE drained == Drained(account, Current, step.injected, step.locked)
           idle    == [kernels EXCEPT ![step.at].cash = 0]
           ks      == IF step.called THEN HaltAll(idle) ELSE idle
           halted  == account.halted \/ step.called
           closes  == [lastClose EXCEPT ![step.at] = step.close]
           sample  == Equity(drained, ks, closes)
           top     == IF sample > peak THEN sample ELSE peak
           breach  == Breaches(halted, ks, closes, sample)
           sells   == breach /\ Liquidates
           called  == IF breach THEN HaltAll(ks) ELSE ks
           sold    == IF sells THEN SoldOut(called, closes) ELSE called
           final   == Observe(sold, sample, top)
           tripped == /\ \A i \in Instruments : ~sold[i].riskHalted
                      /\ \E i \in Instruments : final[i].riskHalted
           purse   == IF sells THEN Settled(drained, called, closes, Fee) ELSE drained
<1>1. /\ account' = [purse EXCEPT !.halted = halted \/ breach \/ tripped]
      /\ kernels' = final
      /\ calls' = calls + (IF step.called THEN 1 ELSE 0) + (IF breach THEN 1 ELSE 0)
      /\ samples' = samples + 1
      /\ step'.phase = "idle"
  BY DEF EndStep, Idle
<1>2. /\ step.phase = "orders" /\ step.at \in Instruments /\ step.called \in BOOLEAN
  BY DEF EndStep, HaltInv, Shapes, Stepping
<1>3. breach \in BOOLEAN /\ (breach => ~halted)
  BY DEF Breaches
<1>4. DOMAIN purse = {"balance", "locked", "halted"}
  <2>1. DOMAIN drained = {"balance", "locked", "halted"}
    BY ReconcilingKeepsHalt DEF Drained, HaltInv, Shapes
  <2> HIDE DEF drained
  <2>2. QED BY <2>1, ReconcilingKeepsHalt DEF Settled
<1>5. /\ DOMAIN idle = Instruments
      /\ \A i \in Instruments : SameHalts(idle[i], kernels[i])
  BY <1>2 DEF HaltInv, Shapes, SameHalts, IsKernel
<1> HIDE DEF idle, purse
<1>6. /\ DOMAIN ks = Instruments
      /\ \A i \in Instruments :
           /\ IsKernel(ks[i])
           /\ ks[i].called = (kernels[i].called \/ step.called)
           /\ ks[i].riskHalted = kernels[i].riskHalted
  <2>1. CASE step.called
    BY <2>1, <1>5, HaltAllHalts DEF SameHalts, HaltInv, Shapes, IsKernel
  <2>2. CASE ~step.called
    BY <2>2, <1>5 DEF SameHalts, HaltInv, Shapes, IsKernel
  <2>3. QED BY <1>2, <2>1, <2>2
<1> HIDE DEF ks, breach, drained, closes
<1>7. /\ DOMAIN called = Instruments
      /\ \A i \in Instruments :
           /\ IsKernel(called[i])
           /\ called[i].called = (kernels[i].called \/ step.called \/ breach)
           /\ called[i].riskHalted = kernels[i].riskHalted
  <2>1. CASE breach
    BY <2>1, <1>6, HaltAllHalts DEF IsKernel
  <2>2. CASE ~breach
    BY <2>2, <1>2, <1>6 DEF HaltInv, Shapes, IsKernel
  <2>3. QED BY <1>3, <2>1, <2>2
<1> HIDE DEF called
<1>8. \A i \in Instruments :
        /\ IsKernel(sold[i])
        /\ sold[i].called = (kernels[i].called \/ step.called \/ breach)
        /\ sold[i].riskHalted = kernels[i].riskHalted
  BY <1>7, SoldOutKeepsHalts DEF SameHalts
<1> HIDE DEF sold, top, sample
<1>9. /\ DOMAIN final = Instruments
      /\ Trips(sample, top) \in BOOLEAN
      /\ \A i \in Instruments :
           /\ IsKernel(final[i])
           /\ final[i].called = (kernels[i].called \/ step.called \/ breach)
           /\ final[i].riskHalted = (kernels[i].riskHalted \/ Trips(sample, top))
  BY <1>8, ObserveTrips
<1> HIDE DEF final
<1>10. /\ account'.halted = (halted \/ breach \/ tripped)
       /\ DOMAIN account' = {"balance", "locked", "halted"}
  BY <1>1, <1>4
<1>11. \A i \in Instruments : ~Ahead(i)'
  BY <1>1 DEF Ahead
<1>12. Shapes'
  <2>1. account'.halted \in BOOLEAN
    BY <1>2, <1>3, <1>10 DEF HaltInv, Shapes
  <2>2. calls' \in Nat /\ samples' \in Nat
    BY <1>1 DEF HaltInv, Shapes
  <2>3. QED BY <1>1, <1>9, <1>10, <2>1, <2>2 DEF Shapes, Stepping
<1>13. \A i \in Instruments :
         account'.halted = (kernels'[i].called \/ kernels'[i].riskHalted)
  <2> SUFFICES ASSUME NEW i \in Instruments
               PROVE  account'.halted = (kernels'[i].called \/ kernels'[i].riskHalted)
    OBVIOUS
  <2>1. \A j \in Instruments : kernels[j].riskHalted = kernels[i].riskHalted
    BY DEF HaltInv, Agreed
  <2>2. tripped = (~kernels[i].riskHalted /\ Trips(sample, top))
    BY <1>8, <1>9, <2>1 DEF HaltInv, Shapes, IsKernel
  <2>3. ~step.called => account.halted = (kernels[i].called \/ kernels[i].riskHalted)
    BY <1>2 DEF HaltInv, Agreed, Ahead
  <2>4. kernels[i].riskHalted => halted
    <3>1. CASE ~step.called
      BY <3>1, <2>3
    <3>2. CASE step.called
      BY <3>2
    <3>3. QED BY <1>2, <3>1, <3>2
  <2>5. /\ kernels'[i].called = (kernels[i].called \/ step.called \/ breach)
        /\ kernels'[i].riskHalted = (kernels[i].riskHalted \/ Trips(sample, top))
    BY <1>1, <1>9
  <2>6. CASE step.called
    BY <2>5, <2>6, <1>10
  <2>7. CASE ~step.called
    BY <2>2, <2>3, <2>5, <2>7, <1>10
  <2>8. QED BY <1>2, <2>6, <2>7
<1>14. Agreed'
  <2>1. \A i, j \in Instruments : kernels'[i].riskHalted = kernels'[j].riskHalted
    BY <1>1, <1>9 DEF HaltInv, Agreed
  <2>2. \A i, j \in Instruments : kernels'[i].called = kernels'[j].called
    <3> SUFFICES ASSUME NEW i \in Instruments, NEW j \in Instruments
                 PROVE  kernels'[i].called = kernels'[j].called
      OBVIOUS
    <3>1. CASE step.called
      BY <3>1, <1>1, <1>9
    <3>2. CASE ~step.called
      BY <3>2, <1>1, <1>9 DEF HaltInv, Agreed, Ahead
    <3>3. QED BY <1>2, <3>1, <3>2
  <2>3. QED BY <1>11, <1>13, <2>1, <2>2 DEF Agreed
<1>15. Called'
  <2>1. step.called => calls = 0
    BY <1>2 DEF HaltInv, Agreed, Ahead
  <2>2. breach => calls = 0 /\ ~step.called
    BY <1>2, <1>3 DEF HaltInv, Shapes, Agreed, Called, Ahead
  <2>3. calls' <= 1
    BY <1>1, <1>2, <1>3, <2>1, <2>2 DEF HaltInv, Shapes, Called
  <2>4. calls' > 0 => \A i \in Instruments : kernels'[i].called
    <3> SUFFICES ASSUME calls' > 0, NEW i \in Instruments PROVE kernels'[i].called
      OBVIOUS
    <3>1. step.called \/ breach \/ calls > 0
      BY <1>1, <1>2, <1>3 DEF HaltInv, Shapes
    <3>2. QED BY <1>1, <1>9, <3>1 DEF HaltInv, Called
  <2>5. \A i \in Instruments : kernels'[i].called => calls' > 0
    <3> SUFFICES ASSUME NEW i \in Instruments, kernels'[i].called PROVE calls' > 0
      OBVIOUS
    <3>1. calls \in Nat /\ (kernels[i].called \/ step.called \/ breach)
      BY <1>1, <1>9 DEF HaltInv, Shapes
    <3>2. CASE step.called \/ breach
      BY <1>1, <1>2, <1>3, <3>1, <3>2
    <3>3. CASE ~step.called /\ ~breach
      BY <1>1, <3>1, <3>3 DEF HaltInv, Called, Ahead
    <3>4. QED BY <1>2, <1>3, <3>2, <3>3
  <2>6. samples' # 0
    BY <1>1 DEF HaltInv, Shapes
  <2>7. QED BY <2>3, <2>4, <2>5, <2>6 DEF Called
<1>16. QED BY <1>1, <1>9, <1>12, <1>14, <1>15 DEF HaltInv

\* Both ways to enter are one opening, in a step.
LEMMA EntriesOpen ==
  ASSUME NEW long, NEW price, NEW units,
         OpenOrdered(long, price, units) \/ OpenSized(long, price, units)
  PROVE  Stepping /\ Open(long, price, units)
BY DEF OpenOrdered, OpenSized, Stepping

-----------------------------------------------------------------------------
\* Every move of a kernel keeps the invariant.
LEMMA KernelStepKeeps == HaltInv /\ KernelStep => HaltInv'
<1> SUFFICES ASSUME HaltInv, KernelStep PROVE HaltInv'
  OBVIOUS
<1>1. Stepping => IsKernel(Current)
  BY DEF HaltInv, Shapes, Current
<1>2. ASSUME Stepping, NEW long, NEW price, NEW units, Open(long, price, units) PROVE HaltInv'
  <2> DEFINE p == [long |-> long, units |-> units, cost |-> price * units,
                   fees |-> Fee * units]
  <2>1. Stepping /\ Moved(Opened(Current, p, Leverage), 0)
    BY <1>2 DEF Open
  <2> HIDE DEF p
  <2>2. QED BY <1>1, <2>1, OpeningKeepsHalts, MovingKeeps
<1>3. ASSUME NEW id, NEW price, Add(id, price) PROVE HaltInv'
  <2>1. Stepping /\ Moved(Added(Current, id, price, 1, Fee, Leverage), 0)
    BY <1>3 DEF Add, Stepping
  <2>2. QED BY <1>1, <2>1, AddingKeepsGate, MovingKeeps DEF SameGate
<1>4. ASSUME NEW id, NEW price, Close(id, price) PROVE HaltInv'
  <2> DEFINE pnl == Pnl(Current.positions[id], price, Fee * Current.positions[id].units)
  <2>1. Stepping /\ Moved(Closed(Current, id, price, Fee, Leverage), pnl)
    BY <1>4 DEF Close
  <2> HIDE DEF pnl
  <2>2. QED BY <1>1, <2>1, ClosingKeepsGate, MovingKeeps DEF SameGate
<1>5. ASSUME NEW id, NEW price, Reduce(id, price) PROVE HaltInv'
  <2> DEFINE pnl == Pnl(Slice(Current.positions[id], 1), price, Fee)
  <2>1. Stepping /\ Moved(Reduced(Current, id, 1, price, Fee, Leverage), pnl)
    BY <1>5 DEF Reduce, Stepping
  <2> HIDE DEF pnl
  <2>2. QED BY <1>1, <2>1, ReducingKeepsGate, MovingKeeps DEF SameGate
<1>6. MarginCheck => HaltInv'
  BY MarginCheckKeeps
<1>7. QED BY <1>2, <1>3, <1>4, <1>5, <1>6, EntriesOpen DEF KernelStep

\* Every step keeps the halts in agreement.
LEMMA HaltStep == HaltInv /\ [Next]_vars => HaltInv'
<1> SUFFICES ASSUME HaltInv, [Next]_vars PROVE HaltInv'
  OBVIOUS
<1>1. CASE UNCHANGED vars
  <2>1. UNCHANGED <<account, kernels, step, samples, calls>>
    BY <1>1 DEF vars
  <2>2. QED BY <2>1 DEF HaltInv, Shapes, Agreed, Called, Stepping, Ahead, IsKernel
<1>2. ASSUME NEW i \in Instruments, NEW price \in Prices, NEW units \in OpenUnits,
             Adopt(i, price, units)
      PROVE  HaltInv'
  BY <1>2, AdoptKeeps
<1>3. ASSUME NEW i \in Instruments, NEW price \in Prices, BeginStep(i, price)
      PROVE  HaltInv'
  BY <1>3, BeginStepKeeps
<1>4. CASE KernelStep
  BY <1>4, KernelStepKeeps
<1>5. CASE EndStep
  BY <1>5, EndStepKeeps
<1>6. CASE Finish
  BY <1>6, FinishKeeps
<1>7. QED BY <1>1, <1>2, <1>3, <1>4, <1>5, <1>6 DEF Next

\* They agree at the start.
LEMMA HaltStart == Init => HaltInv
<1> SUFFICES ASSUME Init PROVE HaltInv
  OBVIOUS
<1>1. IsKernel(NewKernel) /\ ~NewKernel.called /\ ~NewKernel.riskHalted
  BY DEF NewKernel, IsKernel
<1>2. /\ DOMAIN kernels = Instruments
      /\ \A i \in Instruments : kernels[i] = NewKernel
      /\ step.phase = "idle"
      /\ samples = 0 /\ calls = 0
  BY DEF Init, Idle
<1>3. DOMAIN account = {"balance", "locked", "halted"} /\ account.halted = FALSE
  BY DEF Init
<1>4. Shapes
  BY <1>1, <1>2, <1>3 DEF Shapes, Stepping
<1>5. Agreed
  BY <1>1, <1>2, <1>3 DEF Agreed, Ahead
<1>6. Called
  BY <1>1, <1>2, <1>3 DEF Called
<1>7. QED BY <1>4, <1>5, <1>6 DEF HaltInv

\* The strengthened invariant of the session's halts: they agree at every point,
\* except that the kernel which has just called is ahead of the rest.
THEOREM HaltsAgree == Spec => []HaltInv
BY HaltStart, HaltStep, PTL DEF Spec

\* Between events the kernels agree on both halts, and the account is halted
\* exactly when they are (halt_all, observe_equity).
THEOREM HaltsAreShared == Spec => []HaltIsShared
<1>1. HaltInv => HaltIsShared
  BY DEF HaltInv, Agreed, HaltIsShared, Ahead
<1>2. QED BY <1>1, HaltsAgree, PTL

\* A margin call is reported once in a session's life (the halted guards of
\* step_inner and apply_current).
THEOREM OneMarginCall == Spec => []CallFiresOnce
<1>1. HaltInv => CallFiresOnce
  BY DEF HaltInv, Called, CallFiresOnce
<1>2. QED BY <1>1, HaltsAgree, PTL

\* No instrument opens a position once the account is halted (open_at's gates,
\* adopt_position's refusal after the first sample).
LEMMA HaltedOpensNothing ==
  HaltInv /\ [Next]_vars /\ account.halted
    => \A i \in Instruments : kernels'[i].nextId = kernels[i].nextId
<1> SUFFICES ASSUME HaltInv, [Next]_vars, account.halted, NEW i \in Instruments
             PROVE  kernels'[i].nextId = kernels[i].nextId
  OBVIOUS
<1>1. /\ DOMAIN kernels = Instruments /\ \A j \in Instruments : IsKernel(kernels[j])
      /\ Stepping => step.at \in Instruments /\ IsKernel(Current)
  BY DEF HaltInv, Shapes, Current
<1>2. ASSUME Stepping, NEW k, NEW pnl, SameGate(k, Current), Moved(k, pnl)
      PROVE  kernels'[i].nextId = kernels[i].nextId
  BY <1>1, <1>2 DEF Moved, SameGate, Current
<1>3. ASSUME Stepping, NEW long, NEW price, NEW units, Open(long, price, units) PROVE FALSE
  <2>1. Stepping /\ ~Current.called /\ ~Current.riskHalted
    BY <1>3 DEF Open, MayOpen
  <2>2. account.halted = (Current.called \/ Current.riskHalted)
    BY <1>1, <2>1 DEF HaltInv, Agreed, Current
  <2>3. QED BY <2>1, <2>2
<1>4. ASSUME NEW id, NEW price, Add(id, price)
      PROVE  kernels'[i].nextId = kernels[i].nextId
  <2>1. Stepping /\ Moved(Added(Current, id, price, 1, Fee, Leverage), 0)
    BY <1>4 DEF Add, Stepping
  <2>2. QED BY <1>1, <1>2, <2>1, AddingKeepsGate
<1>5. ASSUME NEW id, NEW price, Close(id, price)
      PROVE  kernels'[i].nextId = kernels[i].nextId
  <2> DEFINE pnl == Pnl(Current.positions[id], price, Fee * Current.positions[id].units)
  <2>1. Stepping /\ Moved(Closed(Current, id, price, Fee, Leverage), pnl)
    BY <1>5 DEF Close
  <2> HIDE DEF pnl
  <2>2. QED BY <1>1, <1>2, <2>1, ClosingKeepsGate
<1>6. ASSUME NEW id, NEW price, Reduce(id, price)
      PROVE  kernels'[i].nextId = kernels[i].nextId
  <2> DEFINE pnl == Pnl(Slice(Current.positions[id], 1), price, Fee)
  <2>1. Stepping /\ Moved(Reduced(Current, id, 1, price, Fee, Leverage), pnl)
    BY <1>6 DEF Reduce, Stepping
  <2> HIDE DEF pnl
  <2>2. QED BY <1>1, <1>2, <2>1, ReducingKeepsGate
<1>7. CASE MarginCheck
  BY <1>1, <1>7 DEF MarginCheck, Stepping, Current, Emptied, IsKernel
<1>8. ASSUME NEW j \in Instruments, NEW price, BeginStep(j, price)
      PROVE  kernels'[i].nextId = kernels[i].nextId
  BY <1>1, <1>8 DEF BeginStep, IsKernel
<1>9. ASSUME NEW j, NEW price, NEW units, Adopt(j, price, units) PROVE FALSE
  BY <1>9 DEF Adopt, HaltInv, Called
<1>10. CASE EndStep
  BY <1>1, <1>10 DEF EndStep, Stepping, Observe, SoldOut, HaltAll, Emptied, IsKernel
<1>11. CASE Finish
  BY <1>1, <1>11 DEF Finish, SoldOut, Emptied, IsKernel
<1>12. CASE UNCHANGED vars
  BY <1>12 DEF vars
<1>13. QED
  BY <1>3, <1>4, <1>5, <1>6, <1>7, <1>8, <1>9, <1>10, <1>11, <1>12, EntriesOpen
  DEF Next, KernelStep

\* A halt that any instrument met stops the openings of all of them, for as long
\* as the session lives (halt_all, check_entry, adopt_position).
THEOREM HaltsStopEveryone == Spec => HaltStopsEveryInstrument
BY HaltedOpensNothing, HaltsAgree, PTL DEF Spec, HaltStopsEveryInstrument

-----------------------------------------------------------------------------
(* One kernel's money                                                      *)

Position == [long: BOOLEAN, units: Nat \ {0}, cost: Nat, fees: Nat]

\* A kernel's ledger and margin book: finitely many positions, older than the next
\* one, each with its lock on margin and without in a cash account.
Sound(k, lev) ==
  /\ IsKernel(k) /\ k.cash \in Int /\ k.nextId \in Nat
  /\ IsFiniteSet(DOMAIN k.positions)
  /\ k.positions \in [DOMAIN k.positions -> Position]
  /\ \A id \in DOMAIN k.positions : id \in Nat /\ id < k.nextId
  /\ DOMAIN k.locks = IF lev = 0 THEN {} ELSE DOMAIN k.positions
  /\ k.locks \in [DOMAIN k.locks -> Nat]

Longs(k) == \A id \in DOMAIN k.positions : k.positions[id].long

\* TakenOut, at a given leverage.
Out(k, lev) == EntryFees(k) + IF lev = 0 THEN Cost(k) ELSE 0

\* The totals of a kernel are numbers.
LEMMA TotalsAreNumbers ==
  ASSUME NEW lev \in Nat, NEW k, Sound(k, lev)
  PROVE  /\ TotalLocked(k) \in Nat /\ EntryFees(k) \in Nat /\ Cost(k) \in Nat
         /\ UnitsAt(k) \in Nat /\ OpenCount(k) \in Nat /\ Out(k, lev) \in Nat
         /\ (lev = 0 => TotalLocked(k) = 0)
<1> DEFINE D == DOMAIN k.positions
<1>1. IsFiniteSet(D) /\ IsFiniteSet(DOMAIN k.locks)
  BY FS_EmptySet DEF Sound
<1>2. /\ [id \in D |-> k.positions[id].fees] \in [D -> Nat]
      /\ [id \in D |-> k.positions[id].cost] \in [D -> Nat]
      /\ [id \in D |-> k.positions[id].units] \in [D -> Nat]
  BY DEF Sound, Position
<1>3. EntryFees(k) \in Nat /\ Cost(k) \in Nat /\ UnitsAt(k) \in Nat
  BY <1>1, <1>2, SumIsNat DEF EntryFees, Cost, UnitsAt
<1>4. TotalLocked(k) \in Nat
  BY <1>1, SumIsNat DEF Sound, TotalLocked
<1>5. OpenCount(k) \in Nat
  BY <1>1, FS_CardinalityType DEF OpenCount
<1>6. lev = 0 => TotalLocked(k) = 0
  BY SumOfNone DEF Sound, TotalLocked
<1>7. QED BY <1>3, <1>4, <1>5, <1>6 DEF Out

\* Initial margin is a number.
LEMMA InitialIsNat ==
  ASSUME NEW v \in Nat, NEW lev \in Nat, lev # 0
  PROVE  Initial(v, lev) \in Nat
BY DEF Initial

\* Opening takes its fees out of the cash, in a cash account its cost too, and on
\* margin locks its initial share.
LEMMA OpeningPays ==
  ASSUME NEW lev \in Nat, NEW k, Sound(k, lev), NEW p \in Position,
         NEW n, n = Opened(k, p, lev)
  PROVE  /\ Sound(n, lev)
         /\ n.cash + Out(n, lev) = k.cash + Out(k, lev)
         /\ Free(n) = Free(k) - p.fees - Funding(p.cost, lev)
         /\ OpenCount(n) = OpenCount(k) + 1
         /\ (Longs(k) /\ p.long => Longs(n))
         /\ n.called = k.called /\ n.riskHalted = k.riskHalted
<1> DEFINE D == DOMAIN k.positions
           E == DOMAIN n.positions
           id == k.nextId
<1>1. /\ n.positions = With(k.positions, id, p)
      /\ n.nextId = id + 1
      /\ n.cash = k.cash - p.fees - (IF lev = 0 THEN p.cost ELSE 0)
      /\ n.locks = IF lev = 0 THEN k.locks ELSE With(k.locks, id, Initial(p.cost, lev))
      /\ IsKernel(n) /\ n.called = k.called /\ n.riskHalted = k.riskHalted
  BY DEF Opened, Sound, IsKernel
<1>2. id \in Nat /\ id \notin D /\ E = D \cup {id}
  BY <1>1 DEF Sound, With
<1>3. /\ IsFiniteSet(D) /\ IsFiniteSet(E) /\ OpenCount(n) = OpenCount(k) + 1
  BY <1>2, FS_AddElement DEF Sound, OpenCount
<1>4. /\ n.positions \in [E -> Position] /\ n.positions[id] = p
      /\ \A q \in D : n.positions[q] = k.positions[q]
  BY <1>1, <1>2 DEF Sound, With
<1>5. /\ p.fees \in Nat /\ p.cost \in Nat /\ p.units \in Nat /\ k.cash \in Int
      /\ (lev # 0 => Initial(p.cost, lev) \in Nat)
  BY InitialIsNat DEF Position, Sound
<1>6. DOMAIN n.locks = (IF lev = 0 THEN {} ELSE E) /\ n.locks \in [DOMAIN n.locks -> Nat]
  <2>1. CASE lev = 0
    BY <1>1, <2>1 DEF Sound
  <2>2. CASE lev # 0
    BY <1>1, <1>2, <1>5, <2>2 DEF Sound, With
  <2>3. QED BY <2>1, <2>2
<1>7. Sound(n, lev)
  BY <1>1, <1>2, <1>3, <1>4, <1>5, <1>6 DEF Sound
<1>8. EntryFees(n) = EntryFees(k) + p.fees
  <2>1. PICK f : f = [q \in D |-> k.positions[q].fees]
    OBVIOUS
  <2>2. PICK h : h = [q \in E |-> n.positions[q].fees]
    OBVIOUS
  <2>3. f \in [D -> Int] /\ h \in [E -> Int] /\ h[id] = p.fees /\ \A q \in D : h[q] = f[q]
    BY <1>2, <1>4, <2>1, <2>2 DEF Sound, Position
  <2> HIDE DEF D, E, id
  <2>4. SumFunction(h) = SumFunction(f) + h[id]
    BY ONLY <1>2, <1>3, <2>3, SumExtends
  <2>5. QED BY <2>1, <2>2, <2>3, <2>4 DEF EntryFees, D, E
<1>9. Cost(n) = Cost(k) + p.cost
  <2>1. PICK f : f = [q \in D |-> k.positions[q].cost]
    OBVIOUS
  <2>2. PICK h : h = [q \in E |-> n.positions[q].cost]
    OBVIOUS
  <2>3. f \in [D -> Int] /\ h \in [E -> Int] /\ h[id] = p.cost /\ \A q \in D : h[q] = f[q]
    BY <1>2, <1>4, <2>1, <2>2 DEF Sound, Position
  <2> HIDE DEF D, E, id
  <2>4. SumFunction(h) = SumFunction(f) + h[id]
    BY ONLY <1>2, <1>3, <2>3, SumExtends
  <2>5. QED BY <2>1, <2>2, <2>3, <2>4 DEF Cost, D, E
<1>10. TotalLocked(n) = TotalLocked(k) + (IF lev = 0 THEN 0 ELSE Initial(p.cost, lev))
  <2>1. CASE lev = 0
    BY <1>7, <2>1, TotalsAreNumbers
  <2>2. CASE lev # 0
    <3>1. PICK f : f = k.locks
      OBVIOUS
    <3>2. PICK h : h = n.locks
      OBVIOUS
    <3>3. f \in [D -> Int] /\ h \in [E -> Int] /\ h[id] = Initial(p.cost, lev)
          /\ \A q \in D : h[q] = f[q]
      BY <1>1, <1>2, <1>5, <1>6, <2>2, <3>1, <3>2 DEF Sound, With
    <3> HIDE DEF D, E, id
    <3>4. SumFunction(h) = SumFunction(f) + h[id]
      BY ONLY <1>2, <1>3, <3>3, SumExtends
    <3>5. QED BY <2>2, <3>1, <3>2, <3>3, <3>4 DEF TotalLocked
  <2>3. QED BY <2>1, <2>2
<1>11. /\ EntryFees(k) \in Nat /\ Cost(k) \in Nat /\ TotalLocked(k) \in Nat
  BY TotalsAreNumbers
<1>12. n.cash + Out(n, lev) = k.cash + Out(k, lev)
  <2>1. CASE lev = 0
    BY <1>1, <1>5, <1>8, <1>9, <1>11, <2>1 DEF Out
  <2>2. CASE lev # 0
    BY <1>1, <1>5, <1>8, <1>9, <1>11, <2>2 DEF Out
  <2>3. QED BY <2>1, <2>2
<1>13. Free(n) = Free(k) - p.fees - Funding(p.cost, lev)
  <2>1. CASE lev = 0
    BY <1>1, <1>5, <1>10, <1>11, <2>1 DEF Free, Funding
  <2>2. CASE lev # 0
    BY <1>1, <1>5, <1>10, <1>11, <2>2 DEF Free, Funding
  <2>3. QED BY <2>1, <2>2
<1>14. Longs(k) /\ p.long => Longs(n)
  BY <1>2, <1>4 DEF Longs
<1>15. QED BY <1>1, <1>3, <1>7, <1>12, <1>13, <1>14

\* One position of a kernel changes in place: its totals move by as much.
LEMMA ChangingMoves ==
  ASSUME NEW lev \in Nat, NEW k, Sound(k, lev), NEW n, Sound(n, lev),
         NEW id \in DOMAIN k.positions, DOMAIN n.positions = DOMAIN k.positions,
         \A q \in DOMAIN k.positions \ {id} : n.positions[q] = k.positions[q],
         \A q \in DOMAIN k.locks \ {id} : n.locks[q] = k.locks[q]
  PROVE  /\ EntryFees(n) = EntryFees(k) + (n.positions[id].fees - k.positions[id].fees)
         /\ Cost(n) = Cost(k) + (n.positions[id].cost - k.positions[id].cost)
         /\ UnitsAt(n) = UnitsAt(k) + (n.positions[id].units - k.positions[id].units)
         /\ (lev # 0 => TotalLocked(n) = TotalLocked(k) + (n.locks[id] - k.locks[id]))
         /\ OpenCount(n) = OpenCount(k)
<1> DEFINE D == DOMAIN k.positions
<1>1. /\ IsFiniteSet(D) /\ id \in D
      /\ \A q \in D : n.positions[q] \in Position /\ k.positions[q] \in Position
  BY DEF Sound
<1>2. EntryFees(n) = EntryFees(k) + (n.positions[id].fees - k.positions[id].fees)
  <2>1. PICK f : f = [q \in D |-> k.positions[q].fees]
    OBVIOUS
  <2>2. PICK h : h = [q \in D |-> n.positions[q].fees]
    OBVIOUS
  <2>3. f \in [D -> Int] /\ h \in [D -> Int] /\ \A q \in D \ {id} : h[q] = f[q]
    BY <1>1, <2>1, <2>2 DEF Position
  <2> HIDE DEF D
  <2>4. SumFunction(h) = SumFunction(f) + (h[id] - f[id])
    BY <1>1, <2>3, SumChanges
  <2>5. QED BY <1>1, <2>1, <2>2, <2>4 DEF EntryFees, D
<1>3. Cost(n) = Cost(k) + (n.positions[id].cost - k.positions[id].cost)
  <2>1. PICK f : f = [q \in D |-> k.positions[q].cost]
    OBVIOUS
  <2>2. PICK h : h = [q \in D |-> n.positions[q].cost]
    OBVIOUS
  <2>3. f \in [D -> Int] /\ h \in [D -> Int] /\ \A q \in D \ {id} : h[q] = f[q]
    BY <1>1, <2>1, <2>2 DEF Position
  <2> HIDE DEF D
  <2>4. SumFunction(h) = SumFunction(f) + (h[id] - f[id])
    BY <1>1, <2>3, SumChanges
  <2>5. QED BY <1>1, <2>1, <2>2, <2>4 DEF Cost, D
<1>4. UnitsAt(n) = UnitsAt(k) + (n.positions[id].units - k.positions[id].units)
  <2>1. PICK f : f = [q \in D |-> k.positions[q].units]
    OBVIOUS
  <2>2. PICK h : h = [q \in D |-> n.positions[q].units]
    OBVIOUS
  <2>3. f \in [D -> Int] /\ h \in [D -> Int] /\ \A q \in D \ {id} : h[q] = f[q]
    BY <1>1, <2>1, <2>2 DEF Position
  <2> HIDE DEF D
  <2>4. SumFunction(h) = SumFunction(f) + (h[id] - f[id])
    BY <1>1, <2>3, SumChanges
  <2>5. QED BY <1>1, <2>1, <2>2, <2>4 DEF UnitsAt, D
<1>5. lev # 0 => TotalLocked(n) = TotalLocked(k) + (n.locks[id] - k.locks[id])
  <2> SUFFICES ASSUME lev # 0
               PROVE  TotalLocked(n) = TotalLocked(k) + (n.locks[id] - k.locks[id])
    OBVIOUS
  <2>1. PICK f : f = k.locks
    OBVIOUS
  <2>2. PICK h : h = n.locks
    OBVIOUS
  <2>3. f \in [D -> Int] /\ h \in [D -> Int] /\ \A q \in D \ {id} : h[q] = f[q]
    BY <2>1, <2>2 DEF Sound
  <2> HIDE DEF D
  <2>4. SumFunction(h) = SumFunction(f) + (h[id] - f[id])
    BY <1>1, <2>3, SumChanges
  <2>5. QED BY <2>1, <2>2, <2>4 DEF TotalLocked
<1>6. OpenCount(n) = OpenCount(k)
  BY DEF OpenCount
<1>7. QED BY <1>2, <1>3, <1>4, <1>5, <1>6

\* A slice of an order that joins a position is paid for like an opening.
LEMMA AddingPays ==
  ASSUME NEW lev \in Nat, NEW k, Sound(k, lev), NEW id \in DOMAIN k.positions,
         NEW price \in Nat, NEW fee \in Nat, NEW n, n = Added(k, id, price, 1, fee, lev)
  PROVE  /\ Sound(n, lev)
         /\ n.cash + Out(n, lev) = k.cash + Out(k, lev)
         /\ Free(n) = Free(k) - fee - Funding(price, lev)
         /\ OpenCount(n) = OpenCount(k)
         /\ (Longs(k) => Longs(n))
         /\ n.called = k.called /\ n.riskHalted = k.riskHalted
<1> DEFINE D == DOMAIN k.positions
           p == k.positions[id]
           r == n.positions[id]
<1>1. p \in Position /\ k.cash \in Int
  BY DEF Sound
<1>2. /\ n.nextId = k.nextId
      /\ n.cash = k.cash - fee - (IF lev = 0 THEN price ELSE 0)
      /\ DOMAIN n.positions = D
      /\ \A q \in D \ {id} : n.positions[q] = k.positions[q]
      /\ r = [p EXCEPT !.units = @ + 1, !.cost = @ + price, !.fees = @ + fee]
      /\ IsKernel(n) /\ n.called = k.called /\ n.riskHalted = k.riskHalted
  <2>1. price * 1 = price /\ fee * 1 = fee
    OBVIOUS
  <2>2. n.nextId = k.nextId /\ n.called = k.called /\ n.riskHalted = k.riskHalted /\ IsKernel(n)
    BY DEF Added, Sound, IsKernel
  <2>3. n.cash = k.cash - fee - (IF lev = 0 THEN price ELSE 0)
    BY <2>1 DEF Added, Sound, IsKernel
  <2>4. n.positions = [k.positions EXCEPT ![id] = [p EXCEPT !.units = @ + 1,
                         !.cost = @ + price, !.fees = @ + fee]]
    BY <2>1 DEF Added, Sound, IsKernel, Position
  <2>5. QED BY <2>2, <2>3, <2>4
<1>3. r = [long |-> p.long, units |-> p.units + 1, cost |-> p.cost + price, fees |-> p.fees + fee]
  BY <1>1, <1>2 DEF Position
<1>4. r \in Position
  BY <1>1, <1>3 DEF Position
<1>5. n.locks = IF lev = 0 THEN k.locks
                ELSE [k.locks EXCEPT ![id] = k.locks[id] + Initial(price, lev)]
  BY DEF Added, Sound, IsKernel
<1>6. lev # 0 => Initial(price, lev) \in Nat
  BY InitialIsNat
<1>7. /\ DOMAIN n.locks = DOMAIN k.locks
      /\ n.locks \in [DOMAIN n.locks -> Nat]
      /\ \A q \in DOMAIN k.locks \ {id} : n.locks[q] = k.locks[q]
      /\ (lev # 0 => n.locks[id] - k.locks[id] = Initial(price, lev))
  <2>1. CASE lev = 0
    BY <1>5, <2>1 DEF Sound
  <2>2. CASE lev # 0
    BY <1>5, <1>6, <2>2 DEF Sound
  <2>3. QED BY <2>1, <2>2
<1>8. Sound(n, lev)
  <2>1. n.positions \in [D -> Position]
    <3>1. n.positions = [q \in D |-> n.positions[q]]
      BY DEF Added, Sound, IsKernel
    <3>2. \A q \in D : n.positions[q] \in Position
      BY <1>2, <1>4 DEF Sound
    <3>3. QED BY <3>1, <3>2
  <2>2. n.cash \in Int
    BY <1>1, <1>2
  <2> HIDE DEF r, p
  <2>3. QED BY <1>2, <1>7, <2>1, <2>2 DEF Sound
<1>9. /\ EntryFees(n) = EntryFees(k) + (r.fees - p.fees)
      /\ Cost(n) = Cost(k) + (r.cost - p.cost)
      /\ (lev # 0 => TotalLocked(n) = TotalLocked(k) + (n.locks[id] - k.locks[id]))
      /\ OpenCount(n) = OpenCount(k)
  BY <1>2, <1>7, <1>8, ChangingMoves
<1>10. r.fees - p.fees = fee /\ r.cost - p.cost = price
  BY <1>1, <1>3 DEF Position
<1>11. /\ EntryFees(k) \in Nat /\ Cost(k) \in Nat /\ TotalLocked(k) \in Nat
       /\ (lev = 0 => TotalLocked(k) = 0 /\ TotalLocked(n) = 0)
  BY <1>8, TotalsAreNumbers
<1> HIDE DEF r, p
<1>12. n.cash + Out(n, lev) = k.cash + Out(k, lev)
  <2>1. CASE lev = 0
    BY <1>1, <1>2, <1>9, <1>10, <1>11, <2>1 DEF Out
  <2>2. CASE lev # 0
    BY <1>1, <1>2, <1>9, <1>10, <1>11, <2>2 DEF Out
  <2>3. QED BY <2>1, <2>2
<1>13. Free(n) = Free(k) - fee - Funding(price, lev)
  <2>1. CASE lev = 0
    BY <1>1, <1>2, <1>11, <2>1 DEF Free, Funding
  <2>2. CASE lev # 0
    BY <1>1, <1>2, <1>6, <1>7, <1>9, <1>11, <2>2 DEF Free, Funding
  <2>3. QED BY <2>1, <2>2
<1>14. Longs(k) => Longs(n)
  BY <1>1, <1>2, <1>3 DEF Longs, p, r
<1>15. QED BY <1>2, <1>8, <1>9, <1>12, <1>13, <1>14

\* What closing a holding credits is the profit its record books, and what the
\* holding had taken out.
LEMMA CreditReturns ==
  ASSUME NEW lev \in Nat, NEW p \in Position, NEW price \in Nat, NEW exit \in Nat
  PROVE  /\ Credit(p, price, exit, lev) \in Int /\ Pnl(p, price, exit) \in Int
         /\ (lev = 0 => p.long) =>
              Credit(p, price, exit, lev)
                = Pnl(p, price, exit) + p.fees + (IF lev = 0 THEN p.cost ELSE 0)
<1>1. p.fees \in Int /\ p.cost \in Int /\ price * p.units \in Int
  BY DEF Position
<1>2. Gross(p, price) \in Int /\ (p.long => Gross(p, price) = price * p.units - p.cost)
  BY <1>1 DEF Gross
<1>3. QED BY <1>1, <1>2 DEF Credit, Pnl

\* Closing gives back what the position had taken out, with its profit, and its lock.
LEMMA ClosingReturns ==
  ASSUME NEW lev \in Nat, NEW k, Sound(k, lev), NEW id \in DOMAIN k.positions,
         NEW price \in Nat, NEW fee \in Nat, NEW n, n = Closed(k, id, price, fee, lev),
         NEW pnl, pnl = Pnl(k.positions[id], price, fee * k.positions[id].units)
  PROVE  /\ Sound(n, lev) /\ pnl \in Int
         /\ ((lev = 0 => Longs(k)) => n.cash + Out(n, lev) = k.cash + Out(k, lev) + pnl)
         /\ OpenCount(n) <= OpenCount(k) /\ UnitsAt(n) <= UnitsAt(k)
         /\ (Longs(k) => Longs(n))
         /\ n.called = k.called /\ n.riskHalted = k.riskHalted
<1> DEFINE D == DOMAIN k.positions
           E == D \ {id}
           p == k.positions[id]
           exit == fee * p.units
<1>1. p \in Position /\ k.cash \in Int /\ exit \in Nat /\ p.fees \in Nat /\ p.cost \in Nat
      /\ p.units \in Nat
  BY DEF Sound, Position
<1>2. /\ n.nextId = k.nextId
      /\ n.cash = k.cash + Credit(p, price, exit, lev)
      /\ n.positions = [q \in E |-> k.positions[q]]
      /\ n.locks = [q \in DOMAIN k.locks \ {id} |-> k.locks[q]]
      /\ IsKernel(n) /\ n.called = k.called /\ n.riskHalted = k.riskHalted
  BY DEF Closed, Sound, IsKernel, Without
<1>3. /\ Credit(p, price, exit, lev) \in Int /\ Pnl(p, price, exit) \in Int
      /\ (lev = 0 => p.long) =>
           Credit(p, price, exit, lev) = Pnl(p, price, exit) + p.fees + (IF lev = 0 THEN p.cost ELSE 0)
  <2> HIDE DEF p, exit
  <2> QED BY <1>1, CreditReturns
<1>4. id \in D /\ IsFiniteSet(D) /\ IsFiniteSet(E) /\ OpenCount(n) = OpenCount(k) - 1
  BY <1>2, FS_RemoveElement DEF Sound, OpenCount
<1>5. Sound(n, lev)
  <2>1. DOMAIN n.positions = E /\ n.positions \in [E -> Position] /\ n.cash \in Int
    BY <1>1, <1>2, <1>3 DEF Sound
  <2>2. \A q \in E : q \in Nat /\ q < n.nextId
    BY <1>2 DEF Sound
  <2>3. DOMAIN n.locks = IF lev = 0 THEN {} ELSE E
    <3>1. CASE lev = 0 BY <1>2, <3>1 DEF Sound
    <3>2. CASE lev # 0 BY <1>2, <3>2 DEF Sound
    <3>3. QED BY <3>1, <3>2
  <2>4. n.locks \in [DOMAIN n.locks -> Nat]
    BY <1>2 DEF Sound
  <2> HIDE DEF E
  <2>5. QED BY <1>2, <1>4, <2>1, <2>2, <2>3, <2>4 DEF Sound
<1>6. EntryFees(k) = p.fees + EntryFees(n)
  <2>1. PICK f : f = [q \in D |-> k.positions[q].fees]
    OBVIOUS
  <2>2. f \in [D -> Int]
    BY <2>1 DEF Sound, Position
  <2>3. [q \in D \ {id} |-> f[q]] = [q \in E |-> n.positions[q].fees]
    BY <1>2, <2>1
  <2>4. SumFunction(f) = f[id] + SumFunction([q \in D \ {id} |-> f[q]])
    <3> HIDE DEF D, E, p, exit
    <3>1. id \in D /\ IsFiniteSet(D)
      BY <1>4
    <3>2. QED BY ONLY <2>2, <3>1, SumSplits, SMTT(30)
  <2>5. f[id] = p.fees
    BY <2>1
  <2>6. QED BY <1>2, <2>1, <2>3, <2>4, <2>5 DEF EntryFees
<1>7. Cost(k) = p.cost + Cost(n)
  <2>1. PICK f : f = [q \in D |-> k.positions[q].cost]
    OBVIOUS
  <2>2. f \in [D -> Int]
    BY <2>1 DEF Sound, Position
  <2>3. [q \in D \ {id} |-> f[q]] = [q \in E |-> n.positions[q].cost]
    BY <1>2, <2>1
  <2>4. SumFunction(f) = f[id] + SumFunction([q \in D \ {id} |-> f[q]])
    <3> HIDE DEF D, E, p, exit
    <3>1. id \in D /\ IsFiniteSet(D)
      BY <1>4
    <3>2. QED BY ONLY <2>2, <3>1, SumSplits, SMTT(30)
  <2>5. f[id] = p.cost
    BY <2>1
  <2>6. QED BY <1>2, <2>1, <2>3, <2>4, <2>5 DEF Cost
<1>8. UnitsAt(k) = p.units + UnitsAt(n)
  <2>1. PICK f : f = [q \in D |-> k.positions[q].units]
    OBVIOUS
  <2>2. f \in [D -> Int]
    BY <2>1 DEF Sound, Position
  <2>3. [q \in D \ {id} |-> f[q]] = [q \in E |-> n.positions[q].units]
    BY <1>2, <2>1
  <2>4. SumFunction(f) = f[id] + SumFunction([q \in D \ {id} |-> f[q]])
    <3> HIDE DEF D, E, p, exit
    <3>1. id \in D /\ IsFiniteSet(D)
      BY <1>4
    <3>2. QED BY ONLY <2>2, <3>1, SumSplits, SMTT(30)
  <2>5. f[id] = p.units
    BY <2>1
  <2>6. QED BY <1>2, <2>1, <2>3, <2>4, <2>5 DEF UnitsAt
<1>9. /\ EntryFees(n) \in Nat /\ Cost(n) \in Nat /\ UnitsAt(n) \in Nat /\ OpenCount(k) \in Nat
  BY <1>5, TotalsAreNumbers
<1>10. pnl = Pnl(p, price, exit) /\ pnl \in Int
  BY <1>3
<1>11. (lev = 0 => Longs(k)) => n.cash + Out(n, lev) = k.cash + Out(k, lev) + pnl
  <2> SUFFICES ASSUME lev = 0 => Longs(k)
               PROVE  n.cash + Out(n, lev) = k.cash + Out(k, lev) + pnl
    OBVIOUS
  <2>1. Credit(p, price, exit, lev) = pnl + p.fees + (IF lev = 0 THEN p.cost ELSE 0)
    BY <1>3, <1>10 DEF Longs
  <2> HIDE DEF p, exit
  <2>2. CASE lev = 0
    BY <1>1, <1>2, <1>3, <1>6, <1>7, <1>9, <1>10, <2>1, <2>2 DEF Out
  <2>3. CASE lev # 0
    BY <1>1, <1>2, <1>3, <1>6, <1>7, <1>9, <1>10, <2>1, <2>3 DEF Out
  <2>4. QED BY <2>2, <2>3
<1>12. OpenCount(n) <= OpenCount(k) /\ UnitsAt(n) <= UnitsAt(k)
  BY <1>1, <1>4, <1>8, <1>9
<1>13. Longs(k) => Longs(n)
  BY <1>2 DEF Longs
<1>14. QED BY <1>2, <1>5, <1>10, <1>11, <1>12, <1>13

\* A share of a number is no more than all of it.
LEMMA ShareIsLess ==
  ASSUME NEW c \in Nat, NEW u \in Nat \ {0}
  PROVE  (c * 1) \div u \in Nat /\ (c * 1) \div u <= c
OBVIOUS

\* Reducing returns the slice's share.
LEMMA ReducingReturns ==
  ASSUME NEW lev \in Nat, NEW k, Sound(k, lev), NEW id \in DOMAIN k.positions,
         k.positions[id].units > 1,
         NEW price \in Nat, NEW fee \in Nat, NEW n, n = Reduced(k, id, 1, price, fee, lev),
         NEW pnl, pnl = Pnl(Slice(k.positions[id], 1), price, fee)
  PROVE  /\ Sound(n, lev) /\ pnl \in Int
         /\ ((lev = 0 => Longs(k)) => n.cash + Out(n, lev) = k.cash + Out(k, lev) + pnl)
         /\ OpenCount(n) <= OpenCount(k) /\ UnitsAt(n) <= UnitsAt(k)
         /\ (Longs(k) => Longs(n))
         /\ n.called = k.called /\ n.riskHalted = k.riskHalted
<1> DEFINE D == DOMAIN k.positions
           p == k.positions[id]
           s == Slice(p, 1)
           r == n.positions[id]
<1>1. /\ p \in Position /\ k.cash \in Int /\ p.fees \in Nat /\ p.cost \in Nat
      /\ p.units \in Nat /\ p.units > 1 /\ p.long \in BOOLEAN
  BY DEF Sound, Position
<1>2. /\ s.long = p.long /\ s.units = 1
      /\ s.cost \in Nat /\ s.cost <= p.cost /\ s.fees \in Nat /\ s.fees <= p.fees
      /\ s \in Position
  <2>1. /\ (p.cost * 1) \div p.units \in Nat /\ (p.cost * 1) \div p.units <= p.cost
        /\ (p.fees * 1) \div p.units \in Nat /\ (p.fees * 1) \div p.units <= p.fees
    BY <1>1, ShareIsLess
  <2> HIDE DEF p
  <2>2. QED BY <1>1, <2>1 DEF Slice, Position
<1> HIDE DEF s
<1>3. /\ n.nextId = k.nextId
      /\ n.cash = k.cash + Credit(s, price, fee, lev)
      /\ DOMAIN n.positions = D
      /\ \A q \in D \ {id} : n.positions[q] = k.positions[q]
      /\ n.positions = [q \in D |-> n.positions[q]]
      /\ r = Rest(p, s)
      /\ IsKernel(n) /\ n.called = k.called /\ n.riskHalted = k.riskHalted
  <2>1. fee * 1 = fee
    OBVIOUS
  <2>2. n.nextId = k.nextId /\ n.called = k.called /\ n.riskHalted = k.riskHalted /\ IsKernel(n)
    BY DEF Reduced, Sound, IsKernel
  <2>3. n.cash = k.cash + Credit(s, price, fee, lev)
    BY <2>1 DEF Reduced, Sound, IsKernel, s
  <2>4. n.positions = [k.positions EXCEPT ![id] = Rest(@, s)]
    BY DEF Reduced, Sound, IsKernel, s
  <2>5. QED BY <2>2, <2>3, <2>4
<1>4. r = [long |-> p.long, units |-> p.units - 1, cost |-> p.cost - s.cost, fees |-> p.fees - s.fees]
  BY <1>1, <1>2, <1>3 DEF Position, Rest
<1>5. r \in Position
  BY <1>1, <1>2, <1>4 DEF Position
<1>6. /\ DOMAIN n.locks = DOMAIN k.locks
      /\ n.locks \in [DOMAIN n.locks -> Nat]
      /\ \A q \in DOMAIN k.locks \ {id} : n.locks[q] = k.locks[q]
  <2>1. n.locks = IF lev = 0 THEN k.locks
                  ELSE [k.locks EXCEPT ![id] = k.locks[id] - (k.locks[id] * 1) \div p.units]
    BY DEF Reduced, Sound, IsKernel
  <2>2. CASE lev = 0
    BY <2>1, <2>2 DEF Sound
  <2>3. CASE lev # 0
    <3>1. k.locks[id] \in Nat
      BY <2>3 DEF Sound
    <3>2. (k.locks[id] * 1) \div p.units \in Nat /\ (k.locks[id] * 1) \div p.units <= k.locks[id]
      BY <1>1, <3>1, ShareIsLess
    <3>3. k.locks[id] - (k.locks[id] * 1) \div p.units \in Nat
      BY <3>1, <3>2
    <3>4. QED BY <2>1, <2>3, <3>3 DEF Sound
  <2>4. QED BY <2>2, <2>3
<1>7. /\ Credit(s, price, fee, lev) \in Int /\ Pnl(s, price, fee) \in Int
      /\ (lev = 0 => s.long) =>
           Credit(s, price, fee, lev) = Pnl(s, price, fee) + s.fees + (IF lev = 0 THEN s.cost ELSE 0)
  BY <1>2, CreditReturns
<1>8. Sound(n, lev)
  <2>1. n.positions \in [D -> Position]
    <3>1. \A q \in D : n.positions[q] \in Position
      BY <1>3, <1>5 DEF Sound
    <3>2. QED BY <1>3, <3>1
  <2>2. n.cash \in Int
    BY <1>1, <1>3, <1>7
  <2> HIDE DEF r, p
  <2>3. QED BY <1>3, <1>6, <2>1, <2>2 DEF Sound
<1>9. /\ EntryFees(n) = EntryFees(k) + (r.fees - p.fees)
      /\ Cost(n) = Cost(k) + (r.cost - p.cost)
      /\ UnitsAt(n) = UnitsAt(k) + (r.units - p.units)
      /\ OpenCount(n) = OpenCount(k)
  BY <1>3, <1>6, <1>8, ChangingMoves
<1>10. r.fees - p.fees = -s.fees /\ r.cost - p.cost = -s.cost /\ r.units - p.units = -1
  BY <1>1, <1>2, <1>4
<1>11. /\ EntryFees(k) \in Nat /\ Cost(k) \in Nat /\ UnitsAt(k) \in Nat /\ OpenCount(k) \in Nat
  BY TotalsAreNumbers
<1>12. pnl = Pnl(s, price, fee) /\ pnl \in Int
  BY <1>7 DEF s
<1>13. Longs(k) => Longs(n)
  BY <1>1, <1>3, <1>4 DEF Longs
<1>14. (lev = 0 => Longs(k)) => n.cash + Out(n, lev) = k.cash + Out(k, lev) + pnl
  <2> SUFFICES ASSUME lev = 0 => Longs(k)
               PROVE  n.cash + Out(n, lev) = k.cash + Out(k, lev) + pnl
    OBVIOUS
  <2>1. Credit(s, price, fee, lev) = pnl + s.fees + (IF lev = 0 THEN s.cost ELSE 0)
    BY <1>2, <1>7, <1>12 DEF Longs
  <2> HIDE DEF p, r
  <2>2. CASE lev = 0
    BY <1>1, <1>2, <1>3, <1>7, <1>9, <1>10, <1>11, <1>12, <2>1, <2>2 DEF Out
  <2>3. CASE lev # 0
    BY <1>1, <1>2, <1>3, <1>7, <1>9, <1>10, <1>11, <1>12, <2>1, <2>3 DEF Out
  <2>4. QED BY <2>2, <2>3
<1> HIDE DEF r, p
<1>15. OpenCount(n) <= OpenCount(k) /\ UnitsAt(n) <= UnitsAt(k)
  BY <1>9, <1>10, <1>11
<1>16. QED BY <1>3, <1>8, <1>12, <1>13, <1>14, <1>15

\* The same holdings, whatever the cash and the halts.
SameHoldings(n, k) == n.positions = k.positions /\ n.locks = k.locks /\ n.nextId = k.nextId

\* The holdings tell whether a kernel's books are sound, and all their totals.
LEMMA HoldingsTell ==
  ASSUME NEW lev \in Nat, NEW k, Sound(k, lev), NEW n, IsKernel(n), n.cash \in Int,
         SameHoldings(n, k)
  PROVE  /\ Sound(n, lev) /\ (Longs(n) <=> Longs(k))
         /\ TotalLocked(n) = TotalLocked(k) /\ Out(n, lev) = Out(k, lev)
         /\ OpenCount(n) = OpenCount(k) /\ UnitsAt(n) = UnitsAt(k)
BY DEF Sound, SameHoldings, Longs, TotalLocked, Out, EntryFees, Cost, OpenCount, UnitsAt

\* Selling out returns all that was taken out, with its profit, and all locks.
LEMMA EmptyingReturns ==
  ASSUME NEW lev \in Nat, NEW k, Sound(k, lev), NEW n, IsKernel(n), n.cash \in Int,
         SameHoldings(n, Emptied(k))
  PROVE  /\ Sound(n, lev) /\ Longs(n)
         /\ TotalLocked(n) = 0 /\ Out(n, lev) = 0 /\ OpenCount(n) = 0 /\ UnitsAt(n) = 0
<1>1. /\ n.nextId = k.nextId
      /\ n.positions = [p \in {} |-> p] /\ n.locks = [p \in {} |-> p]
  BY DEF SameHoldings, Emptied, Sound, IsKernel
<1>2. /\ DOMAIN n.positions = {} /\ n.positions \in [{} -> Position]
      /\ DOMAIN n.locks = {} /\ n.locks \in [{} -> Nat] /\ n.locks \in [{} -> Int]
  BY <1>1
<1>3. Sound(n, lev) /\ Longs(n)
  BY <1>1, <1>2, FS_EmptySet DEF Sound, Longs
<1>4. SumFunction(n.locks) = 0
  BY <1>2, SumOfNone
<1>5. OpenCount(n) = 0
  BY <1>2, FS_EmptySet DEF OpenCount
<1>6. EntryFees(n) = 0 /\ Cost(n) = 0 /\ UnitsAt(n) = 0
  <2>1. ASSUME NEW f \in [{} -> Int] PROVE SumFunction(f) = 0
    BY <2>1, SumOfNone
  <2>2. /\ [q \in {} |-> n.positions[q].fees] \in [{} -> Int]
        /\ [q \in {} |-> n.positions[q].cost] \in [{} -> Int]
        /\ [q \in {} |-> n.positions[q].units] \in [{} -> Int]
    OBVIOUS
  <2>3. QED BY <1>2, <2>1, <2>2 DEF EntryFees, Cost, UnitsAt
<1>7. QED BY <1>3, <1>4, <1>5, <1>6 DEF TotalLocked, Out

\* Selling out returns what the positions had taken out, with their profit.
LEMMA ProceedsReturn ==
  ASSUME NEW lev \in Nat, NEW k, Sound(k, lev), NEW price \in Nat, NEW fee \in Nat
  PROVE  /\ Proceeds(k, price, fee, lev) \in Int /\ Profits(k, price, fee) \in Int
         /\ (lev = 0 => Longs(k)) =>
              Proceeds(k, price, fee, lev) = Profits(k, price, fee) + Out(k, lev)
<1> DEFINE D == DOMAIN k.positions
           ps == k.positions
           exit(q) == fee * ps[q].units
<1>1. PICK cs : cs = [q \in D |-> Credit(ps[q], price, exit(q), lev)]
  OBVIOUS
<1>2. PICK ws : ws = [q \in D |-> Pnl(ps[q], price, exit(q))]
  OBVIOUS
<1>3. PICK fs : fs = [q \in D |-> ps[q].fees]
  OBVIOUS
<1>4. PICK vs : vs = [q \in D |-> ps[q].cost]
  OBVIOUS
<1>5. /\ Proceeds(k, price, fee, lev) = SumFunction(cs)
      /\ Profits(k, price, fee) = SumFunction(ws)
      /\ EntryFees(k) = SumFunction(fs) /\ Cost(k) = SumFunction(vs)
  BY <1>1, <1>2, <1>3, <1>4 DEF Proceeds, Profits, EntryFees, Cost
<1>6. IsFiniteSet(D) /\ \A q \in D : ps[q] \in Position
  BY DEF Sound
<1>7. \A q \in D : exit(q) \in Nat
  BY <1>6 DEF Position
<1> HIDE DEF exit, ps, D
<1>8. \A q \in D : /\ cs[q] \in Int /\ ws[q] \in Int /\ fs[q] \in Int /\ vs[q] \in Int
                   /\ (lev = 0 => ps[q].long) =>
                        cs[q] = ws[q] + fs[q] + (IF lev = 0 THEN vs[q] ELSE 0)
  <2> SUFFICES ASSUME NEW q \in D
               PROVE  /\ cs[q] \in Int /\ ws[q] \in Int /\ fs[q] \in Int /\ vs[q] \in Int
                      /\ (lev = 0 => ps[q].long) =>
                           cs[q] = ws[q] + fs[q] + (IF lev = 0 THEN vs[q] ELSE 0)
    OBVIOUS
  <2>1. ps[q].fees \in Int /\ ps[q].cost \in Int
    BY <1>6 DEF Position
  <2>2. /\ Credit(ps[q], price, exit(q), lev) \in Int /\ Pnl(ps[q], price, exit(q)) \in Int
        /\ (lev = 0 => ps[q].long) =>
             Credit(ps[q], price, exit(q), lev)
               = Pnl(ps[q], price, exit(q)) + ps[q].fees + (IF lev = 0 THEN ps[q].cost ELSE 0)
    BY <1>6, <1>7, CreditReturns
  <2>3. QED BY <1>1, <1>2, <1>3, <1>4, <2>1, <2>2
<1>9. cs \in [D -> Int] /\ ws \in [D -> Int] /\ fs \in [D -> Int] /\ vs \in [D -> Int]
  BY <1>1, <1>2, <1>3, <1>4, <1>8
<1>10. /\ SumFunction(cs) \in Int /\ SumFunction(ws) \in Int
       /\ SumFunction(fs) \in Int /\ SumFunction(vs) \in Int
  BY <1>6, <1>9, SumIsInt
<1>11. ASSUME lev = 0 => Longs(k)
       PROVE  SumFunction(cs) = SumFunction(ws) + Out(k, lev)
  <2>1. PICK us : us = [q \in D |-> ws[q] + fs[q]]
    OBVIOUS
  <2>2. us \in [D -> Int] /\ SumFunction(us) = SumFunction(ws) + SumFunction(fs)
    BY <1>6, <1>9, <2>1, SumAdds
  <2>3. \A q \in D : lev = 0 => ps[q].long
    BY <1>11 DEF Longs, ps, D
  <2>4. CASE lev = 0
    <3>1. \A q \in D : cs[q] = us[q] + vs[q]
      BY <1>8, <2>1, <2>3, <2>4
    <3>2. cs = [q \in D |-> us[q] + vs[q]]
      BY <1>9, <3>1
    <3>3. SumFunction(cs) = SumFunction(us) + SumFunction(vs)
      BY <1>6, <1>9, <2>2, <3>2, SumAdds
    <3>4. QED BY <1>5, <1>10, <2>2, <2>4, <3>3 DEF Out
  <2>5. CASE lev # 0
    <3>1. \A q \in D : cs[q] = us[q]
      BY <1>8, <1>9, <2>1, <2>3, <2>5
    <3>2. cs = us
      BY <1>9, <2>2, <3>1
    <3>3. QED BY <1>5, <1>10, <2>2, <2>5, <3>2 DEF Out
  <2>6. QED BY <2>4, <2>5
<1>12. QED BY <1>5, <1>10, <1>11

\* A mark is a number, and long holdings are worth their cost and what they have won.
LEMMA MarksAdd ==
  ASSUME NEW lev \in Nat, NEW k, Sound(k, lev), NEW price \in Nat
  PROVE  /\ Value(k, price) \in Int /\ Unrealized(k, price) \in Int
         /\ Maintenance(k, price, lev) \in Int
         /\ Longs(k) => Value(k, price) = Unrealized(k, price) + Cost(k)
<1> DEFINE D == DOMAIN k.positions
           ps == k.positions
<1>1. PICK vs : vs = [q \in D |-> price * ps[q].units]
  OBVIOUS
<1>2. PICK us : us = [q \in D |-> Gross(ps[q], price)]
  OBVIOUS
<1>3. PICK cs : cs = [q \in D |-> ps[q].cost]
  OBVIOUS
<1>4. PICK ms : ms = [q \in D |-> (price * ps[q].units) \div (2 * lev)]
  OBVIOUS
<1>5. /\ Value(k, price) = SumFunction(vs) /\ Unrealized(k, price) = SumFunction(us)
      /\ Cost(k) = SumFunction(cs)
      /\ Maintenance(k, price, lev) = IF lev <= 1 THEN 0 ELSE SumFunction(ms)
  BY <1>1, <1>2, <1>3, <1>4 DEF Value, Unrealized, Cost, Maintenance
<1>6. IsFiniteSet(D) /\ \A q \in D : ps[q] \in Position
  BY DEF Sound
<1>7. \A q \in D : price * ps[q].units \in Nat /\ ps[q].cost \in Nat
  BY <1>6 DEF Position
<1>8. \A q \in D : /\ Gross(ps[q], price) \in Int
                   /\ (ps[q].long => price * ps[q].units = Gross(ps[q], price) + ps[q].cost)
  BY <1>6, <1>7 DEF Gross
<1>9. vs \in [D -> Int] /\ us \in [D -> Int] /\ cs \in [D -> Int]
  BY <1>1, <1>2, <1>3, <1>7, <1>8
<1>10. lev > 1 => ms \in [D -> Int]
  <2> SUFFICES ASSUME lev > 1 PROVE ms \in [D -> Int]
    OBVIOUS
  <2>1. 2 * lev \in Nat \ {0}
    OBVIOUS
  <2>2. ASSUME NEW a \in Nat, NEW b \in Nat \ {0} PROVE a \div b \in Int
    OBVIOUS
  <2>3. \A q \in D : (price * ps[q].units) \div (2 * lev) \in Int
    BY <1>7, <2>1, <2>2
  <2>4. QED BY <1>4, <2>3
<1>11. Longs(k) => vs = [q \in D |-> us[q] + cs[q]]
  BY <1>1, <1>2, <1>3, <1>8 DEF Longs
<1> HIDE DEF D, ps
<1>12. Longs(k) => SumFunction(vs) = SumFunction(us) + SumFunction(cs)
  BY <1>6, <1>9, <1>11, SumAdds
<1>13. /\ SumFunction(vs) \in Int /\ SumFunction(us) \in Int
       /\ (lev > 1 => SumFunction(ms) \in Int)
  BY <1>6, <1>9, <1>10, SumIsInt
<1>14. QED BY <1>5, <1>12, <1>13

\* No holdings cost nothing.
LEMMA EmptyCostsNothing ==
  ASSUME NEW k, DOMAIN k.positions = {}
  PROVE  Cost(k) = 0
<1>1. [id \in {} |-> k.positions[id].cost] \in [{} -> Int]
  OBVIOUS
<1>2. QED BY <1>1, SumOfNone DEF Cost

-----------------------------------------------------------------------------
(* The portfolio's money                                                   *)

AllLocked(ks)   == SumFunction([i \in Instruments |-> TotalLocked(ks[i])])
AllOut(ks, lev) == SumFunction([i \in Instruments |-> Out(ks[i], lev)])
AllOpen(ks)     == SumFunction([i \in Instruments |-> OpenCount(ks[i])])

\* The totals of a portfolio are numbers.
LEMMA PortfolioTotals ==
  ASSUME NEW lev \in Nat, NEW ks, \A i \in Instruments : Sound(ks[i], lev)
  PROVE  AllLocked(ks) \in Nat /\ AllOut(ks, lev) \in Nat /\ AllOpen(ks) \in Nat
<1>1. \A i \in Instruments :
        TotalLocked(ks[i]) \in Nat /\ Out(ks[i], lev) \in Nat /\ OpenCount(ks[i]) \in Nat
  BY TotalsAreNumbers
<1>2. /\ [i \in Instruments |-> TotalLocked(ks[i])] \in [Instruments -> Nat]
      /\ [i \in Instruments |-> Out(ks[i], lev)] \in [Instruments -> Nat]
      /\ [i \in Instruments |-> OpenCount(ks[i])] \in [Instruments -> Nat]
  BY <1>1
<1>3. QED BY <1>2, InstrumentAssumption, SumIsNat DEF AllLocked, AllOut, AllOpen

\* Where one kernel moves, the totals move as its own do.
LEMMA OneKernelMoves ==
  ASSUME NEW lev \in Nat, NEW ks, NEW ns, NEW at \in Instruments,
         \A i \in Instruments : Sound(ks[i], lev) /\ Sound(ns[i], lev),
         \A i \in Instruments \ {at} :
           /\ TotalLocked(ns[i]) = TotalLocked(ks[i]) /\ Out(ns[i], lev) = Out(ks[i], lev)
           /\ OpenCount(ns[i]) = OpenCount(ks[i])
  PROVE  /\ AllLocked(ns) = AllLocked(ks) + (TotalLocked(ns[at]) - TotalLocked(ks[at]))
         /\ AllOut(ns, lev) = AllOut(ks, lev) + (Out(ns[at], lev) - Out(ks[at], lev))
         /\ AllOpen(ns) = AllOpen(ks) + (OpenCount(ns[at]) - OpenCount(ks[at]))
<1>1. \A i \in Instruments :
        /\ TotalLocked(ks[i]) \in Int /\ Out(ks[i], lev) \in Int /\ OpenCount(ks[i]) \in Int
        /\ TotalLocked(ns[i]) \in Int /\ Out(ns[i], lev) \in Int /\ OpenCount(ns[i]) \in Int
  BY TotalsAreNumbers
<1>2. ASSUME NEW f \in [Instruments -> Int], NEW h \in [Instruments -> Int],
             \A i \in Instruments \ {at} : h[i] = f[i]
      PROVE  SumFunction(h) = SumFunction(f) + (h[at] - f[at])
  BY <1>2, InstrumentAssumption, SumChanges
<1>3. AllLocked(ns) = AllLocked(ks) + (TotalLocked(ns[at]) - TotalLocked(ks[at]))
  <2>1. PICK f : f = [i \in Instruments |-> TotalLocked(ks[i])]
    OBVIOUS
  <2>2. PICK h : h = [i \in Instruments |-> TotalLocked(ns[i])]
    OBVIOUS
  <2>3. /\ f \in [Instruments -> Int] /\ h \in [Instruments -> Int]
        /\ \A i \in Instruments \ {at} : h[i] = f[i]
        /\ h[at] = TotalLocked(ns[at]) /\ f[at] = TotalLocked(ks[at])
    BY <1>1, <2>1, <2>2
  <2>4. QED BY <1>2, <2>1, <2>2, <2>3 DEF AllLocked
<1>4. AllOut(ns, lev) = AllOut(ks, lev) + (Out(ns[at], lev) - Out(ks[at], lev))
  <2>1. PICK f : f = [i \in Instruments |-> Out(ks[i], lev)]
    OBVIOUS
  <2>2. PICK h : h = [i \in Instruments |-> Out(ns[i], lev)]
    OBVIOUS
  <2>3. /\ f \in [Instruments -> Int] /\ h \in [Instruments -> Int]
        /\ \A i \in Instruments \ {at} : h[i] = f[i]
        /\ h[at] = Out(ns[at], lev) /\ f[at] = Out(ks[at], lev)
    BY <1>1, <2>1, <2>2
  <2>4. QED BY <1>2, <2>1, <2>2, <2>3 DEF AllOut
<1>5. AllOpen(ns) = AllOpen(ks) + (OpenCount(ns[at]) - OpenCount(ks[at]))
  <2>1. PICK f : f = [i \in Instruments |-> OpenCount(ks[i])]
    OBVIOUS
  <2>2. PICK h : h = [i \in Instruments |-> OpenCount(ns[i])]
    OBVIOUS
  <2>3. /\ f \in [Instruments -> Int] /\ h \in [Instruments -> Int]
        /\ \A i \in Instruments \ {at} : h[i] = f[i]
        /\ h[at] = OpenCount(ns[at]) /\ f[at] = OpenCount(ks[at])
    BY <1>1, <2>1, <2>2
  <2>4. QED BY <1>2, <2>1, <2>2, <2>3 DEF AllOpen
<1>6. QED BY <1>3, <1>4, <1>5

\* Where a part of the portfolio sells out at its closes, what leaves the totals is
\* what that part held, and it returns what it had taken out, with its profit.
LEMMA PartSellsOut ==
  ASSUME NEW lev \in Nat, NEW ks, NEW ns, NEW closes, NEW fee \in Nat,
         \A i \in Instruments : Sound(ks[i], lev) /\ Sound(ns[i], lev),
         closes \in [Instruments -> Prices \cup {None}],
         \A i \in Printed(closes) :
           TotalLocked(ns[i]) = 0 /\ Out(ns[i], lev) = 0 /\ OpenCount(ns[i]) = 0,
         \A i \in Instruments \ Printed(closes) :
           /\ TotalLocked(ns[i]) = TotalLocked(ks[i]) /\ Out(ns[i], lev) = Out(ks[i], lev)
           /\ OpenCount(ns[i]) = OpenCount(ks[i]),
         NEW gained,
         gained = SumFunction([i \in Printed(closes) |-> Proceeds(ks[i], closes[i], fee, lev)]),
         NEW freed, freed = SumFunction([i \in Printed(closes) |-> TotalLocked(ks[i])]),
         NEW won, won = SumFunction([i \in Printed(closes) |-> Profits(ks[i], closes[i], fee)])
  PROVE  /\ gained \in Int /\ freed \in Int /\ won \in Int
         /\ AllLocked(ns) = AllLocked(ks) - freed
         /\ ((lev = 0 => \A i \in Instruments : Longs(ks[i])) =>
              gained = won + AllOut(ks, lev) - AllOut(ns, lev))
         /\ AllOpen(ns) <= AllOpen(ks)
<1>1. PICK P : P = Printed(closes)
  OBVIOUS
<1>2. /\ P \in SUBSET Instruments /\ IsFiniteSet(P)
      /\ \A i \in P : closes[i] \in Nat
  BY <1>1, InstrumentAssumption, PriceAssumption, FS_Subset DEF Printed, None
<1>3. /\ \A i \in P :
           TotalLocked(ns[i]) = 0 /\ Out(ns[i], lev) = 0 /\ OpenCount(ns[i]) = 0
      /\ \A i \in Instruments \ P :
           /\ TotalLocked(ns[i]) = TotalLocked(ks[i]) /\ Out(ns[i], lev) = Out(ks[i], lev)
           /\ OpenCount(ns[i]) = OpenCount(ks[i])
  BY <1>1
<1>4. \A i \in Instruments :
        /\ TotalLocked(ks[i]) \in Nat /\ Out(ks[i], lev) \in Nat /\ OpenCount(ks[i]) \in Nat
        /\ TotalLocked(ns[i]) \in Nat /\ Out(ns[i], lev) \in Nat /\ OpenCount(ns[i]) \in Nat
  BY TotalsAreNumbers
<1>5. ASSUME NEW f \in [Instruments -> Int], NEW h \in [Instruments -> Int],
             \A i \in P : h[i] = 0, \A i \in Instruments \ P : h[i] = f[i]
      PROVE  SumFunction(f) = SumFunction(h) + SumFunction([i \in P |-> f[i]])
  <2>1. \A i \in Instruments : h[i] = IF i \in P THEN 0 ELSE f[i]
    BY <1>5
  <2>2. QED BY <1>2, <2>1, InstrumentAssumption, SumEmpties
<1>6. freed \in Int /\ AllLocked(ks) = AllLocked(ns) + freed
  <2>1. PICK f : f = [i \in Instruments |-> TotalLocked(ks[i])]
    OBVIOUS
  <2>2. PICK h : h = [i \in Instruments |-> TotalLocked(ns[i])]
    OBVIOUS
  <2>3. /\ f \in [Instruments -> Int] /\ h \in [Instruments -> Int]
        /\ \A i \in P : h[i] = 0
        /\ \A i \in Instruments \ P : h[i] = f[i]
    BY <1>2, <1>3, <1>4, <2>1, <2>2
  <2>4. SumFunction(f) = SumFunction(h) + SumFunction([i \in P |-> f[i]])
    BY <1>5, <2>3
  <2>5. [i \in P |-> f[i]] = [i \in P |-> TotalLocked(ks[i])]
    BY <1>2, <2>1
  <2>6. [i \in P |-> TotalLocked(ks[i])] \in [P -> Int]
    BY <1>2, <1>4
  <2>7. freed \in Int
    BY <1>1, <1>2, <2>6, SumIsInt
  <2>8. QED BY <1>1, <2>1, <2>2, <2>4, <2>5, <2>7 DEF AllLocked
<1>7. PICK outs : outs = [i \in P |-> Out(ks[i], lev)]
  OBVIOUS
<1>8. outs \in [P -> Int] /\ AllOut(ks, lev) = AllOut(ns, lev) + SumFunction(outs)
  <2>1. PICK f : f = [i \in Instruments |-> Out(ks[i], lev)]
    OBVIOUS
  <2>2. PICK h : h = [i \in Instruments |-> Out(ns[i], lev)]
    OBVIOUS
  <2>3. /\ f \in [Instruments -> Int] /\ h \in [Instruments -> Int]
        /\ \A i \in P : h[i] = 0
        /\ \A i \in Instruments \ P : h[i] = f[i]
    BY <1>2, <1>3, <1>4, <2>1, <2>2
  <2>4. SumFunction(f) = SumFunction(h) + SumFunction([i \in P |-> f[i]])
    BY <1>5, <2>3
  <2>5. [i \in P |-> f[i]] = outs
    BY <1>2, <1>7, <2>1
  <2>6. outs \in [P -> Int]
    BY <1>2, <1>4, <1>7
  <2>7. QED BY <2>1, <2>2, <2>4, <2>5, <2>6 DEF AllOut
<1>9. PICK gs : gs = [i \in P |-> Proceeds(ks[i], closes[i], fee, lev)]
  OBVIOUS
<1>10. PICK ws : ws = [i \in P |-> Profits(ks[i], closes[i], fee)]
  OBVIOUS
<1>11. \A i \in P : /\ gs[i] \in Int /\ ws[i] \in Int
                    /\ (lev = 0 => Longs(ks[i])) => gs[i] = ws[i] + outs[i]
  <2> SUFFICES ASSUME NEW i \in P
               PROVE  /\ gs[i] \in Int /\ ws[i] \in Int
                      /\ (lev = 0 => Longs(ks[i])) => gs[i] = ws[i] + outs[i]
    OBVIOUS
  <2>1. Sound(ks[i], lev) /\ closes[i] \in Nat
    BY <1>2
  <2>2. /\ Proceeds(ks[i], closes[i], fee, lev) \in Int /\ Profits(ks[i], closes[i], fee) \in Int
        /\ (lev = 0 => Longs(ks[i])) =>
             Proceeds(ks[i], closes[i], fee, lev) = Profits(ks[i], closes[i], fee) + Out(ks[i], lev)
    BY <2>1, ProceedsReturn
  <2>3. QED BY <1>7, <1>9, <1>10, <2>2
<1>12. gs \in [P -> Int] /\ ws \in [P -> Int]
  BY <1>9, <1>10, <1>11
<1>13. gained \in Int /\ won \in Int /\ SumFunction(outs) \in Int
  <2>1. SumFunction(gs) \in Int /\ SumFunction(ws) \in Int /\ SumFunction(outs) \in Int
    BY <1>2, <1>8, <1>12, SumIsInt
  <2>2. gained = SumFunction(gs) /\ won = SumFunction(ws)
    BY <1>1, <1>9, <1>10
  <2>3. QED BY <2>1, <2>2
<1>14. (lev = 0 => \A i \in Instruments : Longs(ks[i])) => gained = won + SumFunction(outs)
  <2> SUFFICES ASSUME lev = 0 => \A i \in Instruments : Longs(ks[i])
               PROVE  gained = won + SumFunction(outs)
    OBVIOUS
  <2>1. gs = [i \in P |-> ws[i] + outs[i]]
    BY <1>2, <1>9, <1>11
  <2>2. SumFunction(gs) = SumFunction(ws) + SumFunction(outs)
    BY <1>2, <1>8, <1>12, <2>1, SumAdds
  <2>3. gained = SumFunction(gs) /\ won = SumFunction(ws)
    BY <1>1, <1>9, <1>10
  <2>4. QED BY <2>2, <2>3
<1>15. AllOpen(ns) <= AllOpen(ks)
  <2>1. PICK f : f = [i \in Instruments |-> OpenCount(ks[i])]
    OBVIOUS
  <2>2. PICK h : h = [i \in Instruments |-> OpenCount(ns[i])]
    OBVIOUS
  <2>3. /\ f \in [Instruments -> Int] /\ h \in [Instruments -> Int]
        /\ \A i \in Instruments : h[i] <= f[i]
    BY <1>3, <1>4, <2>1, <2>2
  <2>4. SumFunction(h) <= SumFunction(f)
    BY <2>3, InstrumentAssumption, SumGrows
  <2>5. QED BY <2>1, <2>2, <2>4 DEF AllOpen
<1>16. AllLocked(ns) \in Int /\ AllOut(ns, lev) \in Int
  BY PortfolioTotals
<1>17. QED BY <1>6, <1>8, <1>13, <1>14, <1>15, <1>16

\* What the positions of a portfolio read at its closes, what selling them gains,
\* and what locks it frees.
Marks(ks, closes) ==
  SumFunction([i \in Printed(closes) |->
    IF Leverage = 0 THEN Value(ks[i], closes[i]) ELSE Unrealized(ks[i], closes[i])])
Gained(ks, closes, fee) ==
  SumFunction([i \in Printed(closes) |-> Proceeds(ks[i], closes[i], fee, Leverage)])
Freed(ks, closes) == SumFunction([i \in Printed(closes) |-> TotalLocked(ks[i])])

\* All of these depend on its positions and their locks only.
LEMMA MarksFollowPositions ==
  ASSUME NEW ks, NEW ns, NEW closes,
         \A i \in Instruments : ns[i].positions = ks[i].positions /\ ns[i].locks = ks[i].locks
  PROVE  /\ Marks(ns, closes) = Marks(ks, closes)
         /\ Required(ns, closes) = Required(ks, closes)
         /\ Freed(ns, closes) = Freed(ks, closes)
         /\ \A fee : /\ Gained(ns, closes, fee) = Gained(ks, closes, fee)
                     /\ SoldProfit(ns, closes, fee) = SoldProfit(ks, closes, fee)
<1> DEFINE P == Printed(closes)
<1>1. \A i \in P : i \in Instruments
  BY DEF Printed
<1> HIDE DEF P
<1>2. \A i \in P :
        /\ Value(ns[i], closes[i]) = Value(ks[i], closes[i])
        /\ Unrealized(ns[i], closes[i]) = Unrealized(ks[i], closes[i])
        /\ Maintenance(ns[i], closes[i], Leverage) = Maintenance(ks[i], closes[i], Leverage)
        /\ TotalLocked(ns[i]) = TotalLocked(ks[i])
  <2> SUFFICES ASSUME NEW i \in P
               PROVE  /\ Value(ns[i], closes[i]) = Value(ks[i], closes[i])
                      /\ Unrealized(ns[i], closes[i]) = Unrealized(ks[i], closes[i])
                      /\ Maintenance(ns[i], closes[i], Leverage) = Maintenance(ks[i], closes[i], Leverage)
                      /\ TotalLocked(ns[i]) = TotalLocked(ks[i])
    OBVIOUS
  <2>1. ns[i].positions = ks[i].positions /\ ns[i].locks = ks[i].locks
    BY <1>1
  <2>2. QED BY <2>1, Zenon DEF Value, Unrealized, Maintenance, TotalLocked
<1>3. ASSUME NEW fee
      PROVE  /\ Gained(ns, closes, fee) = Gained(ks, closes, fee)
             /\ SoldProfit(ns, closes, fee) = SoldProfit(ks, closes, fee)
  <2>1. \A i \in P :
          /\ Proceeds(ns[i], closes[i], fee, Leverage) = Proceeds(ks[i], closes[i], fee, Leverage)
          /\ Profits(ns[i], closes[i], fee) = Profits(ks[i], closes[i], fee)
    <3> SUFFICES ASSUME NEW i \in P
                 PROVE  /\ Proceeds(ns[i], closes[i], fee, Leverage) = Proceeds(ks[i], closes[i], fee, Leverage)
                        /\ Profits(ns[i], closes[i], fee) = Profits(ks[i], closes[i], fee)
      OBVIOUS
    <3>1. ns[i].positions = ks[i].positions
      BY <1>1
    <3>2. QED BY <3>1, Zenon DEF Proceeds, Profits
  <2>2. [i \in P |-> Proceeds(ns[i], closes[i], fee, Leverage)]
          = [i \in P |-> Proceeds(ks[i], closes[i], fee, Leverage)]
    BY <2>1
  <2>3. [i \in P |-> Profits(ns[i], closes[i], fee)] = [i \in P |-> Profits(ks[i], closes[i], fee)]
    BY <2>1
  <2>4. QED BY <2>2, <2>3, Zenon DEF Gained, SoldProfit, P
<1>4. [i \in P |-> TotalLocked(ns[i])] = [i \in P |-> TotalLocked(ks[i])]
  BY <1>2
<1>5. [i \in P |-> Maintenance(ns[i], closes[i], Leverage)]
        = [i \in P |-> Maintenance(ks[i], closes[i], Leverage)]
  BY <1>2
<1>6. [i \in P |-> IF Leverage = 0 THEN Value(ns[i], closes[i]) ELSE Unrealized(ns[i], closes[i])]
        = [i \in P |-> IF Leverage = 0 THEN Value(ks[i], closes[i]) ELSE Unrealized(ks[i], closes[i])]
  BY <1>2
<1>7. QED BY <1>3, <1>4, <1>5, <1>6, Zenon DEF Required, Marks, Freed, P

-----------------------------------------------------------------------------
(* Lending, draining and the records                                       *)

\* The parts of the state that count have their types.
Typed ==
  /\ run \in DOMAIN Configs
  /\ account \in [balance: Int, locked: Nat, halted: BOOLEAN]
  /\ lastClose \in [Instruments -> Prices \cup {None}]
  /\ booked \in Int /\ samples \in 0..MaxEvents /\ moves \in 0..MaxMoves
  /\ Stepping =>
       /\ step.close \in Prices /\ samples < MaxEvents
       /\ step.injected \in Int /\ step.locked \in Int /\ step.external \in Int
       /\ step.pnl \in Int

\* Every kernel's books are sound, and only the stepping one holds cash.
Books ==
  /\ \A i \in Instruments : Sound(kernels[i], Leverage)
  /\ LongInCash => (Leverage = 0 => \A i \in Instruments : Longs(kernels[i]))
  /\ \A i \in Instruments : (Stepping => i # step.at) => kernels[i].cash = 0

\* What the stepping kernel was lent leaves out what the others have locked.
Lending ==
  IF Stepping
  THEN /\ step.injected = account.balance - (account.locked - step.locked)
       /\ account.locked - step.locked + TotalLocked(Current) = AllLocked(kernels)
  ELSE account.locked = AllLocked(kernels)

\* The balance, with what the step in progress has moved, is the capital and the
\* records, less what is still out.
Accounted ==
  LongInCash =>
    account.balance + (IF Stepping THEN Current.cash - step.injected - step.pnl ELSE 0)
      = Capital + booked - AllOut(kernels, Leverage)

\* Under netting the portfolio keeps to its cap, since the count the gate was given
\* covers all the other kernels.
Counted ==
  MaxPositions > 0 /\ ~Hedging /\ ~Adopts =>
    /\ AllOpen(kernels) <= MaxPositions
    /\ Stepping => AllOpen(kernels) - OpenCount(Current) <= step.external

LedgerInv == Typed /\ Books /\ Lending /\ Accounted /\ Counted

\* A configuration has its types.
LEMMA SettingsHaveTypes ==
  ASSUME run \in DOMAIN Configs
  PROVE  /\ Leverage \in Nat /\ Capital \in Nat /\ Fee \in Nat /\ SizedFee \in Nat /\ MaxPositions \in Nat
         /\ MaxEvents \in Nat /\ MaxMoves \in Nat
         /\ Sides \subseteq BOOLEAN /\ OpenUnits \subseteq Nat \ {0}
BY ConfigAssumption DEF Config, Leverage, Capital, Fee, SizedFee, MaxPositions, MaxEvents,
   MaxMoves, Sides, OpenUnits

\* And keeps them, as long as the run keeps its configuration.
LEMMA SettingsStay ==
  ASSUME run' = run
  PROVE  /\ Leverage' = Leverage /\ Capital' = Capital /\ Fee' = Fee
         /\ MaxPositions' = MaxPositions /\ Hedging' = Hedging /\ Adopts' = Adopts
         /\ MaxEvents' = MaxEvents /\ MaxMoves' = MaxMoves /\ Sides' = Sides
         /\ (LongInCash' <=> LongInCash)
BY DEF Leverage, Capital, Fee, MaxPositions, Hedging, Adopts, MaxEvents, MaxMoves, Sides,
   LongInCash

\* What a move of money in a step may be: of its kernel, which keeps what it has
\* and what it has taken out in line with the record.
LEMMA KernelMoves ==
  ASSUME HaltInv, LedgerInv, Stepping, Stepping', NEW k, NEW pnl \in Int,
         kernels' = [kernels EXCEPT ![step.at] = k],
         /\ step'.at = step.at /\ step'.close = step.close /\ step'.injected = step.injected
         /\ step'.locked = step.locked /\ step'.external = step.external
         /\ step'.pnl = step.pnl + pnl,
         UNCHANGED <<run, account, lastClose, booked, samples>>, moves' \in 0..MaxMoves,
         Sound(k, Leverage),
         LongInCash => (Leverage = 0 => Longs(k)),
         LongInCash => k.cash + Out(k, Leverage) = Current.cash + Out(Current, Leverage) + pnl,
         MaxPositions > 0 /\ ~Hedging /\ ~Adopts =>
           \/ OpenCount(k) <= OpenCount(Current)
           \/ OpenCount(k) = 1 /\ OpenCount(Current) = 0 /\ step.external < MaxPositions
  PROVE  LedgerInv'
<1>1. /\ Leverage \in Nat /\ Capital \in Nat /\ MaxPositions \in Nat
      /\ step.at \in Instruments /\ DOMAIN kernels = Instruments
  BY SettingsHaveTypes DEF LedgerInv, Typed, HaltInv, Shapes
<1>2. /\ Leverage' = Leverage /\ Capital' = Capital /\ MaxPositions' = MaxPositions
      /\ Hedging' = Hedging /\ Adopts' = Adopts /\ MaxEvents' = MaxEvents
      /\ MaxMoves' = MaxMoves /\ (LongInCash' <=> LongInCash)
  BY SettingsStay
<1>3. /\ kernels'[step.at] = k /\ Current' = k
      /\ \A i \in Instruments \ {step.at} : kernels'[i] = kernels[i]
  BY <1>1 DEF Current
<1>4. Typed'
  BY <1>1, <1>2 DEF LedgerInv, Typed
<1>5. \A i \in Instruments : Sound(kernels'[i], Leverage) /\ Sound(kernels[i], Leverage)
  BY <1>3 DEF LedgerInv, Books
<1>6. Books'
  <2>1. \A i \in Instruments : Sound(kernels'[i], Leverage')
    BY <1>2, <1>5
  <2>2. LongInCash' => (Leverage' = 0 => \A i \in Instruments : Longs(kernels'[i]))
    BY <1>2, <1>3 DEF LedgerInv, Books
  <2>3. \A i \in Instruments : (Stepping' => i # step'.at) => kernels'[i].cash = 0
    BY <1>3 DEF LedgerInv, Books
  <2>4. QED BY <2>1, <2>2, <2>3 DEF Books
<1>7. /\ AllLocked(kernels') = AllLocked(kernels) + (TotalLocked(k) - TotalLocked(Current))
      /\ AllOut(kernels', Leverage) = AllOut(kernels, Leverage) + (Out(k, Leverage) - Out(Current, Leverage))
      /\ AllOpen(kernels') = AllOpen(kernels) + (OpenCount(k) - OpenCount(Current))
  <2>1. PICK ns : ns = kernels'
    OBVIOUS
  <2>2. PICK ks : ks = kernels
    OBVIOUS
  <2>3. PICK lev : lev = Leverage
    OBVIOUS
  <2>4. PICK at : at = step.at
    OBVIOUS
  <2>5. /\ at \in Instruments /\ ns[at] = k /\ Current = ks[at] /\ lev \in Nat
        /\ \A i \in Instruments : Sound(ks[i], lev) /\ Sound(ns[i], lev)
        /\ \A i \in Instruments \ {at} :
             /\ TotalLocked(ns[i]) = TotalLocked(ks[i]) /\ Out(ns[i], lev) = Out(ks[i], lev)
             /\ OpenCount(ns[i]) = OpenCount(ks[i])
    BY <1>1, <1>3, <1>5, <2>1, <2>2, <2>3, <2>4 DEF Current
  <2>6. /\ AllLocked(ns) = AllLocked(ks) + (TotalLocked(ns[at]) - TotalLocked(ks[at]))
        /\ AllOut(ns, lev) = AllOut(ks, lev) + (Out(ns[at], lev) - Out(ks[at], lev))
        /\ AllOpen(ns) = AllOpen(ks) + (OpenCount(ns[at]) - OpenCount(ks[at]))
    BY ONLY <2>5, OneKernelMoves
  <2>7. QED BY <2>1, <2>2, <2>3, <2>5, <2>6
<1>8. /\ AllLocked(kernels) \in Int /\ AllOut(kernels, Leverage) \in Int /\ AllOpen(kernels) \in Int
      /\ TotalLocked(k) \in Int /\ Out(k, Leverage) \in Int /\ OpenCount(k) \in Int
      /\ TotalLocked(Current) \in Int /\ Out(Current, Leverage) \in Int /\ OpenCount(Current) \in Int
      /\ k.cash \in Int /\ Current.cash \in Int
  <2>1. Sound(Current, Leverage)
    BY <1>1, <1>5 DEF Current
  <2>2. AllLocked(kernels) \in Int /\ AllOut(kernels, Leverage) \in Int /\ AllOpen(kernels) \in Int
    BY <1>1, <1>5, PortfolioTotals
  <2>3. k.cash \in Int /\ Current.cash \in Int
    BY <2>1 DEF Sound
  <2>4. QED BY <1>1, <2>1, <2>2, <2>3, TotalsAreNumbers
<1>9. /\ account.balance \in Int /\ account.locked \in Int /\ step.injected \in Int
      /\ step.locked \in Int /\ step.external \in Int /\ step.pnl \in Int /\ booked \in Int
  BY DEF LedgerInv, Typed
<1>10. Lending'
  <2>1. /\ step.injected = account.balance - (account.locked - step.locked)
        /\ account.locked - step.locked + TotalLocked(Current) = AllLocked(kernels)
    BY DEF LedgerInv, Lending
  <2>2. /\ step'.injected = account'.balance - (account'.locked - step'.locked)
        /\ account'.locked - step'.locked + TotalLocked(k) = AllLocked(kernels')
    BY <1>7, <1>8, <1>9, <2>1
  <2>3. QED BY <1>3, <2>2 DEF Lending, AllLocked
<1>11. Accounted'
  <2> SUFFICES ASSUME LongInCash
               PROVE  account'.balance + (Current'.cash - step'.injected - step'.pnl)
                        = Capital' + booked' - AllOut(kernels', Leverage')
    BY <1>2 DEF Accounted, AllOut, Out, EntryFees, Cost
  <2>1. account.balance + (Current.cash - step.injected - step.pnl)
          = Capital + booked - AllOut(kernels, Leverage)
    BY DEF LedgerInv, Accounted
  <2>2. k.cash + Out(k, Leverage) = Current.cash + Out(Current, Leverage) + pnl
    OBVIOUS
  <2>3. account.balance + (k.cash - step.injected - (step.pnl + pnl))
          = Capital + booked - AllOut(kernels', Leverage)
    BY <1>1, <1>7, <1>8, <1>9, <2>1, <2>2
  <2>4. QED BY <1>2, <1>3, <2>3
<1>12. Counted'
  <2> SUFFICES ASSUME MaxPositions > 0 /\ ~Hedging /\ ~Adopts
               PROVE  /\ AllOpen(kernels') <= MaxPositions
                      /\ AllOpen(kernels') - OpenCount(k) <= step.external
    BY <1>2, <1>3 DEF Counted, AllOpen
  <2>1. /\ AllOpen(kernels) <= MaxPositions
        /\ AllOpen(kernels) - OpenCount(Current) <= step.external
    BY DEF LedgerInv, Counted
  <2>2. QED BY <1>1, <1>7, <1>8, <1>9, <2>1
<1>13. QED BY <1>4, <1>6, <1>10, <1>11, <1>12 DEF LedgerInv

\* What a money operation promises of the kernel it moves.
Keeps(k, pnl) ==
  /\ Sound(k, Leverage) /\ pnl \in Int
  /\ LongInCash => (Leverage = 0 => Longs(k))
  /\ LongInCash => k.cash + Out(k, Leverage) = Current.cash + Out(Current, Leverage) + pnl
  /\ MaxPositions > 0 /\ ~Hedging /\ ~Adopts =>
       \/ OpenCount(k) <= OpenCount(Current)
       \/ OpenCount(k) = 1 /\ OpenCount(Current) = 0 /\ step.external < MaxPositions

\* A money operation that keeps its promise keeps the books in order.
LEMMA MovingKeepsLedger ==
  ASSUME HaltInv, LedgerInv, Stepping, NEW k, NEW pnl, Moved(k, pnl), Keeps(k, pnl)
  PROVE  LedgerInv'
<1>1. /\ kernels' = [kernels EXCEPT ![step.at] = k]
      /\ step' = [step EXCEPT !.pnl = @ + pnl]
      /\ UNCHANGED <<run, account, lastClose, booked, samples>>
      /\ moves' = moves + 1 /\ moves < MaxMoves
  BY DEF Moved
<1>2. /\ step'.at = step.at /\ step'.close = step.close /\ step'.injected = step.injected
      /\ step'.locked = step.locked /\ step'.external = step.external
      /\ step'.pnl = step.pnl + pnl /\ Stepping'
  BY <1>1 DEF HaltInv, Shapes, Stepping
<1>3. moves' \in 0..MaxMoves
  BY <1>1, SettingsHaveTypes DEF LedgerInv, Typed
<1> HIDE DEF HaltInv, LedgerInv
<1>4. QED BY <1>1, <1>2, <1>3, KernelMoves DEF Keeps

\* What the actions of a step work on.
LEMMA CurrentIsSound ==
  ASSUME HaltInv, LedgerInv, Stepping
  PROVE  /\ step.at \in Instruments /\ Current = kernels[step.at]
         /\ Sound(Current, Leverage) /\ Leverage \in Nat /\ Fee \in Nat
         /\ (LongInCash => (Leverage = 0 => Longs(Current)))
         /\ Prices \subseteq Nat
BY SettingsHaveTypes, PriceAssumption DEF HaltInv, Shapes, LedgerInv, Typed, Books, Current

\* Opening does, and takes the funding and the fees out of what its kernel has free.
LEMMA OpenKeeps ==
  ASSUME HaltInv, LedgerInv, Stepping,
         NEW long \in Sides, NEW price \in Prices, NEW units \in OpenUnits,
         Open(long, price, units)
  PROVE  /\ LedgerInv' /\ Stepping'
         /\ Free(Current') = Free(Current) - Fee * units - Funding(price * units, Leverage)
         /\ Free(Current) \in Int /\ Funding(price * units, Leverage) \in Int
<1> DEFINE p == [long |-> long, units |-> units, cost |-> price * units, fees |-> Fee * units]
           k == Opened(Current, p, Leverage)
<1>1. Stepping /\ MayOpen /\ Moved(k, 0)
  BY DEF Open
<1>2. /\ Sound(Current, Leverage) /\ Leverage \in Nat /\ Fee \in Nat /\ price \in Nat
      /\ (LongInCash => (Leverage = 0 => Longs(Current))) /\ step.at \in Instruments
      /\ Current = kernels[step.at]
  BY <1>1, CurrentIsSound
<1>3. long \in BOOLEAN /\ units \in Nat \ {0} /\ MaxPositions \in Nat
  BY SettingsHaveTypes DEF LedgerInv, Typed
<1>4. price * units \in Nat /\ Fee * units \in Nat
  BY <1>2, <1>3
<1>5. p \in Position
  BY <1>3, <1>4 DEF Position
<1>6. p.cost = price * units /\ p.fees = Fee * units /\ p.long = long
  OBVIOUS
<1> HIDE DEF p
<1>7. /\ Sound(k, Leverage)
      /\ k.cash + Out(k, Leverage) = Current.cash + Out(Current, Leverage)
      /\ Free(k) = Free(Current) - p.fees - Funding(p.cost, Leverage)
      /\ OpenCount(k) = OpenCount(Current) + 1
      /\ (Longs(Current) /\ p.long => Longs(k))
  <2>1. k = Opened(Current, p, Leverage)
    OBVIOUS
  <2>2. Leverage \in Nat /\ Sound(Current, Leverage)
    BY <1>2
  <2> HIDE DEF k
  <2>3. QED BY <1>5, <2>1, <2>2, OpeningPays
<1> HIDE DEF k
<1>8. LongInCash /\ Leverage = 0 => long
  BY <1>3 DEF LongInCash
<1>9. /\ Current.cash \in Int /\ Out(Current, Leverage) \in Int /\ OpenCount(Current) \in Int
      /\ TotalLocked(Current) \in Int
  BY <1>2, TotalsAreNumbers DEF Sound
<1>10. Keeps(k, 0)
  <2>1. MaxPositions > 0 /\ ~Hedging /\ ~Adopts =>
          OpenCount(k) = 1 /\ OpenCount(Current) = 0 /\ step.external < MaxPositions
    BY <1>1, <1>7, <1>9 DEF MayOpen
  <2>2. k.cash + Out(k, Leverage) = Current.cash + Out(Current, Leverage) + 0
    BY <1>7, <1>9
  <2>3. QED BY <1>2, <1>6, <1>7, <1>8, <2>1, <2>2 DEF Keeps
<1>11. LedgerInv'
  BY <1>1, <1>10, MovingKeepsLedger
<1>12. Current' = k /\ Stepping'
  BY <1>1, <1>2 DEF Moved, Current, HaltInv, Shapes, Stepping
<1>13. Funding(price * units, Leverage) \in Int /\ Free(Current) \in Int
  BY <1>2, <1>4, <1>9, InitialIsNat DEF Funding, Free
<1>14. QED BY <1>6, <1>7, <1>11, <1>12, <1>13

\* An order for units that fit leaves something free, or nothing.
LEMMA OrderedPays ==
  ASSUME HaltInv, LedgerInv, NEW long \in Sides, NEW price \in Prices, NEW units \in OpenUnits,
         OpenOrdered(long, price, units)
  PROVE  LedgerInv' /\ Stepping' /\ Free(Current') >= 0
<1>1. Stepping /\ Open(long, price, units)
  BY EntriesOpen
<1>2. /\ LedgerInv' /\ Stepping'
      /\ Free(Current') = Free(Current) - Fee * units - Funding(price * units, Leverage)
      /\ Free(Current) \in Int /\ Funding(price * units, Leverage) \in Int
  BY <1>1, OpenKeeps
<1>3. Funding(price * units, Leverage) + Fee * units <= Free(Current)
  BY DEF OpenOrdered, Fits
<1>4. Fee * units \in Int
  BY <1>1, CurrentIsSound, SettingsHaveTypes DEF LedgerInv, Typed
<1> HIDE DEF HaltInv, LedgerInv
<1>5. QED BY <1>2, <1>3, <1>4

\* An entry sized by what is free is short of what the sizing left out, at most.
LEMMA SizedPays ==
  ASSUME HaltInv, LedgerInv, NEW long \in Sides, NEW price \in Prices, NEW units \in OpenUnits,
         OpenSized(long, price, units)
  PROVE  LedgerInv' /\ Stepping' /\ Free(Current') >= -(Unreckoned * units)
<1>1. Stepping /\ Open(long, price, units)
  BY EntriesOpen
<1>2. /\ LedgerInv' /\ Stepping'
      /\ Free(Current') = Free(Current) - Fee * units - Funding(price * units, Leverage)
      /\ Free(Current) \in Int /\ Funding(price * units, Leverage) \in Int
  BY <1>1, OpenKeeps
<1>3. Funding(price * units, Leverage) + SizedFee * units <= Free(Current)
  BY DEF OpenSized, Fits
<1>4. Fee \in Nat /\ SizedFee \in Nat /\ units \in Nat
  BY SettingsHaveTypes DEF LedgerInv, Typed
<1>5. SizedFee * units - Fee * units >= -(Unreckoned * units)
  <2>1. CASE Fee > SizedFee
    <3>1. Unreckoned = Fee - SizedFee
      BY <2>1 DEF Unreckoned
    <3>2. (Fee - SizedFee) * units = Fee * units - SizedFee * units
      BY <1>4
    <3>3. QED BY <1>4, <3>1, <3>2
  <2>2. CASE ~(Fee > SizedFee)
    <3>1. Unreckoned * units = 0
      BY <1>4, <2>2 DEF Unreckoned
    <3>2. PICK d \in Nat : SizedFee = Fee + d
      <4>1. SizedFee - Fee \in Nat /\ SizedFee = Fee + (SizedFee - Fee)
        BY <1>4, <2>2
      <4>2. QED BY <4>1
    <3>3. SizedFee * units = Fee * units + d * units /\ d * units \in Nat
      BY <1>4, <3>2
    <3>4. Fee * units \in Int
      BY <1>4
    <3>5. QED BY <3>1, <3>3, <3>4
  <2>3. QED BY <2>1, <2>2
<1>6. Fee * units \in Int /\ SizedFee * units \in Int /\ Unreckoned * units \in Int
  BY <1>4 DEF Unreckoned
<1> HIDE DEF HaltInv, LedgerInv
<1>7. QED BY <1>2, <1>3, <1>5, <1>6

\* So does the next slice of an entry.
LEMMA AddKeeps ==
  ASSUME HaltInv, LedgerInv, Stepping, NEW id \in DOMAIN Current.positions,
         NEW price \in Prices, Add(id, price)
  PROVE  /\ LedgerInv'
         /\ Stepping' /\ Free(Current') >= 0
<1> DEFINE k == Added(Current, id, price, 1, Fee, Leverage)
<1>1. Fits(price, Fee) /\ Moved(k, 0)
  BY DEF Add
<1>2. /\ Sound(Current, Leverage) /\ Leverage \in Nat /\ Fee \in Nat /\ price \in Nat
      /\ (LongInCash => (Leverage = 0 => Longs(Current))) /\ step.at \in Instruments
      /\ Current = kernels[step.at]
  BY CurrentIsSound
<1>3. /\ Sound(k, Leverage)
      /\ k.cash + Out(k, Leverage) = Current.cash + Out(Current, Leverage)
      /\ Free(k) = Free(Current) - Fee - Funding(price, Leverage)
      /\ OpenCount(k) = OpenCount(Current)
      /\ (Longs(Current) => Longs(k))
  BY <1>2, AddingPays
<1> HIDE DEF k
<1>4. /\ Current.cash \in Int /\ Out(Current, Leverage) \in Int /\ OpenCount(Current) \in Int
      /\ TotalLocked(Current) \in Int
  BY <1>2, TotalsAreNumbers DEF Sound
<1>5. Keeps(k, 0)
  <2>1. OpenCount(k) <= OpenCount(Current)
    BY <1>3, <1>4
  <2>2. k.cash + Out(k, Leverage) = Current.cash + Out(Current, Leverage) + 0
    BY <1>3, <1>4
  <2>3. QED BY <1>2, <1>3, <2>1, <2>2 DEF Keeps
<1>6. LedgerInv'
  BY <1>1, <1>5, MovingKeepsLedger
<1>7. Current' = k /\ Stepping'
  BY <1>1, <1>2 DEF Moved, Current, HaltInv, Shapes, Stepping
<1>8. Free(k) >= 0
  <2>1. Funding(price, Leverage) + Fee <= Free(Current)
    BY <1>1 DEF Fits
  <2>2. Funding(price, Leverage) \in Int
    BY <1>2, InitialIsNat DEF Funding
  <2>3. Free(Current) \in Int
    BY <1>4 DEF Free
  <2>4. QED BY <1>2, <1>3, <2>1, <2>2, <2>3
<1>9. QED BY <1>6, <1>7, <1>8

\* Closing does, and nothing grows by it.
LEMMA CloseKeeps ==
  ASSUME HaltInv, LedgerInv, Stepping, NEW id \in DOMAIN Current.positions,
         NEW price \in Prices, Close(id, price)
  PROVE  /\ LedgerInv'
         /\ \A i \in Instruments : UnitsAt(kernels'[i]) <= UnitsAt(kernels[i])
<1> DEFINE pnl == Pnl(Current.positions[id], price, Fee * Current.positions[id].units)
           k == Closed(Current, id, price, Fee, Leverage)
<1>1. Moved(k, pnl)
  BY DEF Close
<1>2. /\ Sound(Current, Leverage) /\ Leverage \in Nat /\ Fee \in Nat /\ price \in Nat
      /\ (LongInCash => (Leverage = 0 => Longs(Current))) /\ step.at \in Instruments
      /\ Current = kernels[step.at]
  BY CurrentIsSound
<1>3. /\ Sound(k, Leverage) /\ pnl \in Int
      /\ ((Leverage = 0 => Longs(Current)) =>
            k.cash + Out(k, Leverage) = Current.cash + Out(Current, Leverage) + pnl)
      /\ OpenCount(k) <= OpenCount(Current) /\ UnitsAt(k) <= UnitsAt(Current)
      /\ (Longs(Current) => Longs(k))
  BY <1>2, ClosingReturns
<1> HIDE DEF k, pnl
<1>4. Keeps(k, pnl)
  BY <1>2, <1>3 DEF Keeps
<1>5. LedgerInv'
  BY <1>1, <1>4, MovingKeepsLedger
<1>6. \A i \in Instruments : UnitsAt(kernels'[i]) <= UnitsAt(kernels[i])
  <2>1. \A i \in Instruments : UnitsAt(kernels[i]) \in Int
    BY <1>2, TotalsAreNumbers DEF LedgerInv, Books
  <2>2. /\ kernels'[step.at] = k
        /\ \A i \in Instruments : i # step.at => kernels'[i] = kernels[i]
    BY <1>1, <1>2 DEF Moved, HaltInv, Shapes
  <2>3. QED BY <1>2, <1>3, <2>1, <2>2
<1>7. QED BY <1>5, <1>6

\* So does reducing.
LEMMA ReduceKeeps ==
  ASSUME HaltInv, LedgerInv, Stepping, NEW id \in DOMAIN Current.positions,
         NEW price \in Prices, Reduce(id, price)
  PROVE  /\ LedgerInv'
         /\ \A i \in Instruments : UnitsAt(kernels'[i]) <= UnitsAt(kernels[i])
<1> DEFINE pnl == Pnl(Slice(Current.positions[id], 1), price, Fee)
           k == Reduced(Current, id, 1, price, Fee, Leverage)
<1>1. Moved(k, pnl) /\ Current.positions[id].units > 1
  BY DEF Reduce
<1>2. /\ Sound(Current, Leverage) /\ Leverage \in Nat /\ Fee \in Nat /\ price \in Nat
      /\ (LongInCash => (Leverage = 0 => Longs(Current))) /\ step.at \in Instruments
      /\ Current = kernels[step.at]
  BY CurrentIsSound
<1>3. /\ Sound(k, Leverage) /\ pnl \in Int
      /\ ((Leverage = 0 => Longs(Current)) =>
            k.cash + Out(k, Leverage) = Current.cash + Out(Current, Leverage) + pnl)
      /\ OpenCount(k) <= OpenCount(Current) /\ UnitsAt(k) <= UnitsAt(Current)
      /\ (Longs(Current) => Longs(k))
  BY <1>1, <1>2, ReducingReturns
<1> HIDE DEF k, pnl
<1>4. Keeps(k, pnl)
  BY <1>2, <1>3 DEF Keeps
<1>5. LedgerInv'
  BY <1>1, <1>4, MovingKeepsLedger
<1>6. \A i \in Instruments : UnitsAt(kernels'[i]) <= UnitsAt(kernels[i])
  <2>1. \A i \in Instruments : UnitsAt(kernels[i]) \in Int
    BY <1>2, TotalsAreNumbers DEF LedgerInv, Books
  <2>2. /\ kernels'[step.at] = k
        /\ \A i \in Instruments : i # step.at => kernels'[i] = kernels[i]
    BY <1>1, <1>2 DEF Moved, HaltInv, Shapes
  <2>3. QED BY <1>2, <1>3, <2>1, <2>2
<1>7. QED BY <1>5, <1>6

\* A kernel's own margin call sells its holdings, or only halts it.
LEMMA MarginCheckKeepsLedger ==
  ASSUME HaltInv, LedgerInv, MarginCheck
  PROVE  /\ LedgerInv'
         /\ \A i \in Instruments : UnitsAt(kernels'[i]) <= UnitsAt(kernels[i])
<1> DEFINE breach   == /\ OpenCount(Current) > 0 /\ ~Current.called
                       /\ Maintenance(Current, step.close, Leverage) > 0
                       /\ Current.cash + Unrealized(Current, step.close)
                            < Maintenance(Current, step.close, Leverage)
           sells == breach /\ Liquidates
           sold  == [Emptied(Current) EXCEPT
                       !.cash = @ + Proceeds(Current, step.close, Fee, Leverage)]
           after == IF sells THEN sold ELSE Current
           k     == [after EXCEPT !.called = after.called \/ breach]
           pnl   == IF sells THEN Profits(Current, step.close, Fee) ELSE 0
<1>1. /\ step.phase = "exits"
      /\ kernels' = [kernels EXCEPT ![step.at] = k]
      /\ step' = [step EXCEPT !.phase = "orders", !.called = breach, !.pnl = @ + pnl]
      /\ UNCHANGED <<run, account, lastClose, booked, samples, moves>>
  BY DEF MarginCheck
<1>2. Stepping
  BY <1>1 DEF Stepping
<1>3. /\ Sound(Current, Leverage) /\ Leverage \in Nat /\ Fee \in Nat /\ step.close \in Nat
      /\ (LongInCash => (Leverage = 0 => Longs(Current))) /\ step.at \in Instruments
      /\ Current = kernels[step.at] /\ IsKernel(Current)
  <2>1. step.close \in Prices
    BY <1>2 DEF LedgerInv, Typed
  <2>2. QED BY <1>2, <2>1, CurrentIsSound DEF Sound
<1>4. breach \in BOOLEAN /\ sells \in BOOLEAN
  <2>1. Liquidates \in BOOLEAN
    BY ConfigAssumption DEF LedgerInv, Typed, Liquidates, Config
  <2>2. QED BY <2>1
<1> HIDE DEF breach
<1>5. /\ Proceeds(Current, step.close, Fee, Leverage) \in Int
      /\ Profits(Current, step.close, Fee) \in Int
      /\ (Leverage = 0 => Longs(Current)) =>
           Proceeds(Current, step.close, Fee, Leverage)
             = Profits(Current, step.close, Fee) + Out(Current, Leverage)
  BY <1>3, ProceedsReturn
<1>6. Current.cash \in Int
  BY <1>3 DEF Sound
<1>7. ASSUME sells PROVE Keeps(k, pnl) /\ UnitsAt(k) <= UnitsAt(Current)
  <2>1. /\ SameHoldings(k, Emptied(Current)) /\ IsKernel(k)
        /\ k.cash = Current.cash + Proceeds(Current, step.close, Fee, Leverage)
        /\ pnl = Profits(Current, step.close, Fee)
    BY <1>3, <1>4, <1>7 DEF SameHoldings, Emptied, IsKernel
  <2> HIDE DEF k, pnl, sells
  <2>2. k.cash \in Int
    BY <1>5, <1>6, <2>1
  <2>3. /\ Sound(k, Leverage) /\ Longs(k)
        /\ Out(k, Leverage) = 0 /\ OpenCount(k) = 0 /\ UnitsAt(k) = 0
    BY <1>3, <2>1, <2>2, EmptyingReturns
  <2>4. Out(Current, Leverage) \in Int /\ OpenCount(Current) \in Nat /\ UnitsAt(Current) \in Nat
    BY <1>3, TotalsAreNumbers
  <2>5. Keeps(k, pnl) /\ UnitsAt(k) <= UnitsAt(Current)
    BY <1>3, <1>5, <1>6, <2>1, <2>3, <2>4 DEF Keeps
  <2>6. QED BY <2>5
<1>8. ASSUME ~sells PROVE Keeps(k, pnl) /\ UnitsAt(k) <= UnitsAt(Current)
  <2>1. /\ SameHoldings(k, Current) /\ IsKernel(k) /\ k.cash = Current.cash /\ pnl = 0
    BY <1>3, <1>4, <1>8 DEF SameHoldings, IsKernel
  <2> HIDE DEF k, pnl, sells
  <2>2. /\ Sound(k, Leverage) /\ (Longs(k) <=> Longs(Current))
        /\ Out(k, Leverage) = Out(Current, Leverage)
        /\ OpenCount(k) = OpenCount(Current) /\ UnitsAt(k) = UnitsAt(Current)
    BY <1>3, <1>6, <2>1, HoldingsTell
  <2>3. Out(Current, Leverage) \in Int /\ OpenCount(Current) \in Nat /\ UnitsAt(Current) \in Nat
    BY <1>3, TotalsAreNumbers
  <2>4. Keeps(k, pnl) /\ UnitsAt(k) <= UnitsAt(Current)
    BY <1>3, <1>6, <2>1, <2>2, <2>3 DEF Keeps
  <2>5. QED BY <2>4
<1> HIDE DEF k, pnl, sells
<1>9. Keeps(k, pnl) /\ UnitsAt(k) <= UnitsAt(Current)
  BY <1>4, <1>7, <1>8
<1>10. /\ step'.at = step.at /\ step'.close = step.close /\ step'.injected = step.injected
       /\ step'.locked = step.locked /\ step'.external = step.external
       /\ step'.pnl = step.pnl + pnl /\ Stepping'
  BY <1>1, <1>2 DEF HaltInv, Shapes, Stepping
<1>11. moves' \in 0..MaxMoves
  BY <1>1 DEF LedgerInv, Typed
<1>12. LedgerInv'
  <2> HIDE DEF HaltInv, LedgerInv
  <2> QED BY <1>1, <1>2, <1>9, <1>10, <1>11, KernelMoves DEF Keeps
<1>13. \A i \in Instruments : UnitsAt(kernels'[i]) <= UnitsAt(kernels[i])
  <2>1. \A i \in Instruments : UnitsAt(kernels[i]) \in Int
    BY <1>3, TotalsAreNumbers DEF LedgerInv, Books
  <2>2. /\ kernels'[step.at] = k
        /\ \A i \in Instruments : i # step.at => kernels'[i] = kernels[i]
    BY <1>1, <1>3 DEF HaltInv, Shapes
  <2>3. QED BY <1>3, <1>9, <2>1, <2>2
<1>14. QED BY <1>12, <1>13

\* A step begins by lending its kernel what the others leave free.
LEMMA BeginKeepsLedger ==
  ASSUME HaltInv, LedgerInv, NEW i \in Instruments, NEW close \in Prices, BeginStep(i, close)
  PROVE  /\ LedgerInv'
         /\ \A j \in Instruments : SameHoldings(kernels'[j], kernels[j])
<1> DEFINE c == Lent(i)
           k == [kernels[i] EXCEPT !.cash = c]
<1>1. /\ step.phase = "idle" /\ samples < MaxEvents
      /\ kernels' = [kernels EXCEPT ![i] = k]
      /\ step'.phase = "exits" /\ step'.at = i /\ step'.close = close /\ step'.injected = c
      /\ step'.locked = TotalLocked(kernels[i]) /\ step'.external = PortfolioCount
      /\ step'.pnl = 0
      /\ UNCHANGED <<run, account, lastClose, booked, samples, moves>>
  BY DEF BeginStep, Between, ExternalCount
<1>2. /\ Leverage \in Nat /\ MaxPositions \in Nat /\ Capital \in Nat /\ DOMAIN kernels = Instruments
      /\ \A j \in Instruments : Sound(kernels[j], Leverage) /\ kernels[j].cash = 0
      /\ ~Stepping /\ Stepping'
  BY <1>1, SettingsHaveTypes DEF LedgerInv, Typed, Books, HaltInv, Shapes, Stepping
<1>3. /\ Leverage' = Leverage /\ Capital' = Capital /\ MaxPositions' = MaxPositions
      /\ Hedging' = Hedging /\ Adopts' = Adopts /\ MaxEvents' = MaxEvents
      /\ MaxMoves' = MaxMoves /\ (LongInCash' <=> LongInCash)
  BY <1>1, SettingsStay
<1>4. /\ account.balance \in Int /\ account.locked \in Int
      /\ \A j \in Instruments : TotalLocked(kernels[j]) \in Int /\ OpenCount(kernels[j]) \in Nat
      /\ c \in Int /\ c = account.balance - (account.locked - TotalLocked(kernels[i]))
      /\ AllLocked(kernels) \in Int /\ AllOut(kernels, Leverage) \in Int
      /\ AllOpen(kernels) \in Int /\ PortfolioCount = AllOpen(kernels)
  <2>1. account.balance \in Int /\ account.locked \in Int
    BY DEF LedgerInv, Typed
  <2>2. \A j \in Instruments : TotalLocked(kernels[j]) \in Int /\ OpenCount(kernels[j]) \in Nat
    BY <1>2, TotalsAreNumbers
  <2>3. /\ AllLocked(kernels) \in Int /\ AllOut(kernels, Leverage) \in Int
        /\ AllOpen(kernels) \in Int /\ PortfolioCount = AllOpen(kernels)
    BY <1>2, PortfolioTotals DEF PortfolioCount, AllOpen
  <2>4. QED BY <2>1, <2>2, <2>3 DEF Lent
<1> HIDE DEF c
<1>5. /\ kernels'[i] = k /\ k.cash = c /\ SameHoldings(k, kernels[i]) /\ IsKernel(k)
      /\ \A j \in Instruments \ {i} : kernels'[j] = kernels[j]
  BY <1>1, <1>2 DEF SameHoldings, IsKernel, Sound
<1> HIDE DEF k
<1>6. \A j \in Instruments :
        /\ SameHoldings(kernels'[j], kernels[j])
        /\ IsKernel(kernels'[j]) /\ kernels'[j].cash \in Int
  BY <1>2, <1>4, <1>5 DEF SameHoldings, Sound
<1>7. \A j \in Instruments :
        /\ Sound(kernels'[j], Leverage) /\ (Longs(kernels'[j]) <=> Longs(kernels[j]))
        /\ TotalLocked(kernels'[j]) = TotalLocked(kernels[j])
        /\ Out(kernels'[j], Leverage) = Out(kernels[j], Leverage)
        /\ OpenCount(kernels'[j]) = OpenCount(kernels[j])
  BY <1>2, <1>6, HoldingsTell
<1>8. /\ AllLocked(kernels') = AllLocked(kernels)
      /\ AllOut(kernels', Leverage) = AllOut(kernels, Leverage)
      /\ AllOpen(kernels') = AllOpen(kernels)
  <2>1. /\ [j \in Instruments |-> TotalLocked(kernels'[j])] = [j \in Instruments |-> TotalLocked(kernels[j])]
        /\ [j \in Instruments |-> Out(kernels'[j], Leverage)] = [j \in Instruments |-> Out(kernels[j], Leverage)]
        /\ [j \in Instruments |-> OpenCount(kernels'[j])] = [j \in Instruments |-> OpenCount(kernels[j])]
    BY <1>7
  <2>2. QED BY <2>1 DEF AllLocked, AllOut, AllOpen
<1>9. Current' = k
  BY <1>1, <1>5 DEF Current
<1>10. Typed'
  BY <1>1, <1>3, <1>4 DEF LedgerInv, Typed
<1>11. Books'
  <2>1. \A j \in Instruments : Sound(kernels'[j], Leverage')
    BY <1>3, <1>7
  <2>2. LongInCash' => (Leverage' = 0 => \A j \in Instruments : Longs(kernels'[j]))
    BY <1>3, <1>7 DEF LedgerInv, Books
  <2>3. \A j \in Instruments : (Stepping' => j # step'.at) => kernels'[j].cash = 0
    BY <1>1, <1>2, <1>5
  <2>4. QED BY <2>1, <2>2, <2>3 DEF Books
<1>12. TotalLocked(k) = TotalLocked(kernels[i]) /\ OpenCount(k) = OpenCount(kernels[i])
  BY <1>5, <1>7
<1>13. Lending'
  <2>1. account.locked = AllLocked(kernels)
    BY <1>2 DEF LedgerInv, Lending
  <2>2. /\ step'.injected = account'.balance - (account'.locked - step'.locked)
        /\ account'.locked - step'.locked + TotalLocked(k) = AllLocked(kernels')
    BY <1>1, <1>4, <1>8, <1>12, <2>1
  <2>3. QED BY <1>2, <1>9, <2>2 DEF Lending, AllLocked
<1>14. Accounted'
  <2> SUFFICES ASSUME LongInCash
               PROVE  account'.balance + (Current'.cash - step'.injected - step'.pnl)
                        = Capital' + booked' - AllOut(kernels', Leverage')
    BY <1>2, <1>3 DEF Accounted, AllOut, Out, EntryFees, Cost
  <2>1. account.balance + 0 = Capital + booked - AllOut(kernels, Leverage)
    BY <1>2 DEF LedgerInv, Accounted
  <2>2. booked \in Int
    BY DEF LedgerInv, Typed
  <2>3. account'.balance + (k.cash - c - 0) = Capital + booked - AllOut(kernels', Leverage)
    <3>1. k.cash - c - 0 = 0
      BY <1>4, <1>5
    <3>2. account'.balance = account.balance
      BY <1>1
    <3>3. QED BY <1>8, <2>1, <3>1, <3>2
  <2>4. QED BY <1>1, <1>3, <1>9, <2>3
<1>15. Counted'
  <2> SUFFICES ASSUME MaxPositions > 0 /\ ~Hedging /\ ~Adopts
               PROVE  /\ AllOpen(kernels') <= MaxPositions
                      /\ AllOpen(kernels') - OpenCount(k) <= step'.external
    BY <1>3, <1>9 DEF Counted, AllOpen
  <2>1. AllOpen(kernels) <= MaxPositions
    BY DEF LedgerInv, Counted
  <2>2. OpenCount(k) \in Nat
    BY <1>4, <1>12
  <2>3. QED BY <1>1, <1>4, <1>8, <2>1, <2>2
<1>16. QED BY <1>6, <1>10, <1>11, <1>13, <1>14, <1>15 DEF LedgerInv

\* A holding adopted at the start takes its cost out of the balance, or its lock.
LEMMA AdoptKeepsLedger ==
  ASSUME HaltInv, LedgerInv, NEW i \in Instruments, NEW price \in Prices,
         NEW units \in OpenUnits, Adopt(i, price, units)
  PROVE  LedgerInv'
<1> DEFINE c    == Lent(i)
           lent == [kernels[i] EXCEPT !.cash = c]
           held == [long |-> TRUE, units |-> units, cost |-> price * units, fees |-> 0]
           k    == Opened(lent, held, Leverage)
           back == [k EXCEPT !.cash = 0]
<1>1. /\ step.phase = "idle" /\ Adopts /\ moves < MaxMoves /\ moves' = moves + 1
      /\ kernels' = [kernels EXCEPT ![i] = back]
      /\ account' = Drained(account, k, lent.cash, TotalLocked(lent))
      /\ UNCHANGED <<run, step, lastClose, booked, samples>>
  BY DEF Adopt, Between
<1>2. /\ Leverage \in Nat /\ Capital \in Nat /\ DOMAIN kernels = Instruments
      /\ \A j \in Instruments : Sound(kernels[j], Leverage) /\ kernels[j].cash = 0
      /\ ~Stepping /\ ~Stepping' /\ units \in Nat \ {0} /\ price \in Nat /\ MaxMoves \in Nat
  BY <1>1, SettingsHaveTypes, PriceAssumption DEF LedgerInv, Typed, Books, HaltInv, Shapes, Stepping
<1>3. /\ Leverage' = Leverage /\ Capital' = Capital /\ MaxPositions' = MaxPositions
      /\ Hedging' = Hedging /\ Adopts' = Adopts /\ MaxEvents' = MaxEvents
      /\ MaxMoves' = MaxMoves /\ (LongInCash' <=> LongInCash)
  BY <1>1, SettingsStay
<1>4. /\ account \in [balance: Int, locked: Nat, halted: BOOLEAN] /\ booked \in Int
      /\ TotalLocked(kernels[i]) \in Int /\ c \in Int
  <2>1. account.balance \in Int /\ account.locked \in Int
        /\ account \in [balance: Int, locked: Nat, halted: BOOLEAN] /\ booked \in Int
    BY DEF LedgerInv, Typed
  <2>2. TotalLocked(kernels[i]) \in Int
    BY <1>2, TotalsAreNumbers
  <2>3. QED BY <2>1, <2>2 DEF Lent
<1> HIDE DEF c
<1>5. price * units \in Nat
  BY <1>2
<1>6. held \in Position /\ held.long /\ held.fees = 0 /\ held.cost = price * units
  BY <1>2, <1>5 DEF Position
<1>7. SameHoldings(lent, kernels[i]) /\ IsKernel(lent) /\ lent.cash = c
  BY <1>2 DEF SameHoldings, IsKernel, Sound
<1> HIDE DEF lent, held
<1>8. /\ Sound(lent, Leverage) /\ (Longs(lent) <=> Longs(kernels[i]))
      /\ TotalLocked(lent) = TotalLocked(kernels[i])
      /\ Out(lent, Leverage) = Out(kernels[i], Leverage)
  BY <1>2, <1>4, <1>7, HoldingsTell
<1>9. /\ Sound(k, Leverage)
      /\ k.cash + Out(k, Leverage) = lent.cash + Out(lent, Leverage)
      /\ (Longs(lent) /\ held.long => Longs(k))
  BY <1>2, <1>6, <1>8, OpeningPays
<1> HIDE DEF k
<1>10. SameHoldings(back, k) /\ IsKernel(back) /\ back.cash = 0
  BY <1>9 DEF SameHoldings, IsKernel, Sound
<1> HIDE DEF back
<1>11. /\ Sound(back, Leverage) /\ (Longs(back) <=> Longs(k))
       /\ TotalLocked(back) = TotalLocked(k) /\ Out(back, Leverage) = Out(k, Leverage)
  BY <1>2, <1>9, <1>10, HoldingsTell
<1>12. /\ kernels'[i] = back
       /\ \A j \in Instruments \ {i} : kernels'[j] = kernels[j]
  BY <1>1, <1>2
<1>13. \A j \in Instruments : Sound(kernels[j], Leverage) /\ Sound(kernels'[j], Leverage)
  BY <1>2, <1>11, <1>12
<1>14. /\ AllLocked(kernels') = AllLocked(kernels) + (TotalLocked(back) - TotalLocked(kernels[i]))
       /\ AllOut(kernels', Leverage) = AllOut(kernels, Leverage) + (Out(back, Leverage) - Out(kernels[i], Leverage))
  <2>1. PICK ns : ns = kernels'
    OBVIOUS
  <2>2. PICK ks : ks = kernels
    OBVIOUS
  <2>3. PICK lev : lev = Leverage
    OBVIOUS
  <2>4. /\ ns[i] = back /\ lev \in Nat
        /\ \A j \in Instruments : Sound(ks[j], lev) /\ Sound(ns[j], lev)
        /\ \A j \in Instruments \ {i} :
             /\ TotalLocked(ns[j]) = TotalLocked(ks[j]) /\ Out(ns[j], lev) = Out(ks[j], lev)
             /\ OpenCount(ns[j]) = OpenCount(ks[j])
    BY <1>2, <1>12, <1>13, <2>1, <2>2, <2>3
  <2>5. /\ AllLocked(ns) = AllLocked(ks) + (TotalLocked(ns[i]) - TotalLocked(ks[i]))
        /\ AllOut(ns, lev) = AllOut(ks, lev) + (Out(ns[i], lev) - Out(ks[i], lev))
    BY <2>4, OneKernelMoves
  <2>6. QED BY <2>1, <2>2, <2>3, <2>4, <2>5
<1>15. /\ AllLocked(kernels) \in Int /\ AllOut(kernels, Leverage) \in Int
       /\ AllLocked(kernels') \in Nat
       /\ TotalLocked(k) \in Int /\ Out(k, Leverage) \in Int
       /\ Out(kernels[i], Leverage) \in Int /\ k.cash \in Int
  <2>1. /\ AllLocked(kernels) \in Int /\ AllOut(kernels, Leverage) \in Int
        /\ AllLocked(kernels') \in Nat
    BY <1>2, <1>13, PortfolioTotals
  <2>2. /\ TotalLocked(k) \in Int /\ Out(k, Leverage) \in Int
        /\ Out(kernels[i], Leverage) \in Int
    BY <1>2, <1>9, TotalsAreNumbers
  <2>3. QED BY <1>9, <2>1, <2>2 DEF Sound
<1>16. /\ account'.balance = account.balance + (k.cash - c)
       /\ account'.locked = account.locked + (TotalLocked(k) - TotalLocked(kernels[i]))
       /\ account' = [account EXCEPT !.balance = account'.balance, !.locked = account'.locked]
  BY <1>1, <1>4, <1>7, <1>8 DEF Drained, Reconciled
<1>17. account'.locked = AllLocked(kernels') /\ account'.balance \in Int
  <2>1. account.locked = AllLocked(kernels)
    BY <1>2 DEF LedgerInv, Lending
  <2>2. account.balance \in Int
    BY <1>4
  <2>3. QED BY <1>4, <1>11, <1>14, <1>15, <1>16, <2>1, <2>2
<1>18. Typed'
  <2>1. account' \in [balance: Int, locked: Nat, halted: BOOLEAN]
    BY <1>4, <1>15, <1>16, <1>17
  <2>2. moves' \in 0..MaxMoves
    BY <1>1, <1>2 DEF LedgerInv, Typed
  <2>3. QED BY <1>1, <1>2, <1>3, <2>1, <2>2 DEF LedgerInv, Typed
<1>19. Books'
  <2>1. \A j \in Instruments : Sound(kernels'[j], Leverage')
    BY <1>3, <1>13
  <2>2. LongInCash' => (Leverage' = 0 => \A j \in Instruments : Longs(kernels'[j]))
    BY <1>3, <1>6, <1>8, <1>9, <1>11, <1>12 DEF LedgerInv, Books
  <2>3. \A j \in Instruments : kernels'[j].cash = 0
    BY <1>2, <1>10, <1>12
  <2>4. QED BY <2>1, <2>2, <2>3 DEF Books
<1>20. Lending'
  BY <1>2, <1>17 DEF Lending, AllLocked
<1>21. Accounted'
  <2> SUFFICES ASSUME LongInCash
               PROVE  account'.balance + 0 = Capital' + booked' - AllOut(kernels', Leverage')
    BY <1>2, <1>3 DEF Accounted, AllOut, Out, EntryFees, Cost
  <2>1. account.balance + 0 = Capital + booked - AllOut(kernels, Leverage)
    BY <1>2 DEF LedgerInv, Accounted
  <2>2. k.cash - c = Out(kernels[i], Leverage) - Out(k, Leverage)
    BY <1>4, <1>7, <1>8, <1>9, <1>15
  <2>3. account'.balance + 0 = Capital + booked - AllOut(kernels', Leverage)
    <3>1. account.balance \in Int
      BY <1>4
    <3>2. QED BY <1>2, <1>4, <1>11, <1>14, <1>15, <1>16, <2>1, <2>2, <3>1
  <2>4. QED BY <1>1, <1>3, <2>3
<1>22. Counted'
  BY <1>1, <1>3 DEF Counted
<1>23. QED BY <1>18, <1>19, <1>20, <1>21, <1>22 DEF LedgerInv

\* What is sold of the portfolio at its closes, after the step in progress, if there
\* is one, has been drained.
Settles(closes, fee) ==
  /\ Stepping => step.at \in Instruments
  /\ \A i \in Instruments : IsKernel(kernels'[i]) /\ kernels'[i].cash = 0
  /\ \A i \in Printed(closes) : SameHoldings(kernels'[i], Emptied(kernels[i]))
  /\ \A i \in Instruments \ Printed(closes) : SameHoldings(kernels'[i], kernels[i])
  /\ account' = [balance |-> account'.balance, locked |-> account'.locked,
                 halted |-> account'.halted]
  /\ account'.halted \in BOOLEAN
  /\ account'.balance
       = account.balance + (IF Stepping THEN Current.cash - step.injected ELSE 0)
         + Gained(kernels, closes, fee)
  /\ account'.locked
       = (account.locked + (IF Stepping THEN TotalLocked(Current) - step.locked ELSE 0))
         - Freed(kernels, closes)
  /\ booked' = booked + (IF Stepping THEN step.pnl ELSE 0) + SoldProfit(kernels, closes, fee)
  /\ run' = run /\ moves' = moves /\ samples' \in 0..MaxEvents /\ ~Stepping'
  /\ lastClose' \in [Instruments -> Prices \cup {None}]

\* It leaves the books in order.
LEMMA SettlingKeeps ==
  ASSUME LedgerInv, NEW closes \in [Instruments -> Prices \cup {None}], NEW fee \in Nat,
         Settles(closes, fee)
  PROVE  LedgerInv'
<1> USE DEF Settles
<1>a. PICK gained : gained = Gained(kernels, closes, fee)
  OBVIOUS
<1>b. PICK freed : freed = Freed(kernels, closes)
  OBVIOUS
<1>c. PICK won : won = SoldProfit(kernels, closes, fee)
  OBVIOUS
<1>1. /\ Leverage \in Nat /\ Capital \in Nat /\ MaxPositions \in Nat
      /\ \A i \in Instruments : Sound(kernels[i], Leverage)
      /\ (LongInCash => (Leverage = 0 => \A i \in Instruments : Longs(kernels[i])))
  BY SettingsHaveTypes DEF LedgerInv, Typed, Books
<1>2. /\ Leverage' = Leverage /\ Capital' = Capital /\ MaxPositions' = MaxPositions
      /\ Hedging' = Hedging /\ Adopts' = Adopts /\ MaxEvents' = MaxEvents
      /\ MaxMoves' = MaxMoves /\ (LongInCash' <=> LongInCash)
  BY SettingsStay
<1>3. \A i \in Printed(closes) : i \in Instruments
  BY DEF Printed
<1>4. \A i \in Printed(closes) :
        /\ Sound(kernels'[i], Leverage) /\ Longs(kernels'[i])
        /\ TotalLocked(kernels'[i]) = 0 /\ Out(kernels'[i], Leverage) = 0
        /\ OpenCount(kernels'[i]) = 0
  <2> SUFFICES ASSUME NEW i \in Printed(closes)
               PROVE  /\ Sound(kernels'[i], Leverage) /\ Longs(kernels'[i])
                      /\ TotalLocked(kernels'[i]) = 0 /\ Out(kernels'[i], Leverage) = 0
                      /\ OpenCount(kernels'[i]) = 0
    OBVIOUS
  <2>1. /\ Sound(kernels[i], Leverage) /\ IsKernel(kernels'[i]) /\ kernels'[i].cash \in Int
        /\ SameHoldings(kernels'[i], Emptied(kernels[i]))
    BY <1>1, <1>3
  <2>2. QED BY <1>1, <2>1, EmptyingReturns
<1>5. \A i \in Instruments \ Printed(closes) :
        /\ Sound(kernels'[i], Leverage) /\ (Longs(kernels'[i]) <=> Longs(kernels[i]))
        /\ TotalLocked(kernels'[i]) = TotalLocked(kernels[i])
        /\ Out(kernels'[i], Leverage) = Out(kernels[i], Leverage)
        /\ OpenCount(kernels'[i]) = OpenCount(kernels[i])
  <2> SUFFICES ASSUME NEW i \in Instruments \ Printed(closes)
               PROVE  /\ Sound(kernels'[i], Leverage) /\ (Longs(kernels'[i]) <=> Longs(kernels[i]))
                      /\ TotalLocked(kernels'[i]) = TotalLocked(kernels[i])
                      /\ Out(kernels'[i], Leverage) = Out(kernels[i], Leverage)
                      /\ OpenCount(kernels'[i]) = OpenCount(kernels[i])
    OBVIOUS
  <2>1. /\ Sound(kernels[i], Leverage) /\ IsKernel(kernels'[i]) /\ kernels'[i].cash \in Int
        /\ SameHoldings(kernels'[i], kernels[i])
    BY <1>1
  <2>2. QED BY <1>1, <2>1, HoldingsTell
<1>6. \A i \in Instruments : Sound(kernels'[i], Leverage)
  BY <1>4, <1>5
<1>7. /\ gained \in Int /\ freed \in Int /\ won \in Int
      /\ AllLocked(kernels') = AllLocked(kernels) - freed
      /\ ((Leverage = 0 => \A i \in Instruments : Longs(kernels[i])) =>
           gained = won + AllOut(kernels, Leverage) - AllOut(kernels', Leverage))
      /\ AllOpen(kernels') <= AllOpen(kernels)
  <2>1. PICK ns : ns = kernels'
    OBVIOUS
  <2>2. PICK ks : ks = kernels
    OBVIOUS
  <2>3. PICK lev : lev = Leverage
    OBVIOUS
  <2>4. /\ lev \in Nat /\ fee \in Nat /\ closes \in [Instruments -> Prices \cup {None}]
        /\ \A i \in Instruments : Sound(ks[i], lev) /\ Sound(ns[i], lev)
        /\ \A i \in Printed(closes) :
             TotalLocked(ns[i]) = 0 /\ Out(ns[i], lev) = 0 /\ OpenCount(ns[i]) = 0
        /\ \A i \in Instruments \ Printed(closes) :
             /\ TotalLocked(ns[i]) = TotalLocked(ks[i]) /\ Out(ns[i], lev) = Out(ks[i], lev)
             /\ OpenCount(ns[i]) = OpenCount(ks[i])
    BY <1>1, <1>4, <1>5, <1>6, <2>1, <2>2, <2>3
  <2>5. /\ gained = SumFunction([i \in Printed(closes) |-> Proceeds(ks[i], closes[i], fee, lev)])
        /\ freed = SumFunction([i \in Printed(closes) |-> TotalLocked(ks[i])])
        /\ won = SumFunction([i \in Printed(closes) |-> Profits(ks[i], closes[i], fee)])
    BY <1>a, <1>b, <1>c, <2>2, <2>3 DEF Gained, Freed, SoldProfit
  <2>6. /\ gained \in Int /\ freed \in Int /\ won \in Int
        /\ AllLocked(ns) = AllLocked(ks) - freed
        /\ ((lev = 0 => \A i \in Instruments : Longs(ks[i])) =>
             gained = won + AllOut(ks, lev) - AllOut(ns, lev))
        /\ AllOpen(ns) <= AllOpen(ks)
    BY ONLY <2>4, <2>5, PartSellsOut, SMTT(90)
  <2>7. QED BY <2>1, <2>2, <2>3, <2>6
<1>8. /\ AllLocked(kernels) \in Int /\ AllOut(kernels, Leverage) \in Int /\ AllOpen(kernels) \in Int
      /\ AllLocked(kernels') \in Nat /\ AllOut(kernels', Leverage) \in Int
      /\ AllOpen(kernels') \in Int
  BY <1>1, <1>6, PortfolioTotals
<1>9. /\ account.balance \in Int /\ account.locked \in Int /\ booked \in Int
      /\ (Stepping => /\ step.injected \in Int /\ step.locked \in Int /\ step.pnl \in Int)
  BY DEF LedgerInv, Typed
<1>10. Stepping => Current.cash \in Int /\ TotalLocked(Current) \in Int
  BY <1>1, TotalsAreNumbers DEF Current, Sound
<1>11. account'.locked = AllLocked(kernels')
  <2>1. CASE Stepping
    BY <1>b, <1>7, <1>8, <1>9, <1>10, <2>1 DEF LedgerInv, Lending
  <2>2. CASE ~Stepping
    BY <1>b, <1>7, <1>8, <1>9, <2>2 DEF LedgerInv, Lending
  <2>3. QED BY <2>1, <2>2
<1>12. account'.balance \in Int /\ booked' \in Int
  BY <1>a, <1>c, <1>7, <1>9, <1>10
<1>13. Typed'
  <2>1. account' \in [balance: Int, locked: Nat, halted: BOOLEAN]
    BY <1>8, <1>11, <1>12
  <2>2. QED BY <1>2, <1>12, <2>1 DEF LedgerInv, Typed
<1>14. Books'
  <2>1. LongInCash' => (Leverage' = 0 => \A i \in Instruments : Longs(kernels'[i]))
    BY <1>1, <1>2, <1>4, <1>5
  <2>2. QED BY <1>2, <1>6, <2>1 DEF Books
<1>15. Lending'
  BY <1>11 DEF Lending, AllLocked
<1>16. Accounted'
  <2> SUFFICES ASSUME LongInCash
               PROVE  account'.balance + 0 = Capital' + booked' - AllOut(kernels', Leverage')
    BY <1>2 DEF Accounted, AllOut, Out, EntryFees, Cost
  <2>1. account.balance + (IF Stepping THEN Current.cash - step.injected - step.pnl ELSE 0)
          = Capital + booked - AllOut(kernels, Leverage)
    BY DEF LedgerInv, Accounted
  <2>2. gained = won + AllOut(kernels, Leverage) - AllOut(kernels', Leverage)
    BY <1>1, <1>7
  <2>3. account'.balance + 0 = Capital + booked' - AllOut(kernels', Leverage)
    <3>1. CASE Stepping
      <4>1. /\ account'.balance = account.balance + (Current.cash - step.injected) + gained
            /\ booked' = booked + step.pnl + won
            /\ account.balance + (Current.cash - step.injected - step.pnl)
                 = Capital + booked - AllOut(kernels, Leverage)
        BY <1>a, <1>c, <2>1, <3>1
      <4>2. /\ account.balance \in Int /\ booked \in Int
            /\ step.injected \in Int /\ step.pnl \in Int /\ Current.cash \in Int
            /\ gained \in Int /\ won \in Int /\ Capital \in Int
            /\ AllOut(kernels, Leverage) \in Int /\ AllOut(kernels', Leverage) \in Int
        BY <1>1, <1>7, <1>8, <1>9, <1>10, <3>1
      <4>3. QED BY ONLY <2>2, <4>1, <4>2
    <3>2. CASE ~Stepping
      BY <1>a, <1>c, <1>1, <1>7, <1>8, <1>9, <2>1, <2>2, <3>2
    <3>3. QED BY <3>1, <3>2
  <2>4. QED BY <1>2, <2>3
<1>17. Counted'
  <2>1. MaxPositions > 0 /\ ~Hedging /\ ~Adopts => AllOpen(kernels') <= MaxPositions
    BY <1>1, <1>7, <1>8 DEF LedgerInv, Counted
  <2>2. QED BY <1>2, <2>1 DEF Counted, AllOpen
<1>18. QED BY <1>13, <1>14, <1>15, <1>16, <1>17 DEF LedgerInv

\* And nothing has grown.
LEMMA SettlingSheds ==
  ASSUME LedgerInv, NEW closes, NEW fee, Settles(closes, fee)
  PROVE  \A i \in Instruments : UnitsAt(kernels'[i]) <= UnitsAt(kernels[i])
<1> SUFFICES ASSUME NEW i \in Instruments
             PROVE  UnitsAt(kernels'[i]) <= UnitsAt(kernels[i])
  OBVIOUS
<1>1. /\ Leverage \in Nat /\ Sound(kernels[i], Leverage)
      /\ IsKernel(kernels'[i]) /\ kernels'[i].cash \in Int
  BY SettingsHaveTypes DEF LedgerInv, Typed, Books, Settles
<1>2. UnitsAt(kernels[i]) \in Nat
  BY <1>1, TotalsAreNumbers
<1>3. CASE i \in Printed(closes)
  <2>1. SameHoldings(kernels'[i], Emptied(kernels[i]))
    BY <1>3 DEF Settles
  <2>2. UnitsAt(kernels'[i]) = 0
    BY <1>1, <2>1, EmptyingReturns
  <2>3. QED BY <1>2, <2>2
<1>4. CASE i \notin Printed(closes)
  <2>1. SameHoldings(kernels'[i], kernels[i])
    BY <1>4 DEF Settles
  <2>2. UnitsAt(kernels'[i]) = UnitsAt(kernels[i])
    BY <1>1, <2>1, HoldingsTell
  <2>3. QED BY <1>2, <2>2
<1>5. QED BY <1>3, <1>4

-----------------------------------------------------------------------------
(* The end of an event                                                     *)

\* The closes it marks the portfolio at.
ClosesNow == [lastClose EXCEPT ![step.at] = step.close]

\* The sample it takes, and whether it calls.
SampleNow == account.balance + (Current.cash - step.injected) + Marks(kernels, ClosesNow)
BreachNow ==
  /\ Leverage > 0 /\ ~account.halted /\ ~step.called
  /\ Required(kernels, ClosesNow) > 0 /\ SampleNow < Required(kernels, ClosesNow)

\* What is sold at its end, with the fee: nothing is, or everything that has a close.
SoldNow == IF BreachNow /\ Liquidates THEN ClosesNow ELSE [i \in Instruments |-> None]

\* Where nothing has a close nothing is sold.
LEMMA NothingSells ==
  ASSUME NEW ks, NEW fee
  PROVE  LET none == [i \in Instruments |-> None]
         IN  /\ Printed(none) = {}
             /\ Gained(ks, none, fee) = 0 /\ Freed(ks, none) = 0 /\ SoldProfit(ks, none, fee) = 0
<1> DEFINE none == [i \in Instruments |-> None]
<1>1. Printed(none) = {}
  BY DEF Printed
<1> HIDE DEF none
<1>2. /\ [i \in {} |-> Proceeds(ks[i], none[i], fee, Leverage)] \in [{} -> Int]
      /\ [i \in {} |-> TotalLocked(ks[i])] \in [{} -> Int]
      /\ [i \in {} |-> Profits(ks[i], none[i], fee)] \in [{} -> Int]
  OBVIOUS
<1>3. Gained(ks, none, fee) = 0 /\ Freed(ks, none) = 0 /\ SoldProfit(ks, none, fee) = 0
  BY <1>1, <1>2, SumOfNone DEF Gained, Freed, SoldProfit
<1>4. QED BY <1>1, <1>3 DEF none

\* Drained, marked and called, an event's end settles what it sells.
LEMMA EndSettles ==
  ASSUME HaltInv, LedgerInv, EndStep
  PROVE  /\ Stepping /\ step'.phase = "idle"
         /\ ClosesNow \in [Instruments -> Prices \cup {None}]
         /\ SoldNow \in [Instruments -> Prices \cup {None}]
         /\ lastClose' = ClosesNow /\ equity' = SampleNow
         /\ calls' = calls + (IF step.called THEN 1 ELSE 0) + (IF BreachNow THEN 1 ELSE 0)
         /\ \A i \in Instruments : IsKernel(kernels'[i]) /\ kernels'[i].cash = 0
         /\ \A i \in Printed(SoldNow) : SameHoldings(kernels'[i], Emptied(kernels[i]))
         /\ \A i \in Instruments \ Printed(SoldNow) : SameHoldings(kernels'[i], kernels[i])
         /\ account' = [balance |-> account'.balance, locked |-> account'.locked,
                        halted |-> account'.halted]
         /\ account'.balance = account.balance + (Current.cash - step.injected)
              + Gained(kernels, SoldNow, Fee)
         /\ account'.locked = (account.locked + (TotalLocked(Current) - step.locked))
              - Freed(kernels, SoldNow)
         /\ booked' = booked + step.pnl + SoldProfit(kernels, SoldNow, Fee)
         /\ UNCHANGED <<run, moves, finished>> /\ samples' = samples + 1
<1> DEFINE drained == Drained(account, Current, step.injected, step.locked)
           idle    == [kernels EXCEPT ![step.at].cash = 0]
           ks      == IF step.called THEN HaltAll(idle) ELSE idle
           halted  == account.halted \/ step.called
           closes  == ClosesNow
           sample  == Equity(drained, ks, closes)
           top     == IF sample > peak THEN sample ELSE peak
           breach  == Breaches(halted, ks, closes, sample)
           sells   == breach /\ Liquidates
           called  == IF breach THEN HaltAll(ks) ELSE ks
           sold    == IF sells THEN SoldOut(called, closes) ELSE called
           final   == Observe(sold, sample, top)
           tripped == /\ \A i \in Instruments : ~sold[i].riskHalted
                      /\ \E i \in Instruments : final[i].riskHalted
           purse   == IF sells THEN Settled(drained, called, closes, Fee) ELSE drained
           won     == IF sells THEN SoldProfit(called, closes, Fee) ELSE 0
<1>1. /\ account' = [purse EXCEPT !.halted = halted \/ breach \/ tripped]
      /\ kernels' = final
      /\ lastClose' = closes /\ equity' = sample
      /\ booked' = booked + step.pnl + won
      /\ calls' = calls + (IF step.called THEN 1 ELSE 0) + (IF breach THEN 1 ELSE 0)
      /\ samples' = samples + 1
      /\ step'.phase = "idle"
      /\ UNCHANGED <<run, moves, finished>>
  BY DEF EndStep, Idle, ClosesNow
<1>2. /\ step.phase = "orders" /\ Stepping /\ step.at \in Instruments /\ step.called \in BOOLEAN
      /\ account.halted \in BOOLEAN /\ DOMAIN kernels = Instruments
      /\ \A i \in Instruments : IsKernel(kernels[i])
  BY DEF EndStep, HaltInv, Shapes, Stepping
<1>3. /\ account \in [balance: Int, locked: Nat, halted: BOOLEAN]
      /\ step.close \in Prices /\ lastClose \in [Instruments -> Prices \cup {None}]
      /\ booked \in Int /\ step.pnl \in Int
      /\ \A i \in Instruments \ {step.at} : kernels[i].cash = 0
  BY <1>2 DEF LedgerInv, Typed, Books
<1>4. closes \in [Instruments -> Prices \cup {None}]
  BY <1>2, <1>3 DEF ClosesNow
<1>5. \A i \in Instruments :
        IsKernel(idle[i]) /\ idle[i].cash = 0 /\ SameHoldings(idle[i], kernels[i])
  BY <1>2, <1>3 DEF IsKernel, SameHoldings
<1> HIDE DEF idle
<1>6. \A i \in Instruments :
        IsKernel(ks[i]) /\ ks[i].cash = 0 /\ SameHoldings(ks[i], kernels[i])
  BY <1>2, <1>5 DEF HaltAll, IsKernel, SameHoldings
<1> HIDE DEF ks
<1>7. /\ Marks(ks, closes) = Marks(kernels, closes)
      /\ Required(ks, closes) = Required(kernels, closes)
  BY <1>6, MarksFollowPositions DEF SameHoldings
<1>8. /\ drained = [account EXCEPT !.balance = account.balance + (Current.cash - step.injected),
                                   !.locked = account.locked + (TotalLocked(Current) - step.locked)]
      /\ drained.balance = account.balance + (Current.cash - step.injected)
      /\ drained.locked = account.locked + (TotalLocked(Current) - step.locked)
  BY <1>3 DEF Drained, Reconciled
<1>9. sample = SampleNow
  BY <1>7, <1>8 DEF Equity, Marks, SampleNow
<1>10. breach <=> BreachNow
  BY <1>7, <1>9 DEF Breaches, BreachNow
<1> HIDE DEF sample, top, tripped
<1>11. \A i \in Instruments :
         IsKernel(called[i]) /\ called[i].cash = 0 /\ SameHoldings(called[i], kernels[i])
  <2> HIDE DEF breach
  <2> QED BY <1>6 DEF HaltAll, IsKernel, SameHoldings
<1> HIDE DEF called, breach
<1>12. /\ Gained(called, closes, Fee) = Gained(kernels, closes, Fee)
       /\ Freed(called, closes) = Freed(kernels, closes)
       /\ SoldProfit(called, closes, Fee) = SoldProfit(kernels, closes, Fee)
  BY <1>11, MarksFollowPositions DEF SameHoldings
<1> HIDE DEF drained
<1>ints. /\ account.balance + (Current.cash - step.injected) \in Int
       /\ account.locked + (TotalLocked(Current) - step.locked) \in Int
  <2>1. Current.cash \in Int /\ TotalLocked(Current) \in Nat
    BY <1>2, CurrentIsSound, TotalsAreNumbers DEF Sound
  <2>2. /\ step.injected \in Int /\ step.locked \in Int
        /\ account.balance \in Int /\ account.locked \in Int
    BY <1>2 DEF LedgerInv, Typed
  <2>3. QED BY <2>1, <2>2
<1> HIDE DEF purse, won, sold, final
<1>13. /\ purse.balance = account.balance + (Current.cash - step.injected)
                           + Gained(kernels, SoldNow, Fee)
       /\ purse.locked = (account.locked + (TotalLocked(Current) - step.locked))
                          - Freed(kernels, SoldNow)
       /\ DOMAIN purse = {"balance", "locked", "halted"}
       /\ won = SoldProfit(kernels, SoldNow, Fee)
  <2>1. CASE sells
    <3>1. SoldNow = closes
      BY <1>10, <2>1 DEF SoldNow
    <3>2. /\ purse = Reconciled(drained, Gained(kernels, closes, Fee), -Freed(kernels, closes))
          /\ won = SoldProfit(kernels, closes, Fee)
      BY <1>12, <2>1 DEF Settled, Gained, Freed, purse, won
    <3>3. Freed(kernels, closes) \in Int
      <4>1. \A i \in Instruments : TotalLocked(kernels[i]) \in Nat
        BY SettingsHaveTypes, TotalsAreNumbers DEF LedgerInv, Typed, Books
      <4>2. PICK P : P = Printed(closes)
        OBVIOUS
      <4>3. P \in SUBSET Instruments /\ IsFiniteSet(P)
        BY <4>2, InstrumentAssumption, FS_Subset DEF Printed
      <4>4. [i \in P |-> TotalLocked(kernels[i])] \in [P -> Int]
        BY <4>1, <4>3
      <4>5. QED BY <4>2, <4>3, <4>4, SumIsInt DEF Freed
    <3>4. drained.locked \in Int /\ DOMAIN drained = {"balance", "locked", "halted"}
      BY <1>3, <1>8, <1>ints
    <3>5. /\ purse.balance = drained.balance + Gained(kernels, closes, Fee)
          /\ purse.locked = drained.locked + (-Freed(kernels, closes))
          /\ DOMAIN purse = {"balance", "locked", "halted"}
      BY <3>2, <3>4 DEF Reconciled
    <3>6. drained.locked + (-Freed(kernels, closes)) = drained.locked - Freed(kernels, closes)
      <4>1. ASSUME NEW a \in Int, NEW b \in Int PROVE a + (-b) = a - b
        OBVIOUS
      <4>2. QED BY ONLY <3>3, <3>4, <4>1
    <3>7. QED BY <1>8, <3>1, <3>2, <3>5, <3>6 
  <2>2. CASE ~sells
    <3>1. SoldNow = [i \in Instruments |-> None]
      BY <1>10, <2>2 DEF SoldNow
    <3>2. /\ Gained(kernels, SoldNow, Fee) = 0 /\ Freed(kernels, SoldNow) = 0
          /\ SoldProfit(kernels, SoldNow, Fee) = 0
      BY <3>1, NothingSells
    <3>3. purse = drained /\ won = 0
      BY <2>2 DEF purse, won
    <3>4. DOMAIN drained = {"balance", "locked", "halted"}
      BY <1>3, <1>8
    <3>5. /\ purse.balance = account.balance + (Current.cash - step.injected)
          /\ purse.locked = account.locked + (TotalLocked(Current) - step.locked)
      BY <1>8, <3>3
    <3>6. /\ purse.balance = account.balance + (Current.cash - step.injected) + 0
          /\ purse.locked = (account.locked + (TotalLocked(Current) - step.locked)) - 0
      <4>1. ASSUME NEW a \in Int PROVE a + 0 = a /\ a - 0 = a
        OBVIOUS
      <4>2. QED BY ONLY <1>ints, <3>5, <4>1
    <3>7. QED BY <3>2, <3>3, <3>4, <3>6
  <2>3. QED BY <2>1, <2>2
<1>14. /\ account' = [balance |-> account'.balance, locked |-> account'.locked,
                      halted |-> account'.halted]
       /\ account'.balance = purse.balance /\ account'.locked = purse.locked
  BY <1>1, <1>13
<1>15. SoldNow \in [Instruments -> Prices \cup {None}]
  BY <1>4 DEF SoldNow
<1>16. /\ \A i \in Instruments : IsKernel(sold[i]) /\ sold[i].cash = 0
       /\ \A i \in Printed(SoldNow) : SameHoldings(sold[i], Emptied(kernels[i]))
       /\ \A i \in Instruments \ Printed(SoldNow) : SameHoldings(sold[i], kernels[i])
  <2>1. CASE sells
    <3>1. SoldNow = closes
      BY <1>10, <2>1 DEF SoldNow
    <3> HIDE DEF closes
    <3>2. sold = SoldOut(called, closes)
      BY <2>1 DEF sold
    <3>3. \A i \in Printed(closes) : i \in Instruments /\ sold[i] = Emptied(called[i])
      BY <3>2 DEF SoldOut, Printed
    <3>4. \A i \in Instruments \ Printed(closes) : sold[i] = called[i]
      BY <3>2 DEF SoldOut, Printed
    <3>5. ASSUME NEW i \in Instruments
          PROVE  /\ IsKernel(Emptied(called[i])) /\ Emptied(called[i]).cash = 0
                 /\ SameHoldings(Emptied(called[i]), Emptied(kernels[i]))
      <4>1. /\ IsKernel(called[i]) /\ called[i].cash = 0 /\ SameHoldings(called[i], kernels[i])
            /\ IsKernel(kernels[i])
        BY <1>2, <1>11
      <4>2. QED BY <4>1 DEF Emptied, SameHoldings, IsKernel
    <3>6. QED BY <1>11, <3>1, <3>3, <3>4, <3>5
  <2>2. CASE ~sells
    <3>1. SoldNow = [i \in Instruments |-> None]
      BY <1>10, <2>2 DEF SoldNow
    <3>2. Printed(SoldNow) = {}
      BY <3>1, NothingSells
    <3>3. QED BY <1>11, <2>2, <3>2 DEF sold
  <2>3. QED BY <2>1, <2>2
<1>17. \A i \in Instruments :
         IsKernel(final[i]) /\ final[i].cash = 0 /\ SameHoldings(final[i], sold[i])
  BY <1>16 DEF Observe, Trips, IsKernel, SameHoldings, final
<1>18. \A i \in Printed(SoldNow) : i \in Instruments
  BY DEF Printed
<1>19. /\ \A i \in Instruments : IsKernel(kernels'[i]) /\ kernels'[i].cash = 0
       /\ \A i \in Printed(SoldNow) : SameHoldings(kernels'[i], Emptied(kernels[i]))
       /\ \A i \in Instruments \ Printed(SoldNow) : SameHoldings(kernels'[i], kernels[i])
  BY <1>1, <1>16, <1>17, <1>18 DEF SameHoldings
<1> HIDE DEF closes
<1>20. closes = ClosesNow
  BY DEF closes
<1>21. QED
  BY <1>1, <1>2, <1>4, <1>9, <1>10, <1>13, <1>14, <1>15, <1>19, <1>20

\* The end of an event leaves the books in order, and nothing has grown.
LEMMA EndKeepsLedger ==
  ASSUME HaltInv, LedgerInv, EndStep
  PROVE  /\ LedgerInv'
         /\ \A i \in Instruments : UnitsAt(kernels'[i]) <= UnitsAt(kernels[i])
<1>1. /\ Stepping /\ step'.phase = "idle"
      /\ ClosesNow \in [Instruments -> Prices \cup {None}]
      /\ SoldNow \in [Instruments -> Prices \cup {None}]
      /\ lastClose' = ClosesNow
      /\ \A i \in Instruments : IsKernel(kernels'[i]) /\ kernels'[i].cash = 0
      /\ \A i \in Printed(SoldNow) : SameHoldings(kernels'[i], Emptied(kernels[i]))
      /\ \A i \in Instruments \ Printed(SoldNow) : SameHoldings(kernels'[i], kernels[i])
      /\ account' = [balance |-> account'.balance, locked |-> account'.locked,
                     halted |-> account'.halted]
      /\ account'.balance = account.balance + (Current.cash - step.injected)
           + Gained(kernels, SoldNow, Fee)
      /\ account'.locked = (account.locked + (TotalLocked(Current) - step.locked))
           - Freed(kernels, SoldNow)
      /\ booked' = booked + step.pnl + SoldProfit(kernels, SoldNow, Fee)
      /\ UNCHANGED <<run, moves>> /\ samples' = samples + 1
  BY EndSettles
<1>2. PICK closes : closes = SoldNow
  OBVIOUS
<1>3. PICK fee : fee = Fee
  OBVIOUS
<1>4. closes \in [Instruments -> Prices \cup {None}]
  BY <1>1, <1>2
<1>5. fee \in Nat /\ step.at \in Instruments /\ ~Stepping' /\ account'.halted \in BOOLEAN
      /\ samples' \in 0..MaxEvents
  <2>1. HaltInv'
    BY EndStepKeeps
  <2>2. samples \in 0..MaxEvents /\ samples < MaxEvents /\ MaxEvents \in Nat /\ fee \in Nat
    BY <1>1, <1>3, SettingsHaveTypes DEF LedgerInv, Typed
  <2>3. samples' \in 0..MaxEvents
    BY <1>1, <2>2
  <2>4. QED BY <1>1, <2>1, <2>2, <2>3 DEF HaltInv, Shapes, Stepping
<1>6. Settles(closes, fee)
  BY <1>1, <1>2, <1>3, <1>5 DEF Settles
<1>7. LedgerInv'
  BY <1>4, <1>5, <1>6, SettlingKeeps
<1>8. \A i \in Instruments : UnitsAt(kernels'[i]) <= UnitsAt(kernels[i])
  BY <1>6, SettlingSheds
<1>9. QED BY <1>7, <1>8

\* So does the finish, which sells at no charge.
LEMMA FinishKeepsLedger ==
  ASSUME HaltInv, LedgerInv, Finish
  PROVE  /\ LedgerInv'
         /\ \A i \in Instruments : UnitsAt(kernels'[i]) <= UnitsAt(kernels[i])
<1>1. /\ step.phase = "idle" /\ ~Stepping /\ ~Stepping'
      /\ account' = Settled(account, kernels, lastClose, 0)
      /\ kernels' = SoldOut(kernels, lastClose)
      /\ booked' = booked + SoldProfit(kernels, lastClose, 0)
      /\ lastClose' = [i \in Instruments |-> None]
      /\ UNCHANGED <<run, step, samples, moves>>
  BY DEF Finish, Between, Stepping
<1>2. /\ account \in [balance: Int, locked: Nat, halted: BOOLEAN] /\ booked \in Int
      /\ lastClose \in [Instruments -> Prices \cup {None}] /\ samples \in 0..MaxEvents
      /\ \A i \in Instruments : IsKernel(kernels[i]) /\ kernels[i].cash = 0
      /\ \A i \in Instruments : TotalLocked(kernels[i]) \in Nat
  <2>1. \A i \in Instruments : TotalLocked(kernels[i]) \in Nat
    BY SettingsHaveTypes, TotalsAreNumbers DEF LedgerInv, Typed, Books
  <2>2. QED BY <1>1, <2>1 DEF LedgerInv, Typed, Books, Sound
<1>3. PICK closes : closes = lastClose
  OBVIOUS
<1>4. closes \in [Instruments -> Prices \cup {None}] /\ \A i \in Printed(closes) : i \in Instruments
  BY <1>2, <1>3 DEF Printed
<1>5. /\ \A i \in Printed(closes) : kernels'[i] = Emptied(kernels[i])
      /\ \A i \in Instruments \ Printed(closes) : kernels'[i] = kernels[i]
  BY <1>1, <1>3, <1>4 DEF SoldOut, Printed
<1>6. \A i \in Instruments : IsKernel(kernels'[i]) /\ kernels'[i].cash = 0
  <2>1. ASSUME NEW i \in Instruments
        PROVE  IsKernel(Emptied(kernels[i])) /\ Emptied(kernels[i]).cash = 0
    <3>1. IsKernel(kernels[i]) /\ kernels[i].cash = 0
      BY <1>2
    <3>2. QED BY <3>1 DEF Emptied, IsKernel
  <2>2. QED BY <1>2, <1>4, <1>5, <2>1
<1>7. Freed(kernels, closes) \in Int
  <2>1. PICK P : P = Printed(closes)
    OBVIOUS
  <2>2. P \in SUBSET Instruments /\ IsFiniteSet(P)
    BY <2>1, InstrumentAssumption, FS_Subset DEF Printed
  <2>3. [i \in P |-> TotalLocked(kernels[i])] \in [P -> Int]
    BY <1>2, <2>2
  <2>4. QED BY <2>1, <2>2, <2>3, SumIsInt DEF Freed
<1>8. /\ account'.balance = account.balance + Gained(kernels, closes, 0)
      /\ account'.locked = account.locked - Freed(kernels, closes)
      /\ account' = [balance |-> account'.balance, locked |-> account'.locked,
                     halted |-> account'.halted]
      /\ account'.halted \in BOOLEAN
  <2>1. account' = Reconciled(account, Gained(kernels, closes, 0), -Freed(kernels, closes))
    BY <1>1, <1>3 DEF Settled, Gained, Freed
  <2>2. QED BY <1>2, <1>7, <2>1 DEF Reconciled
<1>9. Settles(closes, 0)
  <2>1. /\ account'.balance = account.balance + 0 + Gained(kernels, closes, 0)
        /\ account'.locked = (account.locked + 0) - Freed(kernels, closes)
        /\ booked' = booked + 0 + SoldProfit(kernels, closes, 0)
    BY <1>1, <1>2, <1>3, <1>8
  <2>2. /\ \A i \in Printed(closes) : SameHoldings(kernels'[i], Emptied(kernels[i]))
        /\ \A i \in Instruments \ Printed(closes) : SameHoldings(kernels'[i], kernels[i])
    BY <1>5 DEF SameHoldings
  <2>3. lastClose' \in [Instruments -> Prices \cup {None}]
    BY <1>1
  <2>4. samples' \in 0..MaxEvents
    BY <1>1, <1>2
  <2>5. QED BY <1>1, <1>6, <1>8, <2>1, <2>2, <2>3, <2>4 DEF Settles
<1>10. LedgerInv'
  BY <1>4, <1>9, SettlingKeeps
<1>11. \A i \in Instruments : UnitsAt(kernels'[i]) <= UnitsAt(kernels[i])
  BY <1>9, SettlingSheds
<1>12. QED BY <1>10, <1>11

\* A session starts with its books in order.
LEMMA LedgerStart == Init => LedgerInv
<1> SUFFICES ASSUME Init PROVE LedgerInv
  OBVIOUS
<1>1. /\ run \in DOMAIN Configs
      /\ account = [balance |-> Capital, locked |-> 0, halted |-> FALSE]
      /\ lastClose = [i \in Instruments |-> None]
      /\ booked = 0 /\ samples = 0 /\ moves = 0 /\ ~Stepping
      /\ \A i \in Instruments : kernels[i] = NewKernel
  BY DEF Init, Capital, Idle, Stepping
<1>2. /\ Leverage \in Nat /\ Capital \in Nat /\ MaxEvents \in Nat /\ MaxMoves \in Nat
      /\ MaxPositions \in Nat
  BY <1>1, SettingsHaveTypes
<1>3. PICK k : k = NewKernel
  OBVIOUS
<1>4. /\ k.positions = [p \in {} |-> p] /\ k.locks = [p \in {} |-> p]
      /\ k.nextId = 0 /\ k.cash = 0 /\ IsKernel(k)
  BY <1>3 DEF NewKernel, IsKernel
<1>5. /\ DOMAIN k.positions = {} /\ k.positions \in [{} -> Position]
      /\ DOMAIN k.locks = {} /\ k.locks \in [{} -> Nat]
  BY <1>4
<1>6. Sound(k, Leverage) /\ SameHoldings(k, Emptied(k)) /\ k.cash \in Int
  <2>1. Sound(k, Leverage)
    BY <1>4, <1>5, FS_EmptySet DEF Sound
  <2>2. SameHoldings(k, Emptied(k))
    BY <1>4 DEF SameHoldings, Emptied, IsKernel
  <2>3. QED BY <1>4, <2>1, <2>2
<1>7. Longs(k) /\ TotalLocked(k) = 0 /\ Out(k, Leverage) = 0 /\ OpenCount(k) = 0
  BY <1>2, <1>4, <1>6, EmptyingReturns
<1>8. PICK zeros : zeros = [i \in Instruments |-> 0]
  OBVIOUS
<1>9. SumFunction(zeros) = 0
  <2>1. zeros \in [Instruments -> Int] /\ \A i \in Instruments \ {} : zeros[i] = 0
    BY <1>8
  <2>2. SumFunction(zeros) = SumFunction([i \in {} |-> zeros[i]])
    BY <2>1, InstrumentAssumption, SumOnPart
  <2>3. [i \in {} |-> zeros[i]] \in [{} -> Int]
    OBVIOUS
  <2>4. QED BY <2>2, <2>3, SumOfNone
<1>10. AllLocked(kernels) = 0 /\ AllOut(kernels, Leverage) = 0 /\ AllOpen(kernels) = 0
  <2>1. /\ [i \in Instruments |-> TotalLocked(kernels[i])] = zeros
        /\ [i \in Instruments |-> Out(kernels[i], Leverage)] = zeros
        /\ [i \in Instruments |-> OpenCount(kernels[i])] = zeros
    BY <1>1, <1>3, <1>7, <1>8
  <2>2. QED BY <1>9, <2>1 DEF AllLocked, AllOut, AllOpen
<1>11. Typed
  BY <1>1, <1>2 DEF Typed
<1>12. Books
  BY <1>1, <1>3, <1>4, <1>6, <1>7 DEF Books
<1>13. Lending
  BY <1>1, <1>10 DEF Lending
<1>14. Accounted
  BY <1>1, <1>2, <1>10 DEF Accounted
<1>15. Counted
  BY <1>1, <1>2, <1>10 DEF Counted
<1>16. QED BY <1>11, <1>12, <1>13, <1>14, <1>15 DEF LedgerInv

\* Every step keeps the books in order.
LEMMA LedgerStep == HaltInv /\ LedgerInv /\ [Next]_vars => LedgerInv'
<1> SUFFICES ASSUME HaltInv, LedgerInv, [Next]_vars PROVE LedgerInv'
  OBVIOUS
<1>1. CASE UNCHANGED vars
  <2>1. UNCHANGED <<run, account, kernels, lastClose, step, samples, booked, moves>>
    BY <1>1 DEF vars
  <2>2. /\ Leverage' = Leverage /\ Capital' = Capital /\ MaxPositions' = MaxPositions
        /\ Hedging' = Hedging /\ Adopts' = Adopts /\ MaxEvents' = MaxEvents
        /\ MaxMoves' = MaxMoves /\ (LongInCash' <=> LongInCash)
        /\ (Stepping' <=> Stepping) /\ Current' = Current
    BY <2>1, SettingsStay DEF Stepping, Current
  <2>3. Typed' /\ Books'
    BY <2>1, <2>2 DEF LedgerInv, Typed, Books
  <2>4. Lending' /\ Accounted' /\ Counted'
    BY <2>1, <2>2 DEF LedgerInv, Lending, Accounted, Counted, AllLocked, AllOut, AllOpen, Out, EntryFees, Cost
  <2>5. QED BY <2>3, <2>4 DEF LedgerInv
<1>2. ASSUME NEW i \in Instruments, NEW price \in Prices, NEW units \in OpenUnits,
             Adopt(i, price, units)
      PROVE  LedgerInv'
  BY <1>2, AdoptKeepsLedger
<1>3. ASSUME NEW i \in Instruments, NEW price \in Prices, BeginStep(i, price)
      PROVE  LedgerInv'
  BY <1>3, BeginKeepsLedger
<1>4. CASE KernelStep
  <2>1. ASSUME NEW long \in Sides, NEW price \in Prices, NEW units \in OpenUnits,
               OpenOrdered(long, price, units) \/ OpenSized(long, price, units)
        PROVE  LedgerInv'
    BY <2>1, OrderedPays, SizedPays
  <2>2. ASSUME Stepping, NEW id \in DOMAIN Current.positions, NEW price \in Prices, Add(id, price)
        PROVE  LedgerInv'
    BY <2>2, AddKeeps
  <2>3. ASSUME Stepping, NEW id \in DOMAIN Current.positions, NEW price \in Prices, Close(id, price)
        PROVE  LedgerInv'
    BY <2>3, CloseKeeps
  <2>4. ASSUME Stepping, NEW id \in DOMAIN Current.positions, NEW price \in Prices, Reduce(id, price)
        PROVE  LedgerInv'
    BY <2>4, ReduceKeeps
  <2>5. CASE MarginCheck
    BY <2>5, MarginCheckKeepsLedger
  <2>6. QED BY <1>4, <2>1, <2>2, <2>3, <2>4, <2>5 DEF KernelStep
<1>5. CASE EndStep
  BY <1>5, EndKeepsLedger
<1>6. CASE Finish
  BY <1>6, FinishKeepsLedger
<1>7. QED BY <1>1, <1>2, <1>3, <1>4, <1>5, <1>6 DEF Next

-----------------------------------------------------------------------------
(* The samples                                                             *)

\* What a portfolio's positions read, less what they have taken out, is what they
\* would win, less the fees they paid.
LEMMA MarksReadUnrealized ==
  ASSUME NEW ks, NEW closes \in [Instruments -> Prices \cup {None}], Leverage \in Nat,
         \A i \in Instruments : Sound(ks[i], Leverage),
         Leverage = 0 => \A i \in Instruments : Longs(ks[i]),
         \A i \in Instruments \ Printed(closes) : DOMAIN ks[i].positions = {}
  PROVE  /\ SumFunction([i \in Printed(closes) |-> Unrealized(ks[i], closes[i])]) \in Int
         /\ SumFunction([i \in Instruments |-> EntryFees(ks[i])]) \in Int
         /\ Marks(ks, closes) \in Int /\ AllOut(ks, Leverage) \in Int
         /\ Marks(ks, closes) - AllOut(ks, Leverage)
              = SumFunction([i \in Printed(closes) |-> Unrealized(ks[i], closes[i])])
                - SumFunction([i \in Instruments |-> EntryFees(ks[i])])
<1>1. PICK P : P = Printed(closes)
  OBVIOUS
<1>2. PICK lev : lev = Leverage
  OBVIOUS
<1>3. /\ P \in SUBSET Instruments /\ IsFiniteSet(P) /\ lev \in Nat
      /\ \A i \in P : closes[i] \in Nat
      /\ \A i \in Instruments : Sound(ks[i], lev)
      /\ lev = 0 => \A i \in Instruments : Longs(ks[i])
      /\ \A i \in Instruments \ P : DOMAIN ks[i].positions = {}
  BY <1>1, <1>2, InstrumentAssumption, PriceAssumption, FS_Subset DEF Printed, None
<1>4. PICK us : us = [i \in P |-> Unrealized(ks[i], closes[i])]
  OBVIOUS
<1>5. PICK vs : vs = [i \in P |-> Value(ks[i], closes[i])]
  OBVIOUS
<1>6. PICK fs : fs = [i \in Instruments |-> EntryFees(ks[i])]
  OBVIOUS
<1>7. PICK cs : cs = [i \in Instruments |-> Cost(ks[i])]
  OBVIOUS
<1>8. PICK outs : outs = [i \in Instruments |-> Out(ks[i], lev)]
  OBVIOUS
<1>9. \A i \in Instruments :
        EntryFees(ks[i]) \in Int /\ Cost(ks[i]) \in Int /\ Out(ks[i], lev) \in Int
  BY <1>3, TotalsAreNumbers
<1>10. \A i \in P :
         /\ Unrealized(ks[i], closes[i]) \in Int /\ Value(ks[i], closes[i]) \in Int
         /\ lev = 0 => Value(ks[i], closes[i]) = Unrealized(ks[i], closes[i]) + Cost(ks[i])
  BY <1>3, MarksAdd
<1>11. /\ us \in [P -> Int] /\ vs \in [P -> Int]
       /\ fs \in [Instruments -> Int] /\ cs \in [Instruments -> Int] /\ outs \in [Instruments -> Int]
  BY <1>4, <1>5, <1>6, <1>7, <1>8, <1>9, <1>10
<1>12. /\ SumFunction(us) \in Int /\ SumFunction(vs) \in Int
       /\ SumFunction(fs) \in Int /\ SumFunction(cs) \in Int /\ SumFunction(outs) \in Int
  BY <1>3, <1>11, InstrumentAssumption, SumIsInt
<1>13. Marks(ks, closes) - AllOut(ks, Leverage) = SumFunction(us) - SumFunction(fs)
  <2>1. CASE lev # 0
    <3>1. Marks(ks, closes) = SumFunction(us)
      BY <1>1, <1>2, <1>4, <2>1 DEF Marks
    <3>2. outs = fs
      BY <1>6, <1>8, <1>9, <2>1 DEF Out
    <3>3. QED BY <1>2, <1>8, <3>1, <3>2 DEF AllOut
  <2>2. CASE lev = 0
    <3>1. Marks(ks, closes) = SumFunction(vs)
      BY <1>1, <1>2, <1>5, <2>2 DEF Marks
    <3>2. PICK ps : ps = [i \in P |-> cs[i]]
      OBVIOUS
    <3>3. ps \in [P -> Int]
      BY <1>3, <1>11, <3>2
    <3>4. vs = [i \in P |-> us[i] + ps[i]]
      BY <1>3, <1>4, <1>5, <1>7, <1>10, <2>2, <3>2
    <3>5. SumFunction(vs) = SumFunction(us) + SumFunction(ps)
      BY <1>3, <1>11, <3>3, <3>4, SumAdds
    <3>6. \A i \in Instruments \ P : cs[i] = 0
      BY <1>3, <1>7, EmptyCostsNothing
    <3>7. SumFunction(cs) = SumFunction(ps)
      BY <1>3, <1>11, <3>2, <3>6, InstrumentAssumption, SumOnPart
    <3>8. outs = [i \in Instruments |-> fs[i] + cs[i]]
      BY <1>6, <1>7, <1>8, <2>2 DEF Out
    <3>9. SumFunction(outs) = SumFunction(fs) + SumFunction(cs)
      BY <1>11, <3>8, InstrumentAssumption, SumAdds
    <3>10. AllOut(ks, Leverage) = SumFunction(outs)
      BY <1>2, <1>8 DEF AllOut
    <3>11. QED BY <1>12, <3>1, <3>5, <3>7, <3>9, <3>10
  <2>3. QED BY <2>1, <2>2
<1>14. Marks(ks, closes) \in Int /\ AllOut(ks, Leverage) \in Int
  <2>1. Marks(ks, closes) = IF lev = 0 THEN SumFunction(vs) ELSE SumFunction(us)
    BY <1>1, <1>2, <1>4, <1>5 DEF Marks
  <2>2. AllOut(ks, Leverage) = SumFunction(outs)
    BY <1>2, <1>8 DEF AllOut
  <2>3. QED BY <1>12, <2>1, <2>2
<1>15. QED BY <1>1, <1>4, <1>6, <1>12, <1>13, <1>14

\* An event whose end calls for nothing samples what the books say.
LEMMA EndReads ==
  ASSUME HaltInv, LedgerInv, EndStep
  PROVE  EquityReadsCapitalPlusUnrealized'
<1> SUFFICES ASSUME LongInCash', calls' = 0,
                    \A i \in Instruments \ Printed(lastClose') : DOMAIN kernels'[i].positions = {}
             PROVE  equity' = Capital' + booked'
                      + SumFunction([i \in Printed(lastClose') |-> Unrealized(kernels'[i], lastClose'[i])])
                      - SumFunction([i \in Instruments |-> EntryFees(kernels'[i])])
  BY DEF EquityReadsCapitalPlusUnrealized
<1>1. /\ step'.phase = "idle" /\ run' = run
      /\ lastClose' = ClosesNow /\ equity' = SampleNow
      /\ ClosesNow \in [Instruments -> Prices \cup {None}]
      /\ calls' = calls + (IF step.called THEN 1 ELSE 0) + (IF BreachNow THEN 1 ELSE 0)
      /\ \A i \in Instruments \ Printed(SoldNow) : SameHoldings(kernels'[i], kernels[i])
      /\ account'.balance = account.balance + (Current.cash - step.injected)
           + Gained(kernels, SoldNow, Fee)
  BY EndSettles
<1>2. LedgerInv'
  BY EndKeepsLedger
<1>3. /\ Leverage' = Leverage /\ Leverage \in Nat /\ Capital' = Capital /\ Capital \in Nat
      /\ calls \in Nat /\ step.called \in BOOLEAN /\ BreachNow \in BOOLEAN
      /\ Current.cash \in Int /\ step.injected \in Int /\ account.balance \in Int
      /\ ~Stepping'
  <2>1. Stepping
    BY DEF EndStep, Stepping
  <2>2. Current.cash \in Int
    BY <2>1, CurrentIsSound DEF Sound
  <2>3. /\ step.injected \in Int /\ account.balance \in Int
        /\ calls \in Nat /\ step.called \in BOOLEAN
    BY <2>1 DEF LedgerInv, Typed, HaltInv, Shapes
  <2>4. QED BY <1>1, <2>2, <2>3, SettingsHaveTypes, SettingsStay
               DEF LedgerInv, Typed, BreachNow, Stepping
<1>4. ~BreachNow
  BY <1>1, <1>3
<1>5. SoldNow = [i \in Instruments |-> None]
  BY <1>4 DEF SoldNow
<1>6. Printed(SoldNow) = {} /\ Gained(kernels, SoldNow, Fee) = 0
  BY <1>5, NothingSells
<1>7. \A i \in Instruments : SameHoldings(kernels'[i], kernels[i])
  BY <1>1, <1>6
<1>8. PICK ns : ns = kernels'
  OBVIOUS
<1>9. PICK closes : closes = ClosesNow
  OBVIOUS
<1>10. /\ closes \in [Instruments -> Prices \cup {None}]
       /\ \A i \in Instruments : Sound(ns[i], Leverage)
       /\ Leverage = 0 => \A i \in Instruments : Longs(ns[i])
       /\ \A i \in Instruments \ Printed(closes) : DOMAIN ns[i].positions = {}
  BY <1>1, <1>2, <1>3, <1>8, <1>9 DEF LedgerInv, Books
<1>11. PICK won : won = SumFunction([i \in Printed(closes) |-> Unrealized(ns[i], closes[i])])
  OBVIOUS
<1>12. PICK paid : paid = SumFunction([i \in Instruments |-> EntryFees(ns[i])])
  OBVIOUS
<1>13. won \in Int /\ paid \in Int /\ Marks(ns, closes) - AllOut(ns, Leverage) = won - paid
       /\ Marks(ns, closes) \in Int /\ AllOut(ns, Leverage) \in Int
  BY <1>3, <1>10, <1>11, <1>12, MarksReadUnrealized
<1>14. Marks(kernels, closes) = Marks(ns, closes)
  BY <1>7, <1>8, MarksFollowPositions DEF SameHoldings
<1>15. account'.balance = Capital + booked' - AllOut(ns, Leverage)
  <2>1. account'.balance + 0 = Capital' + booked' - AllOut(kernels', Leverage')
    BY <1>2, <1>3 DEF LedgerInv, Accounted, AllOut, Out, EntryFees, Cost
  <2>2. account'.balance \in Int
    BY <1>2 DEF LedgerInv, Typed
  <2>3. QED BY <1>3, <1>8, <2>1, <2>2
<1>16. equity' = account'.balance + Marks(ns, closes)
  <2>1. account'.balance = account.balance + (Current.cash - step.injected)
    BY <1>1, <1>3, <1>6
  <2>2. QED BY <1>1, <1>9, <1>14, <2>1 DEF SampleNow
<1>17. booked' \in Int
  BY <1>2 DEF LedgerInv, Typed
<1>18. equity' = Capital + booked' + won - paid
  BY <1>3, <1>13, <1>15, <1>16, <1>17
<1>19. QED BY <1>1, <1>3, <1>8, <1>9, <1>11, <1>12, <1>18 DEF Unrealized, EntryFees

\* And one whose end finds the portfolio short of its requirement calls, or had been
\* halted before.
LEMMA EndCalls ==
  ASSUME HaltInv, LedgerInv, EndStep
  PROVE  BreachIsCalled'
<1> DEFINE required == SumFunction([i \in Printed(lastClose') |->
                         Maintenance(kernels'[i], lastClose'[i], Leverage')])
           marks == SumFunction([i \in Printed(lastClose') |->
                      IF Leverage' = 0 THEN Value(kernels'[i], lastClose'[i])
                      ELSE Unrealized(kernels'[i], lastClose'[i])])
<1> SUFFICES ASSUME Leverage' > 0, \A i \in Instruments : ~kernels'[i].riskHalted,
                    required > 0, account'.balance + marks < required
             PROVE  calls' > 0
  BY DEF BreachIsCalled, Required, Equity
<1>1. /\ Stepping /\ step'.phase = "idle" /\ run' = run
      /\ lastClose' = ClosesNow
      /\ calls' = calls + (IF step.called THEN 1 ELSE 0) + (IF BreachNow THEN 1 ELSE 0)
      /\ \A i \in Instruments \ Printed(SoldNow) : SameHoldings(kernels'[i], kernels[i])
      /\ account'.balance = account.balance + (Current.cash - step.injected)
           + Gained(kernels, SoldNow, Fee)
  BY EndSettles
<1>2. /\ HaltInv' /\ \A i \in Instruments : kernels[i].riskHalted => kernels'[i].riskHalted
  BY EndStepKeeps
<1>3. /\ Leverage' = Leverage /\ calls \in Nat /\ step.at \in Instruments
      /\ step.called \in BOOLEAN /\ account.halted \in BOOLEAN /\ BreachNow \in BOOLEAN
      /\ Current.cash \in Int /\ step.injected \in Int /\ account.balance \in Int
      /\ step.phase = "orders"
  <2>1. Current.cash \in Int /\ step.at \in Instruments
    BY <1>1, CurrentIsSound DEF Sound
  <2>2. /\ step.injected \in Int /\ account.balance \in Int /\ account.halted \in BOOLEAN
        /\ calls \in Nat /\ step.called \in BOOLEAN
    BY <1>1 DEF LedgerInv, Typed, HaltInv, Shapes
  <2>3. step.phase = "orders"
    BY DEF EndStep
  <2>4. QED BY <1>1, <2>1, <2>2, <2>3, SettingsStay DEF BreachNow
<1>4. CASE step.called \/ BreachNow
  BY <1>1, <1>3, <1>4
<1>5. CASE ~step.called /\ account.halted
  <2>1. kernels[step.at].called \/ kernels[step.at].riskHalted
    BY <1>3, <1>5 DEF HaltInv, Agreed, Ahead
  <2>2. ~kernels[step.at].riskHalted
    BY <1>2, <1>3
  <2>3. calls > 0
    BY <1>3, <1>5, <2>1, <2>2 DEF HaltInv, Called, Ahead
  <2>4. QED BY <1>1, <1>3, <2>3
<1>6. CASE ~step.called /\ ~account.halted /\ ~BreachNow
  <2>1. SoldNow = [i \in Instruments |-> None]
    BY <1>6 DEF SoldNow
  <2>2. Printed(SoldNow) = {} /\ Gained(kernels, SoldNow, Fee) = 0
    BY <2>1, NothingSells
  <2>3. \A i \in Instruments : SameHoldings(kernels'[i], kernels[i])
    BY <1>1, <2>2
  <2>4. PICK ns : ns = kernels'
    OBVIOUS
  <2>5. PICK closes : closes = ClosesNow
    OBVIOUS
  <2>6. Marks(kernels, closes) = Marks(ns, closes) /\ Required(kernels, closes) = Required(ns, closes)
    BY <2>3, <2>4, MarksFollowPositions DEF SameHoldings
  <2>7. required = Required(ns, closes) /\ marks = Marks(ns, closes)
    BY <1>1, <1>3, <2>4, <2>5 DEF Required, Marks
  <2>8. account'.balance = account.balance + (Current.cash - step.injected)
    BY <1>1, <1>3, <2>2
  <2> HIDE DEF required, marks
  <2>9. SampleNow = account'.balance + marks
    BY <2>5, <2>6, <2>7, <2>8 DEF SampleNow
  <2>10. Required(kernels, ClosesNow) = required
    BY <2>5, <2>6, <2>7
  <2>11. BreachNow
    BY <1>3, <1>6, <2>9, <2>10 DEF BreachNow
  <2>12. QED BY <1>6, <2>11
<1>7. QED BY <1>3, <1>4, <1>5, <1>6

-----------------------------------------------------------------------------
(* What a reader wants to know of the money                                *)

\* A move within a step leaves the event in progress.
LEMMA KernelStepStays ==
  ASSUME HaltInv, KernelStep
  PROVE  step'.phase # "idle"
<1>1. ASSUME Stepping, NEW k, NEW pnl, Moved(k, pnl) PROVE step'.phase # "idle"
  BY <1>1 DEF Moved, HaltInv, Shapes, Stepping
<1>2. ASSUME Stepping, NEW long, NEW price, NEW units, Open(long, price, units)
      PROVE  step'.phase # "idle"
  <2>1. Stepping /\ \E k, pnl : Moved(k, pnl)
    BY <1>2 DEF Open
  <2>2. QED BY <1>1, <2>1
<1>3. ASSUME Stepping, NEW id, NEW price, Add(id, price) \/ Close(id, price) \/ Reduce(id, price)
      PROVE  step'.phase # "idle"
  <2>1. \E k, pnl : Moved(k, pnl)
    BY <1>3 DEF Add, Close, Reduce
  <2>2. QED BY <1>1, <1>3, <2>1
<1>4. CASE MarginCheck
  BY <1>4 DEF MarginCheck, HaltInv, Shapes, Stepping
<1>5. QED BY <1>2, <1>3, <1>4, EntriesOpen DEF KernelStep

\* Between events what was sampled, and whether a call is due, stand as the last
\* event left them.
LEMMA SamplesStep ==
  HaltInv /\ LedgerInv /\ EquityReadsCapitalPlusUnrealized /\ BreachIsCalled /\ [Next]_vars
    => EquityReadsCapitalPlusUnrealized' /\ BreachIsCalled'
<1> SUFFICES ASSUME HaltInv, LedgerInv, EquityReadsCapitalPlusUnrealized, BreachIsCalled,
                    [Next]_vars
             PROVE  EquityReadsCapitalPlusUnrealized' /\ BreachIsCalled'
  OBVIOUS
<1>1. ~Between' \/ samples' = 0 => EquityReadsCapitalPlusUnrealized' /\ BreachIsCalled'
  BY DEF EquityReadsCapitalPlusUnrealized, BreachIsCalled
<1>2. CASE UNCHANGED vars
  <2>1. /\ UNCHANGED <<run, account, kernels, lastClose, step, samples, equity, booked, calls, finished>>
        /\ Leverage' = Leverage /\ Capital' = Capital /\ (LongInCash' <=> LongInCash)
        /\ (Between' <=> Between)
    BY <1>2, SettingsStay DEF vars, Between
  <2>2. EquityReadsCapitalPlusUnrealized'
    BY <2>1 DEF EquityReadsCapitalPlusUnrealized, EntryFees, Unrealized
  <2>3. BreachIsCalled'
    BY <2>1 DEF BreachIsCalled, Required, Equity
  <2>4. QED BY <2>2, <2>3
<1>3. ASSUME NEW i \in Instruments, NEW price \in Prices,
             \/ \E units \in OpenUnits : Adopt(i, price, units)
             \/ BeginStep(i, price)
      PROVE  ~Between' \/ samples' = 0
  <2>1. CASE \E units \in OpenUnits : Adopt(i, price, units)
    BY <2>1 DEF Adopt
  <2>2. CASE BeginStep(i, price)
    BY <2>2 DEF BeginStep, Between
  <2>3. QED BY <1>3, <2>1, <2>2
<1>4. CASE KernelStep
  BY <1>1, <1>4, KernelStepStays DEF Between
<1>5. CASE EndStep
  BY <1>5, EndReads, EndCalls
<1>6. CASE Finish
  BY <1>1, <1>6 DEF Finish, Between
<1>7. QED BY <1>1, <1>2, <1>3, <1>4, <1>5, <1>6 DEF Next

\* The books say what the invariants of the runs say.
LEMMA BooksAgree ==
  HaltInv /\ LedgerInv /\ EquityReadsCapitalPlusUnrealized => LedgersAgree
<1> SUFFICES ASSUME HaltInv, LedgerInv, EquityReadsCapitalPlusUnrealized PROVE LedgersAgree
  OBVIOUS
<1>1. TypeOK
  <2>1. \A i \in Instruments :
          /\ kernels[i].cash \in Int
          /\ \A id \in DOMAIN kernels[i].positions :
               kernels[i].positions[id] \in [long: BOOLEAN, units: Nat \ {0}, cost: Nat, fees: Nat]
    BY DEF LedgerInv, Books, Sound, Position
  <2>2. QED BY <2>1 DEF TypeOK, LedgerInv, Typed, HaltInv, Shapes
<1>2. LocksMirrored
  BY DEF LocksMirrored, LedgerInv, Books, Lending, AllLocked, Sound, Stepping
<1>3. MoneyAccounted
  <2> SUFFICES ASSUME LongInCash, step.phase = "idle"
               PROVE  account.balance = Capital + booked - AllOut(kernels, Leverage)
    BY DEF MoneyAccounted, AllOut, Out, TakenOut
  <2>1. account.balance + 0 = Capital + booked - AllOut(kernels, Leverage)
    BY DEF LedgerInv, Accounted, Stepping
  <2>2. account.balance \in Int
    BY DEF LedgerInv, Typed
  <2>3. QED BY <2>1, <2>2
<1>4. QED BY <1>1, <1>2, <1>3 DEF LedgersAgree

\* What the stepping kernel has free is what the portfolio has free.
FreeIsShared == Stepping => PortfolioFree = Free(Current)

\* The lend of apply_current leaves out what the others have locked.
LEMMA LentIsFree == HaltInv /\ LedgerInv => FreeIsShared
<1> SUFFICES ASSUME LedgerInv, HaltInv, Stepping PROVE PortfolioFree = Free(Current)
  BY DEF FreeIsShared
<1>1. /\ step.injected = account.balance - (account.locked - step.locked)
      /\ account.locked - step.locked + TotalLocked(Current) = AllLocked(kernels)
  BY DEF LedgerInv, Lending
<1>2. /\ account.balance \in Int /\ account.locked \in Int
      /\ step.injected \in Int /\ step.locked \in Int
  BY DEF LedgerInv, Typed
<1>3. Current.cash \in Int /\ TotalLocked(Current) \in Int
  BY CurrentIsSound, TotalsAreNumbers DEF Sound
<1>4. PortfolioFree = account.balance + (Current.cash - step.injected) - AllLocked(kernels)
  BY DEF PortfolioFree, AllLocked
<1>5. account.balance + (Current.cash - step.injected) - AllLocked(kernels)
        = Current.cash - TotalLocked(Current)
  BY <1>1, <1>2, <1>3
<1>6. QED BY <1>4, <1>5 DEF Free

\* What grows in a step has been paid for, but for what a sizing leaves out.
LEMMA GrowthIsFunded ==
  HaltInv /\ LedgerInv /\ LedgerInv' /\ FreeIsShared' /\ [Next]_vars => OpensWithinFree
<1> SUFFICES ASSUME HaltInv, LedgerInv, LedgerInv', FreeIsShared', [Next]_vars
             PROVE  OpensWithinFree
  OBVIOUS
<1>1. Stepping' /\ Free(Current') >= 0 => PortfolioFree' >= 0
  BY DEF FreeIsShared, Free
<1>2. ASSUME OrderedEntry PROVE PortfolioFree' >= 0
  BY <1>1, <1>2, OrderedPays DEF OrderedEntry
<1>3. ASSUME NEW units \in OpenUnits, SizedEntry(units)
      PROVE  PortfolioFree' >= -(Unreckoned * units)
  <2>1. Stepping' /\ Free(Current') >= -(Unreckoned * units)
    BY <1>3, SizedPays DEF SizedEntry
  <2>2. QED BY <2>1 DEF FreeIsShared, Free
<1>4. ASSUME Stepping, Grows, \A units \in OpenUnits : ~SizedEntry(units)
      PROVE  PortfolioFree' >= 0
  <2>1. PICK i \in Instruments : UnitsAt(kernels'[i]) > UnitsAt(kernels[i])
    BY <1>4 DEF Grows
  <2>2. UnitsAt(kernels'[i]) \in Int /\ UnitsAt(kernels[i]) \in Int
    <3>1. /\ Leverage \in Nat /\ Leverage' \in Nat
          /\ Sound(kernels[i], Leverage) /\ Sound(kernels'[i], Leverage')
      BY SettingsHaveTypes, ConfigAssumption DEF LedgerInv, Typed, Books, Leverage, Config
    <3>2. QED BY <3>1, TotalsAreNumbers
  <2>3. ASSUME NEW long \in Sides, NEW price \in Prices, NEW units \in OpenUnits,
               OpenOrdered(long, price, units) \/ OpenSized(long, price, units)
        PROVE  PortfolioFree' >= 0
    BY <1>2, <1>4, <2>3 DEF OrderedEntry, SizedEntry
  <2>4. ASSUME NEW id \in DOMAIN Current.positions, NEW price \in Prices, Add(id, price)
        PROVE  PortfolioFree' >= 0
    BY <1>1, <1>4, <2>4, AddKeeps
  <2>5. ASSUME \A j \in Instruments : UnitsAt(kernels'[j]) <= UnitsAt(kernels[j])
        PROVE  FALSE
    BY <2>1, <2>2, <2>5
  <2>6. ASSUME NEW id \in DOMAIN Current.positions, NEW price \in Prices,
               Close(id, price) \/ Reduce(id, price)
        PROVE  FALSE
    BY <1>4, <2>5, <2>6, CloseKeeps, ReduceKeeps
  <2>7. ~MarginCheck /\ ~EndStep
    BY <2>5, MarginCheckKeepsLedger, EndKeepsLedger
  <2>8. ~UNCHANGED vars
    BY <2>1, <2>2 DEF vars
  <2>9. /\ ~Finish
        /\ \A j \in Instruments, price \in Prices :
             ~BeginStep(j, price) /\ \A units \in OpenUnits : ~Adopt(j, price, units)
    BY <1>4 DEF Finish, BeginStep, Adopt, Between, Stepping
  <2>10. QED BY <2>3, <2>4, <2>6, <2>7, <2>8, <2>9 DEF Next, KernelStep
<1>5. QED BY <1>2, <1>3, <1>4 DEF OpensWithinFree

\* The count the gates are given keeps the portfolio to its cap.
LEMMA CapHolds == LedgerInv => WithinPortfolioCap
BY DEF LedgerInv, Counted, WithinPortfolioCap, PortfolioCount, AllOpen

\* The strengthened invariant of the money: what the stepping kernel was lent, what
\* it moved and what the records say are in line at every point of an event.
THEOREM BooksAreKept == Spec => []LedgerInv
<1>1. Spec => []HaltInv
  BY HaltsAgree
<1>2. QED BY <1>1, LedgerStart, LedgerStep, PTL DEF Spec

\* Nothing is sampled at the start.
LEMMA SamplesStart == Init => EquityReadsCapitalPlusUnrealized /\ BreachIsCalled
BY DEF Init, EquityReadsCapitalPlusUnrealized, BreachIsCalled

\* What the equity curve samples is the capital and the profit since, and a short
\* portfolio is found out at the sample that shows it (apply_current).
THEOREM SamplesAreRight == Spec => [](EquityReadsCapitalPlusUnrealized /\ BreachIsCalled)
BY HaltsAgree, BooksAreKept, SamplesStart, SamplesStep, PTL DEF Spec

\* The account, the kernels' margin books and the trade records tell one story.
THEOREM MoneyAgrees == Spec => []LedgersAgree
BY HaltsAgree, BooksAreKept, SamplesAreRight, BooksAgree, PTL

\* A portfolio short of its requirement has had its call.
THEOREM CallsAreMade == Spec => []BreachIsCalled
BY SamplesAreRight, PTL

\* What opens by order, and what is added to it, stays within what the whole portfolio
\* has free; what is sized by the capital exceeds it by no more than the fees the
\* sizing leaves out; and neither exceeds the cap.
THEOREM MeansAreKept == Spec => SpendsWithinMeans
BY HaltsAgree, BooksAreKept, LentIsFree, GrowthIsFunded, CapHolds, PTL DEF Spec, SpendsWithinMeans
=============================================================================
