---------------------------- MODULE MarketProofs ----------------------------
(***************************************************************************)
(* Proofs about market data, for every tape: the session tracker of one    *)
(* day, the place of a resting limit in its queue, and the bars of every   *)
(* builder.                                                                *)
(***************************************************************************)
EXTENDS TradingDay, Queue, Bars, Sums, SequenceTheorems

-----------------------------------------------------------------------------
(* Least and greatest members *)

Least(S, m) == m \in S /\ \A x \in S : m <= x
Greatest(S, m) == m \in S /\ \A x \in S : x <= m

\* The least member is the one Min picks.
LEMMA MinIsLeast ==
  ASSUME NEW S \in SUBSET Int, NEW m, Least(S, m)
  PROVE  Min(S) = m
<1>1. m \in S /\ \A x \in S : m <= x
  BY DEF Least
<1>2. Min(S) \in S /\ \A x \in S : Min(S) <= x
  BY <1>1, Zenon DEF Min
<1>3. m <= Min(S) /\ Min(S) <= m
  BY <1>1, <1>2
<1>4. m \in Int /\ Min(S) \in Int
  BY <1>1, <1>2
<1>5. QED BY ONLY <1>3, <1>4

\* The greatest member is the one Max picks.
LEMMA MaxIsGreatest ==
  ASSUME NEW S \in SUBSET Int, NEW m, Greatest(S, m)
  PROVE  Max(S) = m
<1>1. m \in S /\ \A x \in S : m >= x
  BY DEF Greatest
<1>2. Max(S) \in S /\ \A x \in S : Max(S) >= x
  BY <1>1, Zenon DEF Max
<1>3. m >= Max(S) /\ Max(S) >= m
  BY <1>1, <1>2
<1>4. m \in Int /\ Max(S) \in Int
  BY <1>1, <1>2
<1>5. QED BY ONLY <1>3, <1>4

\* Any numbers have a least one.
LEMMA LeastExists ==
  ASSUME NEW S \in SUBSET Nat, S # {}
  PROVE  Least(S, Min(S))
<1>1. PICK m \in S : Least(S, m)
  BY LeastNumber DEF Least
<1>2. QED BY <1>1, MinIsLeast

-----------------------------------------------------------------------------
(* The days of a tape *)

Date(b, k) == DateOf(b[k].ts)
Minute(b, k) == MinuteOf(b[k].ts)

\* The bars of the k-th bar's day up to it, those in trading hours, and those past
\* the squaring off.
Day(b, k) == {j \in 1..k : Date(b, j) = Date(b, k)}
Hours(b, k) == {j \in Day(b, k) : WithinHours(b[j].ts)}
Past(b, k) == {j \in Day(b, k) : Minute(b, j) >= SquareoffMinute}

\* Bars as a feed has them.
BarShape ==
  {r \in [ts: Nat, open: Int, high: Int, low: Int] : r.low <= r.open /\ r.open <= r.high}

TapeOK(b) ==
  /\ b \in Seq(BarShape)
  /\ \A j, k \in 1..Len(b) : j <= k => b[j].ts <= b[k].ts

\* Days follow each other, and within one its minutes do.
LEMMA DaysFollow ==
  ASSUME NEW b, TapeOK(b), NEW j \in 1..Len(b), NEW k \in 1..Len(b), j <= k
  PROVE  /\ Date(b, j) \in Nat /\ Date(b, k) \in Nat /\ Minute(b, j) \in Nat /\ Minute(b, k) \in Nat
         /\ Date(b, j) <= Date(b, k)
         /\ Date(b, j) = Date(b, k) => Minute(b, j) <= Minute(b, k)
<1> DEFINE x == b[j].ts + Offset
           y == b[k].ts + Offset
<1>1. x \in Nat /\ y \in Nat /\ x <= y /\ DayMinutes \in Nat \ {0}
  <2>1. b[j] \in BarShape /\ b[k] \in BarShape /\ b[j].ts <= b[k].ts
    BY DEF TapeOK
  <2>2. b[j].ts \in Nat /\ b[k].ts \in Nat
    BY <2>1 DEF BarShape
  <2>3. QED BY <2>1, <2>2, DayAssumption
<1>2. Date(b, j) = x \div DayMinutes /\ Minute(b, j) = x % DayMinutes
  BY DEF Date, Minute, DateOf, MinuteOf
<1>3. Date(b, k) = y \div DayMinutes /\ Minute(b, k) = y % DayMinutes
  BY DEF Date, Minute, DateOf, MinuteOf
<1> HIDE DEF x, y
<1>4. /\ x \div DayMinutes \in Nat /\ y \div DayMinutes \in Nat
      /\ x % DayMinutes \in Nat /\ y % DayMinutes \in Nat
  BY <1>1, DivBounds, ModBounds
<1>5. x \div DayMinutes <= y \div DayMinutes
  BY <1>1, DivMonotone
<1>6. x \div DayMinutes = y \div DayMinutes => x % DayMinutes <= y % DayMinutes
  BY <1>1, ModMonotone
<1>7. QED BY <1>2, <1>3, <1>4, <1>5, <1>6

\* The minutes a session's hours and its squaring off are told by.
LEMMA HoursAreMinutes ==
  /\ MarketOpen \in Nat /\ MarketClose \in Nat
  /\ SquareoffMinute \in Nat /\ SquareoffMinute <= MarketClose
BY DayAssumption DEF SquareoffMinute

\* The b of a day so far: those of the bar before, if it was of the same day,
\* and the new one.
Earlier(b, k, S) == IF k > 1 /\ Date(b, k - 1) = Date(b, k) THEN S ELSE {}

\* A day grows by its newest bar, which may be its first.
LEMMA DayGrows ==
  ASSUME NEW b, TapeOK(b), NEW k \in 1..Len(b)
  PROVE  Day(b, k) = Earlier(b, k, Day(b, k - 1)) \cup {k}
<1>1. ASSUME NEW x \in Day(b, k), x # k
      PROVE  k > 1 /\ Date(b, k - 1) = Date(b, k) /\ x \in Day(b, k - 1)
  <2>1. x \in 1..(k - 1) /\ k > 1 /\ Date(b, x) = Date(b, k)
    BY <1>1 DEF Day, Date
  <2>2. Date(b, x) <= Date(b, k - 1) /\ Date(b, k - 1) <= Date(b, k)
        /\ Date(b, x) \in Nat /\ Date(b, k - 1) \in Nat
    BY <2>1, DaysFollow
  <2>3. QED BY <2>1, <2>2 DEF Day, Date
<1>2. k \in Day(b, k)
  BY DEF Day
<1>3. ASSUME NEW x \in Day(b, k - 1), k > 1, Date(b, k - 1) = Date(b, k)
      PROVE  x \in Day(b, k)
  BY <1>3 DEF Day, Date
<1>4. QED BY <1>1, <1>2, <1>3 DEF Earlier

\* The hours of a day, and what is past its square-off, grow by the newest bar if it
\* is of their kind.
LEMMA HoursGrow ==
  ASSUME NEW b, TapeOK(b), NEW k \in 1..Len(b)
  PROVE  /\ Hours(b, k) = Earlier(b, k, Hours(b, k - 1))
                           \cup (IF WithinHours(b[k].ts) THEN {k} ELSE {})
         /\ Past(b, k) = Earlier(b, k, Past(b, k - 1))
                           \cup (IF Minute(b, k) >= SquareoffMinute THEN {k} ELSE {})
BY DayGrows DEF Hours, Past, Earlier, Minute

\* The hours of a day are places on the tape up to its bar.
LEMMA HoursArePlaces ==
  ASSUME NEW b, NEW k \in Nat
  PROVE  Hours(b, k) \subseteq 1..k /\ Past(b, k) \subseteq 1..k /\ Day(b, k) \subseteq 1..k
BY DEF Hours, Past, Day

\* Of places E and, if it is of their kind, the new one k behind them: which is first.
FirstIs(k, S, E, new) ==
  /\ S # {} /\ k = Min(S) <=> new /\ E = {}
  /\ E # {} => Min(S) = Min(E)

\* A bar is the first of its kind if none of the b before it on its day was.
LEMMA FirstOfItsKind ==
  ASSUME NEW k \in Nat \ {0}, NEW E \in SUBSET (1..(k - 1)), NEW new \in BOOLEAN,
         NEW S, S = E \cup (IF new THEN {k} ELSE {})
  PROVE  FirstIs(k, S, E, new)
<1>1. S \in SUBSET Nat /\ E \in SUBSET Nat
  OBVIOUS
<1>2. ASSUME E # {} PROVE Min(S) = Min(E) /\ Min(S) # k
  <2>1. Least(E, Min(E))
    BY <1>1, <1>2, LeastExists
  <2>2. Min(E) \in 1..(k - 1) /\ \A x \in E : Min(E) <= x
    BY <2>1 DEF Least
  <2>3. Least(S, Min(E)) /\ Min(E) # k
    BY <2>1, <2>2 DEF Least
  <2>4. QED BY <1>1, <2>3, MinIsLeast
<1>3. ASSUME E = {}, new PROVE Min(S) = k /\ S # {}
  <2>1. Least(S, k)
    BY <1>3 DEF Least
  <2>2. QED BY <1>1, <2>1, MinIsLeast DEF Least
<1>4. E = {} /\ ~new => S = {}
  OBVIOUS
<1>5. QED BY <1>2, <1>3, <1>4 DEF FirstIs

\* Once a day's session has begun, its later b are past the opening.
LEMMA AfterOpening ==
  ASSUME NEW b, TapeOK(b), NEW k \in 1..Len(b), Hours(b, k) # {}
  PROVE  Minute(b, k) >= MarketOpen
<1>1. PICK j \in Hours(b, k) : TRUE
  OBVIOUS
<1>2. j \in 1..k /\ Date(b, j) = Date(b, k) /\ Minute(b, j) >= MarketOpen
  BY <1>1 DEF Hours, Day, WithinHours, Date, Minute
<1>3. QED BY <1>2, DaysFollow, HoursAreMinutes

\* The b of a day before its session are ahead of its squaring off, unless that
\* comes before the opening.
LEMMA BeforeOpening ==
  ASSUME NEW b, TapeOK(b), MarketOpen <= SquareoffMinute,
         NEW k \in 1..Len(b), WithinHours(b[k].ts), Earlier(b, k, Hours(b, k - 1)) = {}
  PROVE  Earlier(b, k, Past(b, k - 1)) = {}
<1> SUFFICES ASSUME k > 1, Date(b, k - 1) = Date(b, k), NEW x \in Past(b, k - 1)
             PROVE  FALSE
  BY DEF Earlier
<1>1. /\ x \in 1..(k - 1) /\ Date(b, x) = Date(b, k) /\ Minute(b, x) >= SquareoffMinute
      /\ x \in Day(b, k - 1)
  BY DEF Past, Day, Date, Minute
<1>2. Minute(b, x) <= Minute(b, k) /\ Minute(b, x) \in Nat /\ Minute(b, k) \in Nat
  BY <1>1, DaysFollow
<1>3. Minute(b, k) < MarketClose
  BY DEF WithinHours, Minute
<1>4. WithinHours(b[x].ts)
  BY <1>1, <1>2, <1>3, HoursAreMinutes DEF WithinHours, Minute
<1>5. x \in Hours(b, k - 1)
  BY <1>1, <1>4 DEF Hours
<1>6. QED BY <1>5 DEF Earlier

-----------------------------------------------------------------------------
(* The session tracker *)

InTurn == MarketOpen <= SquareoffMinute

\* The range of the b from one to another.
RangeOf(b, lo, hi, t) ==
  /\ Greatest({b[k].high : k \in lo..hi}, t.high)
  /\ Least({b[k].low : k \in lo..hi}, t.low)

TrackerShape == [date: Int, high: Int, low: Int, in: BOOLEAN, squared: BOOLEAN]
ToldShape ==
  [start: BOOLEAN, squareoff: BOOLEAN, end: BOOLEAN, in: BOOLEAN, high: Int, low: Int]

\* What the tracker holds of the first k b: the day whose session it is or was
\* in, the session's range, and that it was squared off.
Follows(b, t, k) ==
  IF k = 0 THEN t.date = -1 /\ ~t.in
  ELSE /\ IF Hours(b, k) # {} THEN t.date = Date(b, k) ELSE t.date < Date(b, k) /\ ~t.in
       /\ t.in => RangeOf(b, Min(Hours(b, k)), k, t)
       /\ InTurn /\ Hours(b, k) # {} => (t.squared <=> Past(b, k) # {})

\* A session ends with its day, and no sooner than it is squared off.
EndsInTime(b, t, k) ==
  k \in 1..(Len(b) - 1) =>
    /\ t.in => Date(b, k + 1) = Date(b, k)
    /\ InTurn /\ Hours(b, k) # {} /\ Past(b, k) = {} /\ Date(b, k + 1) = Date(b, k) => t.in

\* What is said of a bar.
TellsRight(b, r, k) ==
  /\ r.start <=> Hours(b, k) # {} /\ k = Min(Hours(b, k))
  /\ InTurn => (r.squareoff
                  <=> Hours(b, k) # {} /\ Past(b, k) # {} /\ k = Min(Past(b, k)))
  /\ r.in => Hours(b, k) # {} /\ RangeOf(b, Min(Hours(b, k)), k, r)

Before(b, k) == IF k = 1 THEN {} ELSE {b[k - 1].ts}

\* What a tape knows of a bar.
LEMMA BarFields ==
  ASSUME NEW b, TapeOK(b), NEW k \in 1..Len(b)
  PROVE  /\ b[k].ts \in Nat /\ b[k].open \in Int /\ b[k].high \in Int
         /\ b[k].low \in Int /\ b[k].low <= b[k].open /\ b[k].open <= b[k].high
<1>1. b[k] \in BarShape
  BY DEF TapeOK
<1>2. QED BY <1>1 DEF BarShape

\* A range takes in one more bar.
LEMMA RangeGrows ==
  ASSUME NEW b, TapeOK(b), NEW k \in 2..Len(b), NEW lo \in 1..(k - 1), NEW t \in TrackerShape,
         t.in, RangeOf(b, lo, k - 1, t)
  PROVE  RangeOf(b, lo, k, Ranged(t, b[k]))
<1> DEFINE r == Ranged(t, b[k])
           h == b[k].high
           l == b[k].low
<1>1. h \in Int /\ l \in Int
  BY BarFields
<1>2. /\ r.high = (IF h > t.high THEN h ELSE t.high)
      /\ r.low = (IF l < t.low THEN l ELSE t.low)
      /\ t.high \in Int /\ t.low \in Int
  BY DEF Ranged, TrackerShape
<1>3. /\ {b[j].high : j \in lo..k} = {b[j].high : j \in lo..(k - 1)} \cup {h}
      /\ {b[j].low : j \in lo..k} = {b[j].low : j \in lo..(k - 1)} \cup {l}
  <2>1. lo..k = (lo..(k - 1)) \cup {k}
    OBVIOUS
  <2>2. QED BY <2>1
<1>4. /\ {b[j].high : j \in lo..(k - 1)} \subseteq Int
      /\ {b[j].low : j \in lo..(k - 1)} \subseteq Int
  <2>1. \A j \in lo..(k - 1) : b[j].high \in Int /\ b[j].low \in Int
    BY BarFields
  <2>2. QED BY <2>1
<1> HIDE DEF r, h, l
<1>5. Greatest({b[j].high : j \in lo..k}, r.high)
  <2> DEFINE H == {b[j].high : j \in lo..(k - 1)}
  <2>1. Greatest(H, t.high) /\ H \subseteq Int
    BY <1>4 DEF RangeOf
  <2> HIDE DEF H
  <2>2. Greatest(H \cup {h}, r.high)
    BY <1>1, <1>2, <2>1 DEF Greatest
  <2>3. QED BY <2>2, <1>3 DEF H
<1>6. Least({b[j].low : j \in lo..k}, r.low)
  <2> DEFINE L == {b[j].low : j \in lo..(k - 1)}
  <2>1. Least(L, t.low) /\ L \subseteq Int
    BY <1>4 DEF RangeOf
  <2> HIDE DEF L
  <2>2. Least(L \cup {l}, r.low)
    BY <1>1, <1>2, <2>1 DEF Least
  <2>3. QED BY <2>2, <1>3 DEF L
<1>7. QED BY <1>5, <1>6 DEF RangeOf, r

\* And begins with one.
LEMMA RangeBegins ==
  ASSUME NEW b, TapeOK(b), NEW k \in 1..Len(b), NEW t
  PROVE  RangeOf(b, k, k, Ranged(Reset(t, b[k]), b[k]))
<1> DEFINE r == Ranged(Reset(t, b[k]), b[k])
<1>1. r.high = b[k].high /\ r.low = b[k].low
  BY BarFields DEF Ranged, Reset
<1>2. k..k = {k}
  OBVIOUS
<1>3. /\ {b[j].high : j \in k..k} = {b[k].high}
      /\ {b[j].low : j \in k..k} = {b[k].low}
  BY <1>2
<1>4. QED BY <1>1, <1>3, BarFields DEF RangeOf, Greatest, Least

\* Handling a bar, with all that came before it known.
LEMMA BarIsTold ==
  ASSUME NEW b, TapeOK(b), NEW k \in 1..Len(b), k = Len(b), NEW t \in TrackerShape,
         Follows(b, t, k - 1), EndsInTime(b, t, k - 1), NEW next
  PROVE  LET u == Update(t, b[k], Before(b, k), next) IN
         /\ TellsRight(b, u.told, k) /\ Follows(b, u.next, k)
         /\ u.told \in ToldShape /\ u.next \in TrackerShape
         /\ u.next.in => ~IsSessionEnd(b[k].ts, next)
         /\ InTurn /\ Hours(b, k) # {} /\ Past(b, k) = {} =>
              u.next.in \/ IsSessionEnd(b[k].ts, next)
<1> DEFINE bar == b[k]
           hours == Earlier(b, k, Hours(b, k - 1))
           past == Earlier(b, k, Past(b, k - 1))
           within == WithinHours(bar.ts)
           reached == Minute(b, k) >= SquareoffMinute
           start == Starts(t, bar, Before(b, k))
           opened == Ranged(IF start THEN Reset(t, bar) ELSE t, bar)
           end == IsSessionEnd(bar.ts, next)
<1>1. /\ Date(b, k) \in Nat /\ Minute(b, k) \in Nat /\ DateOf(bar.ts) = Date(b, k)
      /\ k > 1 => Date(b, k - 1) \in Nat /\ Minute(b, k - 1) \in Nat /\ Date(b, k - 1) <= Date(b, k)
  BY DaysFollow DEF Date
<1>2. /\ Hours(b, k) = hours \cup (IF within THEN {k} ELSE {})
      /\ Past(b, k) = past \cup (IF reached THEN {k} ELSE {})
      /\ hours \in SUBSET (1..(k - 1)) /\ past \in SUBSET (1..(k - 1))
  BY HoursGrow, HoursArePlaces DEF Earlier
<1>3. /\ within \in BOOLEAN /\ reached \in BOOLEAN /\ start \in BOOLEAN /\ end \in BOOLEAN
  <2>1. within \in BOOLEAN /\ reached \in BOOLEAN
    BY SMT DEF WithinHours
  <2>2. \A p : IsSessionStart(p, bar.ts) \in BOOLEAN
    BY Zenon DEF IsSessionStart
  <2>3. start \in BOOLEAN
    BY <2>1, <2>2, Zenon DEF Starts
  <2>4. end \in BOOLEAN
    BY Zenon DEF IsSessionEnd
  <2>5. QED BY <2>1, <2>3, <2>4
<1>4. /\ Hours(b, k) # {} /\ k = Min(Hours(b, k)) <=> within /\ hours = {}
      /\ hours # {} => Min(Hours(b, k)) = Min(hours)
      /\ Past(b, k) # {} /\ k = Min(Past(b, k)) <=> reached /\ past = {}
  <2> HIDE DEF hours, past, within, reached
  <2>1. k \in Nat \ {0}
    OBVIOUS
  <2>2. FirstIs(k, Hours(b, k), hours, within)
    BY ONLY <1>2, <1>3, <2>1, FirstOfItsKind
  <2>3. FirstIs(k, Past(b, k), past, reached)
    BY ONLY <1>2, <1>3, <2>1, FirstOfItsKind
  <2>4. QED BY <2>2, <2>3 DEF FirstIs
\* Before this bar the tracker was of an earlier day, or of this one's session.
<1>5. /\ hours = {} => t.date < Date(b, k) /\ ~t.in
      /\ hours # {} =>
           /\ k > 1 /\ Date(b, k - 1) = Date(b, k) /\ t.date = Date(b, k)
           /\ hours = Hours(b, k - 1) /\ past = Past(b, k - 1)
           /\ t.in => RangeOf(b, Min(hours), k - 1, t)
           /\ InTurn => (t.squared <=> past # {})
           /\ InTurn /\ past = {} => t.in
  <2>1. t.date \in Int
    BY DEF TrackerShape
  <2>2. CASE k = 1
    BY <1>1, <2>2 DEF Follows, Earlier
  <2>3. CASE k > 1 /\ Date(b, k - 1) # Date(b, k)
    <3>1. k - 1 \in 1..(Len(b) - 1) /\ (k - 1) + 1 = k /\ k - 1 # 0
      BY <2>3
    <3>2. ~t.in
      BY <2>3, <3>1 DEF EndsInTime
    <3>3. t.date <= Date(b, k - 1)
      BY <1>1, <2>1, <2>3, <3>1 DEF Follows
    <3>4. QED BY <1>1, <2>1, <2>3, <3>2, <3>3 DEF Earlier
  <2>4. CASE k > 1 /\ Date(b, k - 1) = Date(b, k)
    <3>1. k - 1 \in 1..(Len(b) - 1) /\ (k - 1) + 1 = k /\ k - 1 # 0
      BY <2>4
    <3>2. hours = Hours(b, k - 1) /\ past = Past(b, k - 1)
      BY <2>4 DEF Earlier
    <3>3. QED BY <1>1, <2>1, <2>4, <3>1, <3>2 DEF Follows, EndsInTime
  <2>5. QED BY <2>2, <2>3, <2>4
<1>6. start <=> within /\ hours = {}
  <2>1. CASE hours = {}
    <3>1. t.date # DateOf(bar.ts)
      BY <1>1, <1>5, <2>1 DEF TrackerShape
    <3>2. QED BY <2>1, <3>1 DEF Starts
  <2>2. CASE hours # {}
    <3>1. Minute(b, k - 1) >= MarketOpen /\ k > 1 /\ Date(b, k - 1) = Date(b, k)
      BY <1>5, <2>2, AfterOpening
    <3>2. ~IsSessionStart(b[k - 1].ts, bar.ts)
      BY <1>1, <3>1, HoursAreMinutes DEF IsSessionStart, Date, Minute
    <3>3. t.date = DateOf(bar.ts) /\ Before(b, k) = {b[k - 1].ts}
      BY <1>1, <1>5, <2>2, <3>1 DEF Before
    <3>4. QED BY <2>2, <3>2, <3>3 DEF Starts
  <2>3. QED BY <2>1, <2>2
<1>7. /\ opened \in TrackerShape
      /\ opened.date = (IF start THEN Date(b, k) ELSE t.date)
      /\ opened.in = (start \/ t.in)
      /\ opened.squared = (~start /\ t.squared)
  <2> DEFINE base == IF start THEN Reset(t, bar) ELSE t
  <2>1. base \in TrackerShape
    BY <1>1, BarFields DEF Reset, TrackerShape
  <2>2. /\ base.date = (IF start THEN Date(b, k) ELSE t.date)
        /\ base.in = (start \/ t.in)
        /\ base.squared = (~start /\ t.squared)
    BY <1>1, <1>3 DEF Reset, TrackerShape
  <2>3. bar.high \in Int /\ bar.low \in Int
    BY BarFields
  <2> HIDE DEF base
  <2>4. /\ Ranged(base, bar) \in TrackerShape
        /\ Ranged(base, bar).date = base.date /\ Ranged(base, bar).in = base.in
        /\ Ranged(base, bar).squared = base.squared
    BY <2>1, <2>3 DEF Ranged, TrackerShape
  <2>5. QED BY <2>2, <2>4 DEF base
<1>8. opened.in => Hours(b, k) # {} /\ RangeOf(b, Min(Hours(b, k)), k, opened)
  <2>1. CASE start
    BY <1>4, <1>6, <2>1, RangeBegins
  <2>2. CASE ~start /\ t.in
    <3>1. hours # {} /\ RangeOf(b, Min(hours), k - 1, t) /\ k \in 2..Len(b)
      BY <1>5, <2>2
    <3>2. Min(hours) \in 1..(k - 1)
      <4> HIDE DEF hours
      <4>1. hours \in SUBSET Nat /\ hours # {}
        BY <1>2, <3>1
      <4>2. QED BY <1>2, <4>1, LeastExists DEF Least
    <3>3. RangeOf(b, Min(hours), k, Ranged(t, bar))
      BY <2>2, <3>1, <3>2, RangeGrows
    <3>4. QED BY <1>2, <1>4, <2>2, <3>1, <3>3
  <2>3. QED BY <1>7, <2>1, <2>2
<1>9. InTurn /\ Hours(b, k) # {} =>
        /\ opened.squared <=> past # {}
        /\ past = {} => opened.in
  <2> SUFFICES ASSUME InTurn, Hours(b, k) # {}
               PROVE  (opened.squared <=> past # {}) /\ (past = {} => opened.in)
    OBVIOUS
  <2>1. CASE start
    <3>1. past = {}
      BY <1>6, <2>1, BeforeOpening DEF InTurn
    <3>2. QED BY <1>7, <2>1, <3>1
  <2>2. CASE ~start
    <3>1. hours # {}
      BY <1>2, <1>6, <2>2
    <3>2. QED BY <1>5, <1>7, <2>2, <3>1
  <2>3. QED BY <2>1, <2>2
<1> DEFINE u == Update(t, bar, Before(b, k), next)
<1>10. /\ u.next = [opened EXCEPT !.squared = @ \/ reached, !.in = @ /\ ~end]
       /\ u.told = [start |-> start, squareoff |-> reached /\ ~opened.squared /\ opened.in,
                    end |-> end, in |-> opened.in, high |-> opened.high, low |-> opened.low]
  BY DEF Update, Minute
<1> HIDE DEF u, opened, start, end, hours, past, within, reached, bar
<1>11. /\ u.next \in TrackerShape /\ u.told \in ToldShape
       /\ u.next.date = opened.date /\ u.next.high = opened.high /\ u.next.low = opened.low
       /\ u.next.in = (opened.in /\ ~end) /\ u.next.squared = (opened.squared \/ reached)
  <2>1. /\ opened.date \in Int /\ opened.high \in Int /\ opened.low \in Int
        /\ opened.in \in BOOLEAN /\ opened.squared \in BOOLEAN
        /\ DOMAIN opened = {"date", "high", "low", "in", "squared"}
    BY <1>7 DEF TrackerShape
  <2>2. u.next = [date |-> opened.date, high |-> opened.high, low |-> opened.low,
                  in |-> opened.in /\ ~end, squared |-> opened.squared \/ reached]
    BY <1>7, <1>10 DEF TrackerShape
  <2>3. u.next \in TrackerShape
    BY <1>3, <2>1, <2>2 DEF TrackerShape
  <2>4. u.told \in ToldShape
    BY <1>3, <1>10, <2>1 DEF ToldShape
  <2>5. QED BY <2>2, <2>3, <2>4
<1>12. TellsRight(b, u.told, k)
  <2>1. u.told.start <=> Hours(b, k) # {} /\ k = Min(Hours(b, k))
    BY <1>4, <1>6, <1>10
  <2>2. InTurn => (u.told.squareoff
          <=> Hours(b, k) # {} /\ Past(b, k) # {} /\ k = Min(Past(b, k)))
    <3>1. u.told.squareoff = (reached /\ ~opened.squared /\ opened.in)
      BY <1>10
    <3>2. QED BY <1>4, <1>8, <1>9, <3>1
  <2>3. u.told.in => Hours(b, k) # {} /\ RangeOf(b, Min(Hours(b, k)), k, u.told)
    BY <1>8, <1>10 DEF RangeOf
  <2>4. QED BY <2>1, <2>2, <2>3 DEF TellsRight
<1>13. Follows(b, u.next, k)
  <2>1. Hours(b, k) # {} <=> within \/ hours # {}
    BY <1>2
  <2>2. IF Hours(b, k) # {} THEN u.next.date = Date(b, k) ELSE u.next.date < Date(b, k) /\ ~u.next.in
    BY <1>5, <1>6, <1>7, <1>11, <2>1
  <2>3. u.next.in => RangeOf(b, Min(Hours(b, k)), k, u.next)
    BY <1>8, <1>11 DEF RangeOf
  <2>4. InTurn /\ Hours(b, k) # {} => (u.next.squared <=> Past(b, k) # {})
    BY <1>2, <1>9, <1>11
  <2>5. QED BY <2>2, <2>3, <2>4 DEF Follows
<1>14. InTurn /\ Hours(b, k) # {} /\ Past(b, k) = {} => u.next.in \/ end
  BY <1>2, <1>9, <1>11
<1>15. QED BY <1>11, <1>12, <1>13, <1>14 DEF u, end, bar

\* What is known of the first bars does not depend on the later ones.
LEMMA SamePlaces ==
  ASSUME NEW b, NEW c, NEW k \in Nat, \A j \in 1..k : c[j] = b[j]
  PROVE  Hours(c, k) = Hours(b, k) /\ Past(c, k) = Past(b, k)
<1>1. \A j \in 1..k : Date(c, j) = Date(b, j) /\ Minute(c, j) = Minute(b, j)
  BY DEF Date, Minute
<1>2. Day(c, k) = Day(b, k)
  <2>1. CASE k = 0
    BY <2>1 DEF Day
  <2>2. CASE k > 0
    BY <1>1, <2>2 DEF Day
  <2>3. QED BY <2>1, <2>2
<1>3. Day(b, k) \subseteq 1..k
  BY HoursArePlaces
<1>4. \A j \in Day(b, k) : WithinHours(c[j].ts) = WithinHours(b[j].ts)
  BY <1>3
<1>5. QED BY <1>1, <1>2, <1>3, <1>4 DEF Hours, Past

\* What was true of a tape up to a bar stays true as it grows.
LEMMA LaterBarsSayNothing ==
  ASSUME NEW b, NEW c, NEW k \in Nat, \A j \in 1..k : c[j] = b[j]
  PROVE  /\ \A t : Follows(b, t, k) => Follows(c, t, k)
         /\ k > 0 => Date(c, k) = Date(b, k)
         /\ k > 0 => \A r : TellsRight(b, r, k) => TellsRight(c, r, k)
<1>1. \A j \in 1..k : Date(c, j) = Date(b, j) /\ Minute(c, j) = Minute(b, j)
  BY DEF Date, Minute
<1>3. Hours(c, k) = Hours(b, k) /\ Past(c, k) = Past(b, k)
  BY SamePlaces
<1>4. Hours(b, k) # {} => \A t : RangeOf(b, Min(Hours(b, k)), k, t)
                                   => RangeOf(c, Min(Hours(b, k)), k, t)
  <2> SUFFICES ASSUME Hours(b, k) # {}
               PROVE  \A t : RangeOf(b, Min(Hours(b, k)), k, t)
                               => RangeOf(c, Min(Hours(b, k)), k, t)
    OBVIOUS
  <2> DEFINE lo == Min(Hours(b, k))
  <2>1. lo \in 1..k
    <3>1. Hours(b, k) \in SUBSET Nat /\ Hours(b, k) \subseteq 1..k
      BY HoursArePlaces
    <3>2. QED BY <3>1, LeastExists DEF Least
  <2> HIDE DEF lo
  <2>2. \A j \in lo..k : c[j] = b[j]
    BY <2>1
  <2>3. /\ {c[j].high : j \in lo..k} = {b[j].high : j \in lo..k}
        /\ {c[j].low : j \in lo..k} = {b[j].low : j \in lo..k}
    BY <2>2
  <2>4. \A t : RangeOf(b, lo, k, t) => RangeOf(c, lo, k, t)
    BY <2>3, Zenon DEF RangeOf
  <2>5. QED BY <2>4 DEF lo
<1>5. \A t : Follows(b, t, k) => Follows(c, t, k)
  <2>1. CASE k = 0
    BY <2>1 DEF Follows
  <2>2. CASE k > 0
    <3>1. Date(c, k) = Date(b, k)
      BY <1>1, <2>2
    <3> SUFFICES ASSUME NEW t, Follows(b, t, k) PROVE Follows(c, t, k)
      OBVIOUS
    <3>2. CASE Hours(b, k) = {}
      BY <1>3, <2>2, <3>1, <3>2 DEF Follows
    <3>3. CASE Hours(b, k) # {}
      BY <1>3, <1>4, <2>2, <3>1, <3>3 DEF Follows
    <3>4. QED BY <3>2, <3>3
  <2>3. QED BY <2>1, <2>2
<1>6. ASSUME k > 0, NEW r, TellsRight(b, r, k) PROVE TellsRight(c, r, k)
  <2>1. r.in => Hours(b, k) # {} /\ RangeOf(c, Min(Hours(b, k)), k, r)
    BY <1>4, <1>6 DEF TellsRight
  <2>2. QED BY <1>3, <1>6, <2>1 DEF TellsRight
<1>7. QED BY <1>1, <1>5, <1>6

\* The tracker and what it told agree with the tape, whose last bar may be unhandled.
DayInv ==
  /\ TapeOK(bars) /\ tracker \in TrackerShape /\ told \in Seq(ToldShape)
  /\ Len(told) <= Len(bars) /\ Len(bars) <= Len(told) + 1
  /\ Follows(bars, tracker, Len(told)) /\ EndsInTime(bars, tracker, Len(told))
  /\ \A k \in 1..Len(told) : TellsRight(bars, told[k], k)

\* Handling the last bar, with the tape as it was or one bar longer.
LEMMA HandleStep ==
  ASSUME DayInv, Len(told) < Len(bars), NEW next, Handle(next), TapeOK(bars'),
         \/ bars' = bars
         \/ /\ Len(bars') = Len(bars) + 1
            /\ \A j \in 1..Len(bars) : bars'[j] = bars[j]
            /\ next = {bars'[Len(bars) + 1].ts}
  PROVE  DayInv'
<1> DEFINE k == Len(bars)
           u == Update(tracker, bars[k], Before(bars, k), next)
<1>1. Len(told) \in Nat /\ k \in Nat /\ k = Len(told) + 1 /\ k - 1 = Len(told) /\ k \in 1..Len(bars)
  BY DEF DayInv, TapeOK
<1>2. /\ tracker' = u.next /\ told' = Append(told, u.told)
  BY DEF Handle, Before
<1>3. PICK v : v = u
  OBVIOUS
<1>4. /\ TellsRight(bars, v.told, k) /\ Follows(bars, v.next, k)
      /\ v.told \in ToldShape /\ v.next \in TrackerShape
      /\ v.next.in => ~IsSessionEnd(bars[k].ts, next)
      /\ InTurn /\ Hours(bars, k) # {} /\ Past(bars, k) = {} =>
           v.next.in \/ IsSessionEnd(bars[k].ts, next)
  <2>1. /\ TapeOK(bars) /\ tracker \in TrackerShape
        /\ Follows(bars, tracker, k - 1) /\ EndsInTime(bars, tracker, k - 1)
    BY <1>1 DEF DayInv
  <2>2. QED BY <1>1, <1>3, <2>1, BarIsTold
<1> HIDE DEF u
<1>5. tracker' = v.next /\ told' = Append(told, v.told)
  BY <1>2, <1>3
<1>6. /\ told \in Seq(ToldShape) /\ told' \in Seq(ToldShape) /\ Len(told') = k
      /\ told'[k] = v.told /\ \A j \in 1..(k - 1) : told'[j] = told[j]
  BY <1>1, <1>4, <1>5 DEF DayInv
<1>7. /\ \A j \in 1..k : bars'[j] = bars[j]
      /\ Len(bars') \in Nat /\ k <= Len(bars') /\ Len(bars') <= k + 1
  BY <1>1
<1>8. Follows(bars', tracker', k)
  BY <1>1, <1>4, <1>5, <1>7, LaterBarsSayNothing
<1>9. \A j \in 1..k : TellsRight(bars', told'[j], j)
  <2> SUFFICES ASSUME NEW j \in 1..k PROVE TellsRight(bars', told'[j], j)
    OBVIOUS
  <2>1. TellsRight(bars, told'[j], j)
    BY <1>1, <1>4, <1>6 DEF DayInv
  <2>2. j \in Nat /\ j > 0 /\ \A i \in 1..j : bars'[i] = bars[i]
    BY <1>7
  <2>3. QED BY <2>1, <2>2, LaterBarsSayNothing
<1>10. EndsInTime(bars', tracker', k)
  <2> SUFFICES ASSUME k \in 1..(Len(bars') - 1) PROVE
         /\ tracker'.in => Date(bars', k + 1) = Date(bars', k)
         /\ InTurn /\ Hours(bars', k) # {} /\ Past(bars', k) = {}
              /\ Date(bars', k + 1) = Date(bars', k) => tracker'.in
    BY DEF EndsInTime
  <2>1. next = {bars'[k + 1].ts} /\ Date(bars', k) = DateOf(bars[k].ts)
        /\ Date(bars', k + 1) = DateOf(bars'[k + 1].ts)
    BY <1>1, <1>7 DEF Date
  <2>2. IsSessionEnd(bars[k].ts, next)
          <=> Minute(bars, k) >= MarketClose \/ Date(bars', k + 1) # Date(bars', k)
    BY <2>1 DEF IsSessionEnd, Minute
  <2>3. Hours(bars', k) = Hours(bars, k) /\ Past(bars', k) = Past(bars, k)
    BY <1>1, <1>7, SamePlaces
  <2>4. ASSUME InTurn, Hours(bars, k) # {}, Past(bars, k) = {}
        PROVE  ~(Minute(bars, k) >= MarketClose)
    <3>1. k \notin Past(bars, k)
      BY <2>4
    <3>2. ~(Minute(bars, k) >= SquareoffMinute)
      BY <1>1, <3>1 DEF Past, Day
    <3>3. Minute(bars, k) \in Nat
      BY <1>1, DaysFollow DEF DayInv
    <3>4. QED BY <3>2, <3>3, HoursAreMinutes
  <2>5. QED BY <1>4, <1>5, <2>2, <2>3, <2>4
<1>11. QED
  BY <1>1, <1>4, <1>5, <1>6, <1>7, <1>8, <1>9, <1>10 DEF DayInv

\* The strengthening of the theorem that follows.
LEMMA DaysAreKept ==
  /\ DayInit => DayInv
  /\ DayInv /\ [DayNext]_dayVars => DayInv'
<1>1. ASSUME DayInit PROVE DayInv
  <2>1. bars = <<>> /\ told = <<>> /\ Len(bars) = 0 /\ Len(told) = 0
    BY <1>1 DEF DayInit
  <2>2. tracker \in TrackerShape /\ tracker.date = -1 /\ ~tracker.in
    BY <1>1 DEF DayInit, TrackerShape
  <2>3. TapeOK(bars) /\ told \in Seq(ToldShape)
    BY <2>1 DEF TapeOK
  <2>4. Follows(bars, tracker, Len(told)) /\ EndsInTime(bars, tracker, Len(told))
    BY <2>1, <2>2 DEF Follows, EndsInTime
  <2>5. QED BY <2>1, <2>2, <2>3, <2>4 DEF DayInv
<1>2. ASSUME DayInv, NEW gap \in Gaps, NEW range \in Ranges, NextBar(gap, range) PROVE DayInv'
  <2> DEFINE ts == (IF bars = <<>> THEN 0 ELSE Last(bars).ts) + gap
             new == [ts |-> ts, open |-> range.open, high |-> range.high, low |-> range.low]
             n == Len(bars)
  <2>1. bars \in Seq(BarShape) /\ n \in Nat /\ bars' = Append(bars, new)
    BY <1>2 DEF NextBar, DayInv, TapeOK
  <2>2. new \in BarShape /\ ts \in Nat /\ (n > 0 => bars[n].ts <= ts)
    <3>1. range \in [open: Int, high: Int, low: Int] /\ range.low <= range.open
          /\ range.open <= range.high /\ gap \in Nat
      BY DayAssumption
    <3>2. ts \in Nat /\ (n > 0 => bars[n].ts <= ts)
      <4>1. CASE bars = <<>>
        BY <3>1, <4>1
      <4>2. CASE bars # <<>>
        <5>1. n > 0 /\ Last(bars) = bars[n] /\ bars[n].ts \in Nat
          BY <2>1, <4>2 DEF Last, BarShape
        <5>2. QED BY <3>1, <4>2, <5>1
      <4>3. QED BY <4>1, <4>2
    <3> HIDE DEF ts
    <3>3. QED BY <3>1, <3>2 DEF BarShape
  <2>3. /\ bars' \in Seq(BarShape) /\ Len(bars') = n + 1 /\ bars'[n + 1] = new
        /\ \A j \in 1..n : bars'[j] = bars[j]
    <3> HIDE DEF new
    <3> QED BY <2>1, <2>2
  <2>4. TapeOK(bars')
    <3> SUFFICES ASSUME NEW j \in 1..(n + 1), NEW k \in 1..(n + 1), j <= k
                 PROVE  bars'[j].ts <= bars'[k].ts
      BY <2>3 DEF TapeOK
    <3>1. CASE k <= n
      BY <1>2, <2>1, <2>3, <3>1 DEF DayInv, TapeOK
    <3>2. CASE k = n + 1 /\ j <= n
      <4>1. bars[j].ts <= bars[n].ts /\ bars[j].ts \in Nat /\ bars[n].ts \in Nat
        BY <1>2, <2>1, <3>2, BarFields DEF DayInv, TapeOK
      <4>2. bars'[k].ts = ts /\ bars'[j] = bars[j] /\ n > 0
        BY <2>1, <2>3, <3>2
      <4>3. QED BY <2>2, <4>1, <4>2
    <3>3. CASE k = n + 1 /\ j = n + 1
      BY <2>2, <2>3, <3>3
    <3>4. QED BY <2>1, <3>1, <3>2, <3>3
  <2>5. CASE bars = <<>>
    <3>1. n = 0 /\ Len(told) = 0 /\ UNCHANGED <<tracker, told>>
      BY <1>2, <2>5 DEF NextBar, DayInv
    <3>2. Follows(bars', tracker', Len(told'))
      BY <1>2, <3>1 DEF DayInv, Follows
    <3>3. EndsInTime(bars', tracker', Len(told'))
      BY <3>1 DEF EndsInTime
    <3>4. QED BY <1>2, <2>3, <2>4, <3>1, <3>2, <3>3 DEF DayInv
  <2>6. CASE bars # <<>>
    <3>1. Len(told) < n /\ Handle({ts})
      BY <1>2, <2>6 DEF NextBar
    <3>2. {ts} = {bars'[n + 1].ts}
      BY <2>3
    <3> HIDE DEF ts, new
    <3>3. QED BY <1>2, <2>3, <2>4, <3>1, <3>2, HandleStep
  <2>7. QED BY <2>5, <2>6
<1>3. ASSUME DayInv, LastBar PROVE DayInv'
  <2>1. /\ Len(told) < Len(bars) /\ Handle({}) /\ bars' = bars /\ TapeOK(bars')
    BY <1>3 DEF LastBar, DayInv
  <2>2. QED BY <1>3, <2>1, HandleStep
<1>4. ASSUME DayInv, UNCHANGED dayVars PROVE DayInv'
  BY <1>4 DEF DayInv, dayVars
<1>5. QED BY <1>1, <1>2, <1>3, <1>4 DEF DayNext

\* A day has one session, squared off once, with the range of its own bars, for any
\* hours and offset, and however its bars lie.
THEOREM DayHasOneSession == DayInit /\ [][DayNext]_dayVars => []OneSessionADay
<1>1. DayInv => OneSessionADay
  <2> SUFFICES ASSUME DayInv, NEW i \in DOMAIN told
               PROVE  /\ told[i].start <=> InHours(i) # {} /\ i = Min(InHours(i))
                      /\ MarketOpen <= SquareoffMinute =>
                           (told[i].squareoff
                              <=> InHours(i) # {} /\ PastSquareoff(i) # {} /\ i = Min(PastSquareoff(i)))
                      /\ told[i].in =>
                           LET session == Min(InHours(i))..i IN
                           /\ told[i].high = Max({bars[k].high : k \in session})
                           /\ told[i].low = Min({bars[k].low : k \in session})
    BY DEF OneSessionADay
  <2>1. i \in 1..Len(told) /\ i \in 1..Len(bars) /\ TellsRight(bars, told[i], i)
    BY DEF DayInv, TapeOK
  <2>2. InHours(i) = Hours(bars, i) /\ PastSquareoff(i) = Past(bars, i)
    BY DEF InHours, PastSquareoff, SameDay, Hours, Past, Day, Date, Minute
  <2>3. ASSUME told[i].in
        PROVE  /\ told[i].high = Max({bars[k].high : k \in Min(InHours(i))..i})
               /\ told[i].low = Min({bars[k].low : k \in Min(InHours(i))..i})
    <3> DEFINE lo == Min(InHours(i))
               H == {bars[k].high : k \in lo..i}
               L == {bars[k].low : k \in lo..i}
    <3>1. Hours(bars, i) # {} /\ Greatest(H, told[i].high) /\ Least(L, told[i].low)
      BY <2>1, <2>2, <2>3 DEF TellsRight, RangeOf
    <3>2. lo \in 1..i
      <4>1. Hours(bars, i) \in SUBSET Nat /\ Hours(bars, i) \subseteq 1..i
        BY <2>1, HoursArePlaces
      <4>2. QED BY <2>2, <3>1, <4>1, LeastExists DEF Least
    <3> HIDE DEF lo
    <3>3. \A k \in lo..i : bars[k].high \in Int /\ bars[k].low \in Int
      BY <2>1, <3>2, BarFields DEF DayInv
    <3>4. H \in SUBSET Int /\ L \in SUBSET Int
      BY <3>3
    <3> HIDE DEF H, L
    <3>5. QED BY <3>1, <3>4, MinIsLeast, MaxIsGreatest DEF H, L, lo
  <2>4. QED BY <2>1, <2>2, <2>3 DEF TellsRight, InTurn
<1>2. QED BY <1>1, DaysAreKept, PTL
-----------------------------------------------------------------------------
(* The queue of resting limits *)

Level == [price: Nat, size: Nat \cup {Unsized}]
EstimateShape == [ahead: Nat, traded: Nat, price: Nat, side: Sides]
LimitShape == [side: Sides, price: Nat, left: Nat, moved: BOOLEAN, sliced: BOOLEAN]

\* InitialQueue, of any book.
QueueAt(b, side, price) ==
  LET at == {k \in DOMAIN b[side] : b[side][k].price = price} IN
  CASE at # {} -> IF b[side][Min(at)].size = Unsized THEN Unknown ELSE b[side][Min(at)].size
    [] at = {} /\ b[side] # <<>> /\ Better(side, price, Head(b[side]).price) -> 0
    [] OTHER -> Unknown

QuotesOnly == "depth" \notin venue.carries

\* The parts of the state, with their types.
Ranked(b, e, l) ==
  /\ b \in [Sides -> Seq(Level)] /\ l \in Seq(LimitShape)
  /\ DOMAIN e \subseteq DOMAIN l
  /\ \A id \in DOMAIN e :
       /\ e[id] \in EstimateShape /\ e[id].side = l[id].side
       /\ ~l[id].moved => e[id].price = l[id].price

\* No order has more ahead of it than its price displays.
WithinDisplay(b, e) ==
  \A id \in DOMAIN e :
    \/ QueueAt(b, e[id].side, e[id].price) = Unknown
    \/ Remaining(e[id]) <= QueueAt(b, e[id].side, e[id].price)

\* Two orders that came to one price one after the other and stayed in line there.
Rivals(l, i, j) ==
  /\ i < j /\ l[i].left > 0 /\ l[j].left > 0
  /\ l[i].side = l[j].side /\ l[i].price = l[j].price
  /\ ~l[i].moved /\ ~l[j].moved /\ ~l[i].sliced

\* The first of them is in line when the second is, with no more ahead of it.
InLine(e, l) ==
  \A i, j \in DOMAIN l :
    Rivals(l, i, j) /\ j \in DOMAIN e =>
      i \in DOMAIN e /\ Remaining(e[i]) <= Remaining(e[j])

\* Everyone is in line, where quotes alone describe the book.
QueueInv ==
  /\ Ranked(book, estimates, limits)
  /\ QuotesOnly => WithinDisplay(book, estimates) /\ InLine(estimates, limits)

\* A book tells a size, or does not tell.
LEMMA QueueIsNumber ==
  ASSUME NEW b \in [Sides -> Seq(Level)], NEW side \in Sides, NEW price
  PROVE  QueueAt(b, side, price) \in Nat \cup {Unknown}
<1> DEFINE at == {k \in DOMAIN b[side] : b[side][k].price = price}
<1>1. b[side] \in Seq(Level)
  OBVIOUS
<1>2. CASE at # {}
  <2>1. at \in SUBSET Nat
    BY <1>1
  <2>2. Min(at) \in DOMAIN b[side]
    BY <1>2, <2>1, LeastExists DEF Least
  <2>3. b[side][Min(at)] \in Level
    <3> HIDE DEF at
    <3> QED BY <1>1, <2>2
  <2>4. b[side][Min(at)].size \in Nat \cup {Unsized}
    <3> HIDE DEF at
    <3> QED BY <2>3 DEF Level
  <2>5. QED BY <1>2, <2>4 DEF QueueAt
<1>3. CASE at = {}
  BY <1>3 DEF QueueAt
<1>4. QED BY <1>2, <1>3

\* The queue at a price that a touch alone tells.
Shown(side, price, touch) ==
  CASE touch.price = 0 -> Unknown
    [] touch.price # 0 /\ touch.price = price ->
         IF touch.size = Unsized \/ touch.size = 0 THEN Unknown ELSE touch.size
    [] touch.price # 0 /\ touch.price # price ->
         IF Better(side, price, touch.price) THEN 0 ELSE Unknown

TouchShape == [price: Nat, size: Nat \cup {Unsized}]

\* A quote has a touch on either side.
LEMMA QuotesAreTouches ==
  ASSUME NEW q \in Quotes
  PROVE  \A side \in Sides : q[side] \in TouchShape
<1>1. PICK p \in Prices \cup {0}, s \in Sizes \cup {Unsized} :
        q = [Bid |-> Touch(p, s), Ask |-> Touch(p + 1, s)]
  BY DEF Quotes
<1>2. p \in Nat /\ p + 1 \in Nat /\ s \in Nat \cup {Unsized}
  BY QueueAssumption
<1>3. QED BY <1>1, <1>2 DEF Touch, TouchShape, Sides

\* What a quote alone tells of the queue at a price.
LEMMA QuoteShows ==
  ASSUME NEW q \in Quotes, NEW side \in Sides, NEW price \in Nat
  PROVE  /\ QuotedBook(q) \in [Sides -> Seq(Level)]
         /\ QueueAt(QuotedBook(q), side, price) = Shown(side, price, q[side])
<1> DEFINE level(s) == [price |-> q[s].price,
                        size |-> IF q[s].size = Unsized \/ q[s].size = 0 THEN Unsized ELSE q[s].size]
<1>1. \A s \in Sides : /\ q[s] \in TouchShape /\ level(s) \in Level
                       /\ QuotedBook(q)[s] = IF q[s].price = 0 THEN <<>> ELSE <<level(s)>>
  BY QuotesAreTouches DEF QuotedBook, TopLevel, TouchShape, Level, Sides
<1>2. QuotedBook(q) \in [Sides -> Seq(Level)]
  <2>1. DOMAIN QuotedBook(q) = Sides /\ QuotedBook(q) = [s \in Sides |-> QuotedBook(q)[s]]
    BY DEF QuotedBook, Sides
  <2>2. \A s \in Sides : QuotedBook(q)[s] \in Seq(Level)
    <3> HIDE DEF level
    <3> SUFFICES ASSUME NEW s \in Sides PROVE QuotedBook(q)[s] \in Seq(Level)
      OBVIOUS
    <3>1. level(s) \in Level /\ (QuotedBook(q)[s] = <<>> \/ QuotedBook(q)[s] = <<level(s)>>)
      BY <1>1
    <3>2. <<level(s)>> \in Seq(Level) /\ <<>> \in Seq(Level)
      BY <3>1
    <3>3. QED BY <3>1, <3>2
  <2>3. QED BY <2>1, <2>2
<1> DEFINE b == QuotedBook(q)
           at == {k \in DOMAIN b[side] : b[side][k].price = price}
<1>3. CASE q[side].price = 0
  <2>1. b[side] = <<>>
    BY <1>1, <1>3
  <2> HIDE DEF b
  <2>2. at = {}
    BY <2>1
  <2>3. QueueAt(b, side, price) = Unknown
    BY <2>1, <2>2 DEF QueueAt
  <2>4. QED BY <1>2, <1>3, <2>3 DEF Shown, b
<1>4. CASE q[side].price # 0
  <2>1. b[side] = <<level(side)>>
    BY <1>1, <1>4
  <2>2. DOMAIN b[side] = {1} /\ b[side][1] = level(side) /\ Head(b[side]) = level(side)
    <3> HIDE DEF level, b
    <3> QED BY <2>1
  <2>3. CASE q[side].price = price
    <3>1. at = {1}
      BY <2>2, <2>3
    <3>2. Min(at) = 1
      <4>1. {1} \in SUBSET Int /\ Least({1}, 1)
        BY DEF Least
      <4>2. QED BY <3>1, <4>1, MinIsLeast
    <3>3. QueueAt(b, side, price) = IF level(side).size = Unsized THEN Unknown ELSE level(side).size
      <4> HIDE DEF level, b
      <4> QED BY <2>2, <3>1, <3>2 DEF QueueAt
    <3>4. QED BY <1>2, <1>4, <2>3, <3>3 DEF Shown
  <2>4. CASE q[side].price # price
    <3>1. at = {}
      BY <2>2, <2>4
    <3>2. QueueAt(b, side, price) = IF Better(side, price, level(side).price) THEN 0 ELSE Unknown
      <4>1. b[side] # <<>>
        BY <2>1
      <4> HIDE DEF level, b
      <4> QED BY <2>2, <3>1, <4>1 DEF QueueAt
    <3>3. QED BY <1>2, <1>4, <2>4, <3>2 DEF Shown
  <2>5. QED BY <2>3, <2>4
<1>5. QED BY <1>2, <1>3, <1>4

\* A quote shortens what is ahead of an order to what it shows, or leaves it; and it
\* does the same to all orders of one price.
LEMMA QuoteTightens ==
  ASSUME NEW q \in Quotes, NEW e \in EstimateShape
  PROVE  /\ Tightened(e, q) \in EstimateShape
         /\ Tightened(e, q).side = e.side /\ Tightened(e, q).price = e.price
         /\ Remaining(e) \in Nat
         /\ Remaining(Tightened(e, q)) =
              LET touch == q[e.side] IN
              IF touch.price > 0 /\ Better(e.side, e.price, touch.price) THEN 0
              ELSE IF touch.price = e.price /\ touch.size # Unsized /\ touch.size < Remaining(e)
                   THEN touch.size ELSE Remaining(e)
<1> DEFINE touch == q[e.side]
<1>1. /\ e.ahead \in Nat /\ e.traded \in Nat /\ e.price \in Nat /\ e.side \in Sides
      /\ DOMAIN e = {"ahead", "traded", "price", "side"}
  BY DEF EstimateShape
<1>2. touch \in TouchShape
  BY <1>1, QuotesAreTouches
<1>3. touch.price \in Nat /\ touch.size \in Nat \cup {Unsized}
  BY <1>2 DEF TouchShape
<1>4. Remaining(e) \in Nat /\ \A n \in Nat : NonNegative((e.traded + n) - e.traded) = n
  BY <1>1 DEF Remaining, NonNegative
<1> HIDE DEF touch
<1>5. CASE touch.price > 0 /\ Better(e.side, e.price, touch.price)
  <2>1. touch.price # e.price
    BY <1>1, <1>3, <1>5 DEF Better
  <2> Tightened(e, q) = [e EXCEPT !.ahead = e.traded]
    BY <1>5, <2>1 DEF Tightened, touch
  <2>2. Remaining(Tightened(e, q)) = 0
    BY <1>1 DEF Remaining, NonNegative
  <2>3. QED BY <1>1, <1>4, <1>5, <2>2 DEF EstimateShape, touch
<1>6. CASE /\ ~(touch.price > 0 /\ Better(e.side, e.price, touch.price))
           /\ touch.price = e.price /\ touch.size # Unsized /\ touch.size < Remaining(e)
  <2>1. Tightened(e, q) = [e EXCEPT !.ahead = e.traded + touch.size]
    BY <1>6 DEF Tightened, touch
  <2>2. touch.size \in Nat
    BY <1>3, <1>6
  <2>3. Remaining(Tightened(e, q)) = touch.size
    BY <1>1, <1>4, <2>1, <2>2 DEF Remaining
  <2>4. /\ Tightened(e, q) \in EstimateShape
        /\ Tightened(e, q).side = e.side /\ Tightened(e, q).price = e.price
    BY <1>1, <2>1, <2>2 DEF EstimateShape
  <2>5. QED BY <1>4, <1>6, <2>3, <2>4 DEF touch
<1>7. CASE /\ ~(touch.price > 0 /\ Better(e.side, e.price, touch.price))
           /\ ~(touch.price = e.price /\ touch.size # Unsized /\ touch.size < Remaining(e))
  <2>1. Tightened(e, q) = e
    BY <1>7 DEF Tightened, touch
  <2>2. QED BY <1>4, <1>7, <2>1 DEF touch
<1>8. QED BY <1>5, <1>6, <1>7

\* An estimate has its order's side, and counts numbers.
LEMMA EstimateTypes ==
  ASSUME Ranked(book, estimates, limits), NEW id \in DOMAIN limits
  PROVE  /\ limits[id] \in LimitShape
         /\ Estimate(id).side = limits[id].side /\ Estimate(id).price = limits[id].price
         /\ Estimate(id).traded \in Nat /\ Estimate(id).ahead \in Nat \cup {Unknown}
         /\ Estimate(id).ahead \in Nat => Estimate(id) \in EstimateShape
         /\ id \in DOMAIN estimates /\ estimates[id].price = limits[id].price =>
              Estimate(id) = estimates[id] /\ estimates[id] \in EstimateShape
         /\ ~(id \in DOMAIN estimates /\ estimates[id].price = limits[id].price) =>
              Estimate(id).traded = 0
                /\ Estimate(id).ahead = QueueAt(book, limits[id].side, limits[id].price)
<1>1. limits[id] \in LimitShape
  BY DEF Ranked
<1>2. limits[id].side \in Sides /\ limits[id].price \in Nat
  BY <1>1 DEF LimitShape
<1>3. CASE id \in DOMAIN estimates /\ estimates[id].price = limits[id].price
  <2>1. Estimate(id) = estimates[id]
    BY <1>3 DEF Estimate
  <2>2. estimates[id] \in EstimateShape /\ estimates[id].side = limits[id].side
    BY <1>3 DEF Ranked
  <2>3. estimates[id].ahead \in Nat /\ estimates[id].traded \in Nat
    BY <2>2 DEF EstimateShape
  <2>4. QED BY <1>1, <1>3, <2>1, <2>2, <2>3
<1>4. CASE ~(id \in DOMAIN estimates /\ estimates[id].price = limits[id].price)
  <2> DEFINE q == QueueAt(book, limits[id].side, limits[id].price)
  <2>1. q \in Nat \cup {Unknown}
    BY <1>2, QueueIsNumber DEF Ranked
  <2>2. InitialQueue(limits[id].side, limits[id].price) = q
    BY DEF InitialQueue, QueueAt, LevelsAt
  <2> HIDE DEF q
  <2>3. Estimate(id) = [ahead |-> q, traded |-> 0, price |-> limits[id].price, side |-> limits[id].side]
    BY <1>4, <2>2 DEF Estimate
  <2>4. Estimate(id).ahead \in Nat => Estimate(id) \in EstimateShape
    BY <1>2, <2>3 DEF EstimateShape
  <2>5. QED BY <1>1, <1>4, <2>1, <2>3, <2>4 DEF q
<1>5. QED BY <1>3, <1>4

\* What a print does with the estimate and the limit of one order.
Outcome(id, price, size) ==
  /\ limits'[id].side = limits[id].side /\ limits'[id].price = limits[id].price
  /\ limits'[id].moved = limits[id].moved /\ limits'[id] \in LimitShape
  /\ limits[id].sliced => limits'[id].sliced
  /\ limits'[id].left > 0 => limits[id].left > 0
  /\ \/ /\ ~Reaches(id, price) \/ Judged(id, price, size) = "Unknown"
        /\ id \in DOMAIN estimates' <=> id \in DOMAIN estimates
        /\ id \in DOMAIN estimates => estimates'[id] = estimates[id]
     \/ /\ Reaches(id, price) /\ Judged(id, price, size) = "Resting"
        /\ id \in DOMAIN estimates' /\ estimates'[id] = Joined(id, size)
     \/ /\ Reaches(id, price) /\ Judged(id, price, size) \in {"FilledThrough", "FilledInQueue"}
        /\ id \notin DOMAIN estimates'
        /\ limits'[id].left > 0 => limits'[id].sliced

\* A print does one of four things to each order, and nothing else.
LEMMA PrintOutcome ==
  ASSUME Ranked(book, estimates, limits), NEW price \in Prices, NEW size \in Sizes,
         StepPrint(price, size)
  PROVE  /\ DOMAIN limits' = DOMAIN limits /\ limits' \in Seq(LimitShape)
         /\ DOMAIN estimates' \subseteq DOMAIN limits
         /\ \A id \in DOMAIN limits : Outcome(id, price, size)
<1> DEFINE reached == {id \in DOMAIN limits : Reaches(id, price)}
           judged(verdict) == {id \in reached : Judged(id, price, size) = verdict}
           slice(o) == IF venue.partialFills /\ size < o.left THEN size ELSE o.left
<1>1. PICK lucky \in SUBSET judged("Unknown") :
        LET granted == judged("FilledThrough") \cup judged("FilledInQueue") \cup lucky IN
        /\ limits' = [id \in DOMAIN limits |->
             IF id \in granted
             THEN [limits[id] EXCEPT !.left = @ - slice(limits[id]),
                     !.sliced = @ \/ (id \notin lucky /\ slice(limits[id]) < limits[id].left)]
             ELSE limits[id]]
        /\ estimates' = [id \in (DOMAIN estimates \cup judged("Resting"))
                                \ (judged("FilledThrough") \cup judged("FilledInQueue")) |->
                           IF id \in judged("Resting") THEN Joined(id, size) ELSE estimates[id]]
  BY DEF StepPrint
<1> DEFINE granted == judged("FilledThrough") \cup judged("FilledInQueue") \cup lucky
<1>2. ASSUME NEW id \in DOMAIN limits
      PROVE  /\ limits[id] \in LimitShape /\ slice(limits[id]) \in Nat
             /\ slice(limits[id]) <= limits[id].left
  <2>1. limits[id] \in LimitShape
    BY DEF Ranked
  <2>2. size \in Nat /\ limits[id].left \in Nat
    BY <2>1, QueueAssumption DEF LimitShape
  <2>3. QED BY <2>1, <2>2
<1> HIDE DEF slice
<1>3. ASSUME NEW id \in DOMAIN limits
      PROVE  /\ limits'[id] \in LimitShape
             /\ limits'[id].side = limits[id].side /\ limits'[id].price = limits[id].price
             /\ limits'[id].moved = limits[id].moved
             /\ limits[id].sliced => limits'[id].sliced
             /\ limits'[id].left > 0 => limits[id].left > 0
             /\ id \in granted \ lucky /\ limits'[id].left > 0 => limits'[id].sliced
  <2>1. /\ limits[id] \in LimitShape /\ slice(limits[id]) \in Nat
        /\ slice(limits[id]) <= limits[id].left
    BY <1>2
  <2>2. CASE id \notin granted
    <3>1. limits'[id] = limits[id]
      BY <1>1, <2>2
    <3>2. QED BY <2>1, <2>2, <3>1
  <2>3. CASE id \in granted
    <3>1. PICK w : w = (id \notin lucky /\ slice(limits[id]) < limits[id].left)
      OBVIOUS
    <3>2. PICK n : n = slice(limits[id])
      OBVIOUS
    <3>3. limits'[id] = [limits[id] EXCEPT !.left = @ - n, !.sliced = @ \/ w]
      BY <1>1, <2>3, <3>1, <3>2
    <3>4. /\ limits[id].left \in Nat /\ limits[id].side \in Sides /\ limits[id].price \in Nat
          /\ limits[id].moved \in BOOLEAN /\ limits[id].sliced \in BOOLEAN
          /\ DOMAIN limits[id] = {"side", "price", "left", "moved", "sliced"}
      BY <2>1 DEF LimitShape
    <3>5. w \in BOOLEAN
      BY <3>1
    <3>6. /\ limits'[id].left = limits[id].left - n /\ limits'[id].sliced = (limits[id].sliced \/ w)
          /\ limits'[id].side = limits[id].side /\ limits'[id].price = limits[id].price
          /\ limits'[id].moved = limits[id].moved
      BY <3>3, <3>4
    <3>7. limits'[id].left \in Nat /\ (limits'[id].left > 0 => limits[id].left > 0)
      BY <2>1, <3>2, <3>4, <3>6
    <3>8. limits'[id] \in LimitShape
      <4>1. DOMAIN limits'[id] = {"side", "price", "left", "moved", "sliced"}
        BY <3>3, <3>4
      <4>2. limits'[id] = [side |-> limits'[id].side, price |-> limits'[id].price,
              left |-> limits'[id].left, moved |-> limits'[id].moved, sliced |-> limits'[id].sliced]
        BY <3>3, <3>4, <4>1
      <4>3. limits'[id].sliced \in BOOLEAN
        BY <3>4, <3>5, <3>6
      <4>4. QED BY <3>4, <3>6, <3>7, <4>2, <4>3 DEF LimitShape
    <3>9. limits[id].sliced => limits'[id].sliced
      BY <3>4, <3>5, <3>6
    <3>10. id \in granted \ lucky /\ limits'[id].left > 0 => limits'[id].sliced
      <4>1. ASSUME id \notin lucky, limits'[id].left > 0
            PROVE  limits'[id].sliced
        <5>1. n # limits[id].left /\ n \in Nat /\ n <= limits[id].left
          BY <2>1, <3>2, <3>4, <3>6, <4>1
        <5>2. slice(limits[id]) < limits[id].left
          BY <3>2, <3>4, <5>1
        <5>3. w
          BY <3>1, <4>1, <5>2
        <5>4. QED BY <3>4, <3>6, <5>3
      <4>2. QED BY <4>1
    <3>11. QED BY <3>6, <3>7, <3>8, <3>9, <3>10
  <2>4. QED BY <2>2, <2>3
<1>4. DOMAIN limits' = DOMAIN limits /\ limits' \in Seq(LimitShape)
  <2>1. limits \in Seq(LimitShape) /\ DOMAIN limits' = DOMAIN limits
    BY <1>1 DEF Ranked
  <2>2. PICK n \in Nat : DOMAIN limits = 1..n
    BY <2>1
  <2>3. limits' \in [1..n -> LimitShape]
    BY <1>1, <1>3, <2>1, <2>2
  <2>4. QED BY <2>1, <2>3
<1>5. DOMAIN estimates' \subseteq DOMAIN limits
  BY <1>1 DEF Ranked
<1>6. ASSUME NEW id \in DOMAIN limits PROVE Outcome(id, price, size)
  <2>1. CASE ~Reaches(id, price) \/ Judged(id, price, size) = "Unknown"
    <3>1. id \notin judged("Resting") /\ id \notin judged("FilledThrough") /\ id \notin judged("FilledInQueue")
      BY <2>1
    <3> HIDE DEF judged, reached
    <3>2. /\ id \in DOMAIN estimates' <=> id \in DOMAIN estimates
          /\ id \in DOMAIN estimates => estimates'[id] = estimates[id]
      BY <1>1, <3>1
    <3>3. QED BY <1>3, <2>1, <3>2 DEF Outcome
  <2>2. CASE Reaches(id, price) /\ Judged(id, price, size) = "Resting"
    <3>1. id \in judged("Resting") /\ id \notin judged("FilledThrough") /\ id \notin judged("FilledInQueue")
      BY <2>2
    <3> HIDE DEF judged, reached
    <3>2. id \in DOMAIN estimates' /\ estimates'[id] = Joined(id, size)
      BY <1>1, <3>1
    <3>3. QED BY <1>3, <2>2, <3>2 DEF Outcome
  <2>3. CASE Reaches(id, price) /\ Judged(id, price, size) \in {"FilledThrough", "FilledInQueue"}
    <3>1. /\ id \in judged("FilledThrough") \cup judged("FilledInQueue")
          /\ id \notin judged("Unknown")
      BY <2>3
    <3> HIDE DEF judged, reached
    <3>2. id \notin DOMAIN estimates' /\ id \in granted \ lucky
      BY <1>1, <3>1
    <3>3. QED BY <1>3, <2>3, <3>2 DEF Outcome
  <2>4. Judged(id, price, size) \in {"FilledThrough", "FilledInQueue", "Unknown", "Resting"}
    BY DEF Judged
  <2>5. QED BY <2>1, <2>2, <2>3, <2>4
<1>7. QED BY <1>4, <1>5, <1>6

\* What a verdict says of an order that was reached.
LEMMA VerdictTells ==
  ASSUME Ranked(book, estimates, limits), NEW id \in DOMAIN limits, NEW price \in Nat, NEW size \in Nat
  PROVE  /\ Judged(id, price, size) = "FilledThrough" <=> price # limits[id].price
         /\ Judged(id, price, size) = "Unknown" =>
              price = limits[id].price /\ Estimate(id).ahead = Unknown
         /\ Judged(id, price, size) \in {"Resting", "FilledInQueue"} =>
              price = limits[id].price /\ Estimate(id).ahead \in Nat
         /\ price = limits[id].price /\ Estimate(id).ahead = Unknown =>
              Judged(id, price, size) = "Unknown"
<1>1. Estimate(id).ahead \in Nat \cup {Unknown} /\ Unknown \notin Nat
  BY EstimateTypes, QueueAssumption
<1>2. CASE price # limits[id].price
  BY <1>2 DEF Judged
<1>3. CASE price = limits[id].price /\ Estimate(id).ahead = Unknown
  BY <1>1, <1>3 DEF Judged
<1>4. CASE price = limits[id].price /\ Estimate(id).ahead # Unknown
  <2>1. Judged(id, price, size) \in {"Resting", "FilledInQueue"}
    BY <1>4 DEF Judged
  <2>2. QED BY <1>1, <1>4, <2>1
<1>5. QED BY <1>2, <1>3, <1>4

\* Traded size takes an order forward.
LEMMA JoinedMovesOn ==
  ASSUME Ranked(book, estimates, limits), NEW id \in DOMAIN limits, NEW size \in Nat,
         Estimate(id).ahead \in Nat
  PROVE  /\ Joined(id, size) \in EstimateShape
         /\ Joined(id, size).side = limits[id].side /\ Joined(id, size).price = limits[id].price
         /\ Remaining(Joined(id, size)) \in Nat /\ Remaining(Estimate(id)) \in Nat
         /\ Remaining(Joined(id, size))
              = IF Remaining(Estimate(id)) <= size THEN 0 ELSE Remaining(Estimate(id)) - size
<1>1. PICK e : e = Estimate(id)
  OBVIOUS
<1>2. e \in EstimateShape /\ e.side = limits[id].side /\ e.price = limits[id].price
  BY <1>1, EstimateTypes
<1>3. /\ e.ahead \in Nat /\ e.traded \in Nat
      /\ DOMAIN e = {"ahead", "traded", "price", "side"}
  BY <1>2 DEF EstimateShape
<1>4. Joined(id, size) = [e EXCEPT !.traded = @ + size]
  BY <1>1 DEF Joined
<1>5. Joined(id, size) \in EstimateShape /\ Joined(id, size).ahead = e.ahead
      /\ Joined(id, size).traded = e.traded + size
      /\ Joined(id, size).side = e.side /\ Joined(id, size).price = e.price
  BY <1>2, <1>3, <1>4 DEF EstimateShape
<1>6. QED BY <1>1, <1>2, <1>3, <1>5 DEF Remaining, NonNegative

\* A print keeps everyone's place.
LEMMA PrintKeepsPlaces ==
  ASSUME QueueInv, NEW price \in Prices, NEW size \in Sizes, StepPrint(price, size)
  PROVE  QueueInv' /\ AheadOnlyShrinks
<1>1. /\ Ranked(book, estimates, limits) /\ price \in Nat /\ size \in Nat
      /\ book' = book /\ venue' = venue
  BY QueueAssumption DEF QueueInv, StepPrint
<1>2. /\ DOMAIN limits' = DOMAIN limits /\ limits' \in Seq(LimitShape)
      /\ DOMAIN estimates' \subseteq DOMAIN limits
      /\ \A id \in DOMAIN limits : Outcome(id, price, size)
  BY <1>1, PrintOutcome
\* An estimate is the old one, or a reached order's with the print counted.
<1>3. ASSUME NEW id \in DOMAIN estimates'
      PROVE  \/ id \in DOMAIN estimates /\ estimates'[id] = estimates[id]
             \/ /\ estimates'[id] = Joined(id, size) /\ Reaches(id, price)
                /\ Judged(id, price, size) = "Resting"
                /\ Estimate(id).ahead \in Nat
  <2>1. id \in DOMAIN limits /\ Outcome(id, price, size)
    BY <1>2
  <2>2. QED BY <1>1, <2>1, VerdictTells DEF Outcome
<1>4. Ranked(book', estimates', limits')
  <2> SUFFICES ASSUME NEW id \in DOMAIN estimates'
               PROVE  /\ estimates'[id] \in EstimateShape /\ estimates'[id].side = limits'[id].side
                      /\ ~limits'[id].moved => estimates'[id].price = limits'[id].price
    BY <1>1, <1>2 DEF Ranked
  <2>1. /\ id \in DOMAIN limits /\ limits'[id].side = limits[id].side
        /\ limits'[id].price = limits[id].price /\ limits'[id].moved = limits[id].moved
    BY <1>2 DEF Outcome
  <2>2. CASE id \in DOMAIN estimates /\ estimates'[id] = estimates[id]
    BY <1>1, <2>1, <2>2 DEF Ranked
  <2>3. CASE estimates'[id] = Joined(id, size) /\ Estimate(id).ahead \in Nat
    BY <1>1, <2>1, <2>3, JoinedMovesOn
  <2>4. QED BY <1>3, <2>2, <2>3
<1>5. AheadOnlyShrinks
  <2> SUFFICES ASSUME NEW id \in DOMAIN estimates, id \in DOMAIN estimates',
                      estimates'[id].price = estimates[id].price
               PROVE  Remaining(estimates'[id]) <= Remaining(estimates[id])
    BY DEF AheadOnlyShrinks
  <2>1. id \in DOMAIN limits /\ estimates[id] \in EstimateShape
    BY <1>1 DEF Ranked
  <2>2. Remaining(estimates[id]) \in Nat
    BY <2>1 DEF EstimateShape, Remaining, NonNegative
  <2>3. CASE estimates'[id] = estimates[id]
    BY <2>2, <2>3
  <2>4. CASE estimates'[id] = Joined(id, size) /\ Estimate(id).ahead \in Nat
    <3>1. estimates[id].price = limits[id].price
      BY <1>1, <2>1, <2>4, JoinedMovesOn
    <3>2. Estimate(id) = estimates[id]
      BY <1>1, <2>1, <3>1, EstimateTypes
    <3>3. Remaining(Joined(id, size)) <= Remaining(Estimate(id))
      BY <1>1, <2>1, <2>4, JoinedMovesOn
    <3>4. QED BY <2>4, <3>2, <3>3
  <2>5. QED BY <1>3, <2>3, <2>4
<1>6. ASSUME QuotesOnly PROVE WithinDisplay(book', estimates')
  <2> SUFFICES ASSUME NEW id \in DOMAIN estimates'
               PROVE  LET q == QueueAt(book, estimates'[id].side, estimates'[id].price) IN
                      q = Unknown \/ Remaining(estimates'[id]) <= q
    BY <1>1 DEF WithinDisplay
  <2>1. id \in DOMAIN limits
    BY <1>2
  <2>2. CASE id \in DOMAIN estimates /\ estimates'[id] = estimates[id]
    BY <1>6, <2>2 DEF QueueInv, WithinDisplay
  <2>3. CASE estimates'[id] = Joined(id, size) /\ Estimate(id).ahead \in Nat
    <3> DEFINE q == QueueAt(book, limits[id].side, limits[id].price)
    <3>1. estimates'[id].side = limits[id].side /\ estimates'[id].price = limits[id].price
      BY <1>1, <2>1, <2>3, JoinedMovesOn
    <3>2. /\ Remaining(estimates'[id]) <= Remaining(Estimate(id))
          /\ Remaining(estimates'[id]) \in Nat /\ Remaining(Estimate(id)) \in Nat
      BY <1>1, <2>1, <2>3, JoinedMovesOn
    <3>3. q \in Nat \cup {Unknown}
      <4>1. limits[id] \in LimitShape
        BY <1>1, <2>1, EstimateTypes
      <4>2. limits[id].side \in Sides
        BY <4>1 DEF LimitShape
      <4>3. QED BY <1>1, <4>2, QueueIsNumber DEF Ranked
    <3>4. q = Unknown \/ Remaining(Estimate(id)) <= q
      <4>1. CASE id \in DOMAIN estimates /\ estimates[id].price = limits[id].price
        <5>1. Estimate(id) = estimates[id] /\ estimates[id].side = limits[id].side
          BY <1>1, <2>1, <4>1, EstimateTypes
        <5>2. QED BY <1>6, <4>1, <5>1 DEF QueueInv, WithinDisplay
      <4>2. CASE ~(id \in DOMAIN estimates /\ estimates[id].price = limits[id].price)
        <5>1. Estimate(id).traded = 0 /\ Estimate(id).ahead = q
          BY <1>1, <2>1, <4>2, EstimateTypes
        <5>2. QED BY <2>3, <5>1 DEF Remaining, NonNegative
      <4>3. QED BY <4>1, <4>2
    <3> HIDE DEF q
    <3>5. q = Unknown \/ Remaining(estimates'[id]) <= q
      BY <3>2, <3>3, <3>4
    <3>6. QED BY <3>1, <3>5 DEF q
  <2>4. QED BY <1>3, <2>2, <2>3
<1>7. ASSUME QuotesOnly PROVE InLine(estimates', limits')
  <2> SUFFICES ASSUME NEW i \in DOMAIN limits, NEW j \in DOMAIN limits,
                      Rivals(limits', i, j), j \in DOMAIN estimates'
               PROVE  /\ i \in DOMAIN estimates'
                      /\ Remaining(estimates'[i]) <= Remaining(estimates'[j])
    BY <1>2 DEF InLine
  <2>1. Outcome(i, price, size) /\ Outcome(j, price, size)
    BY <1>2
  <2>2. Rivals(limits, i, j)
    BY <2>1 DEF Rivals, Outcome
  <2>3. /\ limits[i].side = limits[j].side /\ limits[i].price = limits[j].price
        /\ ~limits[i].moved /\ ~limits[j].moved
        /\ limits[i].left > 0 /\ limits[j].left > 0
    BY <2>2 DEF Rivals
  <2>4. j \in DOMAIN estimates => i \in DOMAIN estimates
          /\ Remaining(estimates[i]) <= Remaining(estimates[j])
    BY <1>7, <2>2 DEF QueueInv, InLine
  <2>5. /\ i \in DOMAIN estimates => estimates[i].price = limits[i].price
        /\ j \in DOMAIN estimates => estimates[j].price = limits[j].price
    BY <1>1, <2>3 DEF Ranked
  <2>6. Reaches(i, price) <=> Reaches(j, price)
    BY <2>3 DEF Reaches, Live
  <2>7. CASE ~Reaches(j, price)
    BY <2>1, <2>4, <2>6, <2>7 DEF Outcome
  <2>8. CASE Reaches(j, price) /\ Judged(j, price, size) = "Unknown"
    <3>1. price = limits[j].price /\ Estimate(j).ahead = Unknown
      BY <1>1, <2>8, VerdictTells
    <3>2. j \in DOMAIN estimates
      BY <2>1, <2>8 DEF Outcome
    <3>3. Estimate(j) \in EstimateShape
      BY <1>1, <2>5, <3>2, EstimateTypes
    <3>4. QED BY <3>1, <3>3, QueueAssumption DEF EstimateShape
  <2>9. CASE Reaches(j, price) /\ Judged(j, price, size) = "Resting"
    <3>1. price = limits[j].price /\ Estimate(j).ahead \in Nat
          /\ estimates'[j] = Joined(j, size)
      BY <1>1, <2>1, <2>9, VerdictTells DEF Outcome
    <3>2. Estimate(i).ahead \in Nat /\ Remaining(Estimate(i)) <= Remaining(Estimate(j))
      <4> DEFINE q == QueueAt(book, limits[j].side, limits[j].price)
      <4>1. CASE j \in DOMAIN estimates
        <5>1. /\ Estimate(i) = estimates[i] /\ Estimate(j) = estimates[j]
              /\ estimates[i] \in EstimateShape
          BY <1>1, <2>4, <2>5, <4>1, EstimateTypes
        <5>2. QED BY <2>4, <4>1, <5>1 DEF EstimateShape
      <4>2. CASE j \notin DOMAIN estimates
        <5>1. Estimate(j).traded = 0 /\ Estimate(j).ahead = q
          BY <1>1, <4>2, EstimateTypes
        <5>2. q \in Nat /\ q # Unknown /\ Remaining(Estimate(j)) = q
          BY <3>1, <5>1, QueueAssumption DEF Remaining, NonNegative
        <5>3. CASE i \in DOMAIN estimates
          <6>1. /\ Estimate(i) = estimates[i] /\ estimates[i] \in EstimateShape
                /\ estimates[i].side = limits[i].side /\ estimates[i].price = limits[i].price
            BY <1>1, <2>5, <5>3, EstimateTypes
          <6>2. Remaining(estimates[i]) <= q
            BY <1>7, <2>3, <5>2, <5>3, <6>1 DEF QueueInv, WithinDisplay
          <6>3. QED BY <5>2, <6>1, <6>2 DEF EstimateShape
        <5>4. CASE i \notin DOMAIN estimates
          <6>1. Estimate(i).traded = 0 /\ Estimate(i).ahead = q
            BY <1>1, <2>3, <5>4, EstimateTypes
          <6>2. QED BY <5>1, <5>2, <6>1 DEF Remaining, NonNegative
        <5>5. QED BY <5>3, <5>4
      <4>3. QED BY <4>1, <4>2
    <3>3. Judged(i, price, size) \in {"Resting", "FilledInQueue"}
      <4>1. Judged(i, price, size) \in {"FilledThrough", "Unknown", "Resting", "FilledInQueue"}
        BY DEF Judged
      <4>2. Judged(i, price, size) # "FilledThrough" /\ Judged(i, price, size) # "Unknown"
        BY <1>1, <2>3, <3>1, <3>2, VerdictTells, QueueAssumption
      <4>3. QED BY <4>1, <4>2
    <3>4. Judged(i, price, size) # "FilledInQueue"
      BY <2>1, <2>6, <2>9 DEF Outcome, Rivals
    <3>5. i \in DOMAIN estimates' /\ estimates'[i] = Joined(i, size)
      BY <2>1, <2>6, <2>9, <3>3, <3>4 DEF Outcome
    <3>6. Remaining(Joined(i, size)) <= Remaining(Joined(j, size))
      <4>1. PICK x : x = Remaining(Estimate(i))
        OBVIOUS
      <4>2. PICK y : y = Remaining(Estimate(j))
        OBVIOUS
      <4>3. /\ x \in Nat /\ y \in Nat /\ x <= y
            /\ Remaining(Joined(i, size)) = IF x <= size THEN 0 ELSE x - size
            /\ Remaining(Joined(j, size)) = IF y <= size THEN 0 ELSE y - size
        BY <1>1, <3>1, <3>2, <4>1, <4>2, JoinedMovesOn
      <4>4. QED BY <1>1, <4>3
    <3>7. QED BY <3>1, <3>5, <3>6
  <2>10. QED BY <2>1, <2>7, <2>8, <2>9 DEF Outcome
<1>8. QuotesOnly' <=> QuotesOnly
  BY <1>1 DEF QuotesOnly
<1>9. QED BY <1>4, <1>5, <1>6, <1>7, <1>8 DEF QueueInv

\* Estimates that stay as they are keep what is ahead.
LEMMA AsTheyAre ==
  ASSUME Ranked(book, estimates, limits), estimates' = estimates
  PROVE  AheadOnlyShrinks
<1> SUFFICES ASSUME NEW id \in DOMAIN estimates
             PROVE  Remaining(estimates[id]) <= Remaining(estimates[id])
  BY DEF AheadOnlyShrinks
<1>1. estimates[id] \in EstimateShape
  BY DEF Ranked
<1>2. QED BY <1>1 DEF EstimateShape, Remaining, NonNegative

\* A new order joins behind those that have an estimate.
LEMMA RestingKeepsPlaces ==
  ASSUME QueueInv, NEW side \in Sides, NEW price \in Prices, NEW units \in Units,
         RestLimit(side, price, units)
  PROVE  QueueInv' /\ AheadOnlyShrinks
<1> DEFINE new == [side |-> side, price |-> price, left |-> units, moved |-> FALSE, sliced |-> FALSE]
<1>1. /\ Ranked(book, estimates, limits) /\ limits' = Append(limits, new)
      /\ venue' = venue /\ book' = book /\ estimates' = estimates
  BY DEF QueueInv, RestLimit
<1>2. new \in LimitShape
  BY QueueAssumption DEF LimitShape
<1> HIDE DEF new
<1>3. limits \in Seq(LimitShape)
  BY <1>1 DEF Ranked
<1>4. /\ limits' \in Seq(LimitShape) /\ DOMAIN limits = 1..Len(limits)
      /\ DOMAIN limits' = 1..(Len(limits) + 1) /\ Len(limits) \in Nat
      /\ \A id \in DOMAIN limits : limits'[id] = limits[id]
  BY <1>1, <1>2, <1>3
<1>5. Ranked(book', estimates', limits')
  BY <1>1, <1>4 DEF Ranked
<1>6. ASSUME QuotesOnly PROVE InLine(estimates', limits')
  <2> SUFFICES ASSUME NEW i \in DOMAIN limits', NEW j \in DOMAIN limits',
                      Rivals(limits', i, j), j \in DOMAIN estimates
               PROVE  i \in DOMAIN estimates /\ Remaining(estimates[i]) <= Remaining(estimates[j])
    BY <1>1 DEF InLine
  <2>1. j \in DOMAIN limits /\ i < j
    BY <1>1 DEF Ranked, Rivals
  <2>2. i \in DOMAIN limits
    BY <1>4, <2>1
  <2>3. Rivals(limits, i, j)
    BY <1>4, <2>1, <2>2 DEF Rivals
  <2>4. QED BY <1>6, <2>1, <2>2, <2>3 DEF QueueInv, InLine
<1>7. /\ QuotesOnly' <=> QuotesOnly
      /\ WithinDisplay(book', estimates') <=> WithinDisplay(book, estimates)
  BY <1>1 DEF QuotesOnly
<1>8. AheadOnlyShrinks
  BY <1>1, AsTheyAre
<1>9. QED BY <1>5, <1>6, <1>7, <1>8 DEF QueueInv

\* An order that moves leaves the line it was in.
LEMMA MovingKeepsPlaces ==
  ASSUME QueueInv, NEW id \in DOMAIN limits, NEW price \in Prices, MoveLimit(id, price)
  PROVE  QueueInv' /\ AheadOnlyShrinks
<1>1. /\ Ranked(book, estimates, limits)
      /\ limits' = [limits EXCEPT ![id].price = price, ![id].moved = TRUE]
      /\ venue' = venue /\ book' = book /\ estimates' = estimates
  BY DEF QueueInv, MoveLimit
<1>2. limits \in Seq(LimitShape)
  BY <1>1 DEF Ranked
<1>3. /\ DOMAIN limits' = DOMAIN limits
      /\ \A k \in DOMAIN limits : k # id => limits'[k] = limits[k]
  BY <1>1
<1>4. /\ limits'[id] \in LimitShape /\ limits'[id].moved
      /\ limits'[id].side = limits[id].side
  <2>1. PICK o : o = limits[id]
    OBVIOUS
  <2>2. o \in LimitShape
    BY <1>2, <2>1
  <2>3. limits'[id] = [o EXCEPT !.price = price, !.moved = TRUE]
    BY <1>1, <2>1
  <2>4. price \in Nat
    BY QueueAssumption
  <2>5. QED BY <2>1, <2>2, <2>3, <2>4 DEF LimitShape
<1>5. limits' \in Seq(LimitShape)
  <2>1. PICK n \in Nat : DOMAIN limits = 1..n
    BY <1>2
  <2>2. limits' \in [1..n -> LimitShape]
    BY <1>1, <1>2, <1>3, <1>4, <2>1
  <2>3. QED BY <2>1, <2>2
<1>6. Ranked(book', estimates', limits')
  BY <1>1, <1>3, <1>4, <1>5 DEF Ranked
<1>7. ASSUME QuotesOnly PROVE InLine(estimates', limits')
  <2> SUFFICES ASSUME NEW i \in DOMAIN limits, NEW j \in DOMAIN limits,
                      Rivals(limits', i, j), j \in DOMAIN estimates
               PROVE  i \in DOMAIN estimates /\ Remaining(estimates[i]) <= Remaining(estimates[j])
    BY <1>1, <1>3 DEF InLine
  <2>1. i # id /\ j # id
    BY <1>4 DEF Rivals
  <2>2. Rivals(limits, i, j)
    BY <1>3, <2>1 DEF Rivals
  <2>3. QED BY <1>7, <2>2 DEF QueueInv, InLine
<1>8. /\ QuotesOnly' <=> QuotesOnly
      /\ WithinDisplay(book', estimates') <=> WithinDisplay(book, estimates)
  BY <1>1 DEF QuotesOnly
<1>9. AheadOnlyShrinks
  BY <1>1, AsTheyAre
<1>10. QED BY <1>6, <1>7, <1>8, <1>9 DEF QueueInv

\* A quote caps what is ahead of the orders of one price alike, at what it displays.
LEMMA QuotingKeepsPlaces ==
  ASSUME QueueInv, NEW q \in Quotes, StepQuote(q)
  PROVE  QueueInv' /\ AheadOnlyShrinks
<1>1. /\ Ranked(book, estimates, limits) /\ book' = QuotedBook(q)
      /\ estimates' = [id \in DOMAIN estimates |-> Tightened(estimates[id], q)]
      /\ venue' = venue /\ limits' = limits
  BY DEF QueueInv, StepQuote
<1>2. QuotedBook(q) \in [Sides -> Seq(Level)]
  <2>1. "Bid" \in Sides /\ 0 \in Nat
    BY DEF Sides
  <2>2. QED BY <2>1, QuoteShows
<1> DEFINE Capped(id) ==
      LET e == estimates[id]
          touch == q[e.side] IN
      IF touch.price > 0 /\ Better(e.side, e.price, touch.price) THEN 0
      ELSE IF touch.price = e.price /\ touch.size # Unsized /\ touch.size < Remaining(e)
           THEN touch.size ELSE Remaining(e)
<1>3. ASSUME NEW id \in DOMAIN estimates
      PROVE  /\ estimates[id] \in EstimateShape /\ estimates'[id] \in EstimateShape
             /\ estimates'[id].side = estimates[id].side /\ estimates'[id].price = estimates[id].price
             /\ estimates[id].side \in Sides /\ estimates[id].price \in Nat
             /\ Remaining(estimates[id]) \in Nat /\ q[estimates[id].side] \in TouchShape
             /\ Remaining(estimates'[id]) = Capped(id)
  <2>1. PICK e : e = estimates[id]
    OBVIOUS
  <2>2. e \in EstimateShape
    BY <1>1, <2>1 DEF Ranked
  <2>3. e.side \in Sides /\ e.price \in Nat
    BY <2>2 DEF EstimateShape
  <2>4. estimates'[id] = Tightened(e, q)
    BY <1>1, <2>1
  <2>5. q[e.side] \in TouchShape
    BY <2>3, QuotesAreTouches
  <2>6. /\ Tightened(e, q) \in EstimateShape
        /\ Tightened(e, q).side = e.side /\ Tightened(e, q).price = e.price
        /\ Remaining(e) \in Nat /\ Remaining(Tightened(e, q)) = Capped(id)
    BY <2>1, <2>2, QuoteTightens
  <2> HIDE DEF Capped
  <2>7. QED BY <2>1, <2>2, <2>3, <2>4, <2>5, <2>6
<1>4. Ranked(book', estimates', limits')
  <2>1. DOMAIN estimates' = DOMAIN estimates
    BY <1>1
  <2> HIDE DEF Capped
  <2>2. QED BY <1>1, <1>2, <1>3, <2>1 DEF Ranked
<1>5. AheadOnlyShrinks
  <2> SUFFICES ASSUME NEW id \in DOMAIN estimates
               PROVE  Remaining(estimates'[id]) <= Remaining(estimates[id])
    BY DEF AheadOnlyShrinks
  <2>1. q[estimates[id].side].size \in Nat \cup {Unsized}
    BY <1>3 DEF TouchShape
  <2>2. QED BY <1>3, <2>1
<1>6. WithinDisplay(book', estimates')
  <2> SUFFICES ASSUME NEW id \in DOMAIN estimates
               PROVE  LET shown == QueueAt(book', estimates'[id].side, estimates'[id].price) IN
                      shown = Unknown \/ Remaining(estimates'[id]) <= shown
    BY <1>1 DEF WithinDisplay
  <2> DEFINE e == estimates[id]
             touch == q[e.side]
  <2>1. touch.price \in Nat /\ touch.size \in Nat \cup {Unsized} /\ Unsized \notin Nat
    BY <1>3, QueueAssumption DEF TouchShape
  <2>2. QueueAt(book', estimates'[id].side, estimates'[id].price) = Shown(e.side, e.price, touch)
    <3>1. e.side \in Sides /\ e.price \in Nat
          /\ estimates'[id].side = e.side /\ estimates'[id].price = e.price
      BY <1>3
    <3> HIDE DEF e, touch
    <3>2. QueueAt(QuotedBook(q), e.side, e.price) = Shown(e.side, e.price, q[e.side])
      BY <3>1, QuoteShows
    <3>3. QED BY <1>1, <3>1, <3>2 DEF touch
  <2>3. /\ e.price \in Nat /\ e.side \in Sides /\ Remaining(e) \in Nat
        /\ Remaining(estimates'[id]) = Capped(id)
    BY <1>3
  <2>4. ~Better(e.side, e.price, e.price)
    BY <2>3 DEF Better
  <2>5. Capped(id) = IF touch.price > 0 /\ Better(e.side, e.price, touch.price) THEN 0
                     ELSE IF touch.price = e.price /\ touch.size # Unsized /\ touch.size < Remaining(e)
                          THEN touch.size ELSE Remaining(e)
    OBVIOUS
  <2> HIDE DEF e, touch, Capped
  <2>6. CASE touch.price = 0
    BY <2>2, <2>6 DEF Shown
  <2>7. CASE touch.price # 0 /\ touch.price = e.price
    BY <2>1, <2>2, <2>3, <2>4, <2>5, <2>7 DEF Shown
  <2>8. CASE touch.price # 0 /\ touch.price # e.price
    BY <2>1, <2>2, <2>3, <2>5, <2>8 DEF Shown
  <2>9. QED BY <2>6, <2>7, <2>8
<1>7. ASSUME QuotesOnly PROVE InLine(estimates', limits')
  <2> SUFFICES ASSUME NEW i \in DOMAIN limits, NEW j \in DOMAIN limits,
                      Rivals(limits, i, j), j \in DOMAIN estimates
               PROVE  /\ i \in DOMAIN estimates'
                      /\ Remaining(estimates'[i]) <= Remaining(estimates'[j])
    BY <1>1 DEF InLine
  <2>1. i \in DOMAIN estimates /\ Remaining(estimates[i]) <= Remaining(estimates[j])
    BY <1>7 DEF QueueInv, InLine
  <2>2. estimates[i].side = estimates[j].side /\ estimates[i].price = estimates[j].price
    BY <1>1, <2>1 DEF Ranked, Rivals
  <2>3. q[estimates[j].side].size \in Nat \cup {Unsized}
    BY <1>3 DEF TouchShape
  <2>4. Capped(i) <= Capped(j)
    BY <1>3, <2>1, <2>2, <2>3
  <2> HIDE DEF Capped
  <2>5. QED BY <1>1, <1>3, <2>1, <2>4
<1>8. QuotesOnly' <=> QuotesOnly
  BY <1>1 DEF QuotesOnly
<1>9. QED BY <1>4, <1>5, <1>6, <1>7, <1>8 DEF QueueInv

\* A snapshot is a book, and leaves the estimates as they are.
LEMMA SnapshotKeepsPlaces ==
  ASSUME QueueInv, NEW d \in Depths, StepDepth(d)
  PROVE  QueueInv' /\ AheadOnlyShrinks
<1>1. /\ Ranked(book, estimates, limits) /\ book' = DepthBook(d) /\ "depth" \in venue.carries
      /\ venue' = venue /\ limits' = limits /\ estimates' = estimates
  BY DEF QueueInv, StepDepth
<1>2. ASSUME NEW side \in Sides PROVE Kept(d[side]) \in Seq(Level)
  <2>1. PICK b \in {p \in Prices : p - 1 \in Prices}, s \in Sizes, t \in Sizes :
          d = [Bid |-> <<Touch(b, s), Touch(b - 1, t)>>, Ask |-> <<>>]
    BY DEF Depths
  <2>2. Touch(b, s) \in Level /\ Touch(b - 1, t) \in Level
    BY QueueAssumption DEF Touch, Level
  <2>3. d[side] \in Seq(Level)
    <3>1. PICK x \in Level, y \in Level : d = [Bid |-> <<x, y>>, Ask |-> <<>>]
      BY <2>1, <2>2
    <3>2. d["Bid"] = <<x, y>> /\ d["Ask"] = <<>>
      BY <3>1
    <3>3. <<x, y>> \in Seq(Level) /\ <<>> \in Seq(Level)
      OBVIOUS
    <3>4. QED BY <3>2, <3>3 DEF Sides
  <2>4. PICK m \in Nat : m <= Len(d[side]) /\ Kept(d[side]) = SubSeq(d[side], 1, m)
    BY <2>3, QueueAssumption DEF Kept
  <2>5. \A k \in 1..m : d[side][k] \in Level
    BY <2>3, <2>4
  <2>6. QED BY <2>4, <2>5, SubSeqProperties
<1>3. book' \in [Sides -> Seq(Level)]
  BY <1>1, <1>2 DEF DepthBook
<1>4. Ranked(book', estimates', limits')
  BY <1>1, <1>3 DEF Ranked
<1>5. ~QuotesOnly'
  BY <1>1 DEF QuotesOnly
<1>6. AheadOnlyShrinks
  BY <1>1, AsTheyAre
<1>7. QED BY <1>4, <1>5, <1>6 DEF QueueInv

\* Every state ranks its orders, and no step takes a place away.
LEMMA QueueIsKept == QueueInit /\ [][QueueNext]_queueVars
    => []QueueInv /\ [][QueueInv' /\ AheadOnlyShrinks]_queueVars
<1>1. QueueInit => QueueInv
  <2> SUFFICES ASSUME QueueInit PROVE QueueInv
    OBVIOUS
  <2>1. book \in [Sides -> Seq(Level)] /\ limits \in Seq(LimitShape)
    BY DEF QueueInit
  <2>2. DOMAIN estimates = {} /\ limits = <<>>
    BY DEF QueueInit
  <2>3. QED BY <2>1, <2>2 DEF QueueInv, Ranked, WithinDisplay, InLine
<1>2. QueueInv /\ QueueNext => QueueInv' /\ AheadOnlyShrinks
  BY RestingKeepsPlaces, MovingKeepsPlaces, QuotingKeepsPlaces, SnapshotKeepsPlaces,
     PrintKeepsPlaces DEF QueueNext
<1>3. QueueInv /\ UNCHANGED queueVars => QueueInv'
  BY DEF QueueInv, queueVars, QuotesOnly
<1>4. QED BY <1>1, <1>2, <1>3, PTL

\* What the property asks of two orders, the invariant says of rivals.
LEMMA InvKeepsOrder == QueueInv => EarlierIsAhead
<1> SUFFICES ASSUME QueueInv, QuotesOnly, NEW i \in DOMAIN limits, NEW j \in DOMAIN limits,
                    i < j, Waiting(i), Waiting(j),
                    limits[i].side = limits[j].side, limits[i].price = limits[j].price,
                    ~limits[i].moved, ~limits[j].moved, ~limits[i].sliced
             PROVE  Remaining(estimates[i]) <= Remaining(estimates[j])
  BY DEF EarlierIsAhead, QuotesOnly
<1>1. Rivals(limits, i, j) /\ j \in DOMAIN estimates
  BY DEF Rivals, Waiting, Live
<1>2. QED BY <1>1 DEF QueueInv, InLine

\* A resting limit never loses its place: neither to an order that came later, nor
\* by what the book shows afterwards, whatever is quoted and printed.
THEOREM PlacesHold == QueueInit /\ [][QueueNext]_queueVars => QueuePlaceHolds
<1>1. [QueueInv' /\ AheadOnlyShrinks]_queueVars => [EarlierIsAhead' /\ AheadOnlyShrinks]_queueVars
  <2>1. QueueInv' => EarlierIsAhead'
    BY InvKeepsOrder, PTL
  <2>2. QED BY <2>1
<1>2. QED BY <1>1, QueueIsKept, PTL DEF QueuePlaceHolds

-----------------------------------------------------------------------------
(* Bars and the tape *)

Rec == [ts: Int, open: Int, high: Int, low: Int, close: Int, volume: Int, signed: Int]

\* Summary, of any tape.
Digest(t, lo, hi) ==
  [open   |-> t[lo].open,
   high   |-> Max({t[i].high : i \in lo..hi}),
   low    |-> Min({t[i].low : i \in lo..hi}),
   close  |-> t[hi].close,
   volume |-> SumFunction([i \in lo..hi |-> t[i].volume])]

\* The greatest of some numbers and one more.
LEMMA MaxGrows ==
  ASSUME NEW S \in SUBSET Int, NEW m, Greatest(S, m), NEW x \in Int
  PROVE  Greatest(S \cup {x}, Larger(m, x)) /\ Larger(m, x) \in Int
<1>1. m \in Int
  BY DEF Greatest
<1>2. QED BY <1>1 DEF Greatest, Larger

\* The least of some numbers and one more.
LEMMA MinGrows ==
  ASSUME NEW S \in SUBSET Int, NEW m, Least(S, m), NEW x \in Int
  PROVE  Least(S \cup {x}, Smaller(m, x)) /\ Smaller(m, x) \in Int
<1>1. m \in Int
  BY DEF Least
<1>2. QED BY <1>1 DEF Least, Smaller

\* A stretch of the tape has its extremes and its volume.
Digests(t, lo, hi, p) ==
  /\ DOMAIN p = {"open", "high", "low", "close", "volume"}
  /\ p = [open |-> p.open, high |-> p.high, low |-> p.low, close |-> p.close, volume |-> p.volume]
  /\ p.open = t[lo].open /\ p.close = t[hi].close
  /\ Greatest({t[i].high : i \in lo..hi}, p.high)
  /\ Least({t[i].low : i \in lo..hi}, p.low)
  /\ p.volume = SumFunction([i \in lo..hi |-> t[i].volume])

\* The fields of a record are numbers.
LEMMA RecFields ==
  ASSUME NEW r \in Rec
  PROVE  /\ r.ts \in Int /\ r.open \in Int /\ r.high \in Int /\ r.low \in Int /\ r.close \in Int
         /\ r.volume \in Int /\ r.signed \in Int
BY DEF Rec

\* Numbers of a stretch.
LEMMA StretchTypes ==
  ASSUME NEW t \in Seq(Rec), NEW lo \in 1..Len(t), NEW hi \in lo..Len(t)
  PROVE  /\ {t[i].high : i \in lo..hi} \in SUBSET Int
         /\ {t[i].low : i \in lo..hi} \in SUBSET Int
         /\ [i \in lo..hi |-> t[i].volume] \in [lo..hi -> Int]
         /\ IsFiniteSet(lo..hi)
         /\ t[lo].open \in Int /\ t[hi].close \in Int
<1>1. \A i \in lo..hi : t[i] \in Rec
  OBVIOUS
<1>2. \A i \in lo..hi : /\ t[i].high \in Int /\ t[i].low \in Int /\ t[i].volume \in Int
                        /\ t[i].open \in Int /\ t[i].close \in Int
  BY <1>1, RecFields
<1>3. lo \in lo..hi /\ hi \in lo..hi /\ lo \in Int /\ hi \in Int
  OBVIOUS
<1>4. IsFiniteSet(lo..hi)
  BY <1>3, FS_Interval
<1>5. t[lo].open \in Int /\ t[hi].close \in Int
  BY <1>2, <1>3
<1>6. {t[i].high : i \in lo..hi} \in SUBSET Int /\ {t[i].low : i \in lo..hi} \in SUBSET Int
  BY <1>2
<1>7. [i \in lo..hi |-> t[i].volume] \in [lo..hi -> Int]
  BY <1>2
<1>8. QED BY <1>4, <1>5, <1>6, <1>7

\* A digest of a stretch is the digest.
LEMMA DigestIsOne ==
  ASSUME NEW t \in Seq(Rec), NEW lo \in 1..Len(t), NEW hi \in lo..Len(t), NEW p, Digests(t, lo, hi, p)
  PROVE  p = Digest(t, lo, hi) /\ p \in Partial
<1>1. p.high = Max({t[i].high : i \in lo..hi}) /\ p.low = Min({t[i].low : i \in lo..hi})
  BY StretchTypes, MaxIsGreatest, MinIsLeast DEF Digests
<1>2. p.high \in Int /\ p.low \in Int
  <2>1. p.high \in {t[i].high : i \in lo..hi} /\ p.low \in {t[i].low : i \in lo..hi}
    BY DEF Digests, Greatest, Least
  <2>2. QED BY <2>1, StretchTypes
<1>3. p.volume \in Int
  BY StretchTypes, SumIsInt DEF Digests
<1>4. QED BY <1>1, <1>2, <1>3, StretchTypes DEF Digests, Digest, Partial

\* One record's digest is what the builder starts with.
LEMMA DigestOfOne ==
  ASSUME NEW t \in Seq(Rec), NEW n \in 1..Len(t)
  PROVE  Digests(t, n, n, Start(t[n]))
<1>1. t[n] \in Rec
  OBVIOUS
<1>2. n..n = {n}
  OBVIOUS
<1>3. {t[i].high : i \in n..n} = {t[n].high} /\ {t[i].low : i \in n..n} = {t[n].low}
  BY <1>2
<1>4. SumFunction([i \in n..n |-> t[i].volume]) = t[n].volume
  <2>1. PICK f : f = [i \in n..n |-> t[i].volume]
    OBVIOUS
  <2>2. f \in [{n} -> Int] /\ f[n] = t[n].volume /\ t[n].volume \in Int
    <3>1. t[n].volume \in Int
      BY <1>1, RecFields
    <3>2. f = [i \in {n} |-> t[i].volume]
      BY <1>2, <2>1
    <3>3. QED BY <3>1, <3>2
  <2>3. SumFunction(f) = f[n]
    BY ONLY <2>2, SumOfOne
  <2>4. QED BY <2>1, <2>2, <2>3
<1>5. t[n].high \in Int /\ t[n].low \in Int
  BY <1>1, RecFields
<1>6. /\ Greatest({t[i].high : i \in n..n}, t[n].high)
      /\ Least({t[i].low : i \in n..n}, t[n].low)
  BY <1>3, <1>5 DEF Greatest, Least
<1>7. QED BY <1>4, <1>6 DEF Digests, Start

\* Absorbing the next record digests it too.
LEMMA DigestGrows ==
  ASSUME NEW t \in Seq(Rec), NEW lo \in 1..Len(t), NEW hi \in lo..Len(t), hi + 1 <= Len(t),
         NEW p, Digests(t, lo, hi, p)
  PROVE  Digests(t, lo, hi + 1, Absorb(p, t[hi + 1]))
<1> DEFINE q == Absorb(p, t[hi + 1])
           H(n) == {t[i].high : i \in lo..n}
           L(n) == {t[i].low : i \in lo..n}
           V(n) == [i \in lo..n |-> t[i].volume]
<1>1. lo..(hi + 1) = (lo..hi) \cup {hi + 1} /\ hi + 1 \in lo..Len(t) /\ hi + 1 \notin lo..hi
  OBVIOUS
<1>2. t[hi + 1] \in Rec
  OBVIOUS
<1>3. H(hi + 1) = H(hi) \cup {t[hi + 1].high} /\ L(hi + 1) = L(hi) \cup {t[hi + 1].low}
  BY <1>1
<1>4. /\ H(hi) \in SUBSET Int /\ L(hi) \in SUBSET Int
      /\ V(hi) \in [lo..hi -> Int] /\ IsFiniteSet(lo..hi)
  BY StretchTypes
<1>5. V(hi + 1) \in [lo..(hi + 1) -> Int] /\ \A i \in lo..hi : V(hi + 1)[i] = V(hi)[i]
  <2>1. V(hi + 1) \in [lo..(hi + 1) -> Int]
    <3>1. hi + 1 \in lo..Len(t)
      BY <1>1
    <3> DEFINE k == hi + 1
    <3>2. k \in lo..Len(t)
      BY <3>1
    <3> HIDE DEF k
    <3>3. [i \in lo..k |-> t[i].volume] \in [lo..k -> Int]
      BY <3>2, StretchTypes
    <3>4. QED BY <3>3 DEF k
  <2>2. QED BY <1>1, <2>1
<1>6. /\ t[hi + 1].high \in Int /\ t[hi + 1].low \in Int /\ t[hi + 1].volume \in Int
  BY <1>2, RecFields
<1>7. /\ Greatest(H(hi), p.high) /\ Least(L(hi), p.low) /\ p.open = t[lo].open
      /\ p.volume = SumFunction(V(hi))
      /\ DOMAIN p = {"open", "high", "low", "close", "volume"}
      /\ p = [open |-> p.open, high |-> p.high, low |-> p.low, close |-> p.close, volume |-> p.volume]
  BY DEF Digests
<1>8. V(hi + 1)[hi + 1] = t[hi + 1].volume
  BY <1>1
<1>9. SumFunction(V(hi + 1)) = SumFunction(V(hi)) + V(hi + 1)[hi + 1]
  <2>1. PICK h : h = V(hi + 1)
    OBVIOUS
  <2>2. PICK k : k = hi + 1
    OBVIOUS
  <2>3. lo \in Int /\ k \in Int /\ lo <= k /\ h \in [lo..k -> Int] /\ k - 1 = hi
    BY <1>5, <2>1, <2>2
  <2>4. SumFunction(h) = SumFunction([i \in lo..(k - 1) |-> h[i]]) + h[k]
    BY ONLY <2>3, SumOfStretch
  <2>5. [i \in lo..hi |-> h[i]] = V(hi)
    BY <1>1, <2>1
  <2> HIDE DEF V
  <2>6. QED BY <2>1, <2>2, <2>3, <2>4, <2>5
<1>10. /\ Greatest(H(hi + 1), Larger(p.high, t[hi + 1].high))
       /\ Least(L(hi + 1), Smaller(p.low, t[hi + 1].low))
  <2> HIDE DEF H, L
  <2> QED BY <1>3, <1>4, <1>6, <1>7, MaxGrows, MinGrows
<1>11. /\ q.open = p.open /\ q.high = Larger(p.high, t[hi + 1].high)
       /\ q.low = Smaller(p.low, t[hi + 1].low) /\ q.close = t[hi + 1].close
       /\ q.volume = p.volume + t[hi + 1].volume
       /\ DOMAIN q = {"open", "high", "low", "close", "volume"}
       /\ q = [open |-> q.open, high |-> q.high, low |-> q.low, close |-> q.close, volume |-> q.volume]
  <2>1. PICK x : x = t[hi + 1]
    OBVIOUS
  <2>2. q = [p EXCEPT !.high = Larger(@, x.high), !.low = Smaller(@, x.low), !.close = x.close,
                      !.volume = @ + x.volume]
    BY <2>1 DEF Absorb
  <2>3. DOMAIN p = {"open", "high", "low", "close", "volume"}
    BY <1>7
  <2> HIDE DEF H, L, V, q
  <2>4. DOMAIN q = {"open", "high", "low", "close", "volume"}
    BY <2>2, <2>3
  <2>5. /\ q.open = p.open /\ q.high = Larger(p.high, x.high) /\ q.low = Smaller(p.low, x.low)
        /\ q.close = x.close /\ q.volume = p.volume + x.volume
    BY <2>2, <2>3
  <2>6. q = [open |-> q.open, high |-> q.high, low |-> q.low, close |-> q.close, volume |-> q.volume]
    BY <2>2, <2>3, <2>4
  <2>7. QED BY <2>1, <2>4, <2>5, <2>6
<1> HIDE DEF q
<1>12. QED BY <1>7, <1>8, <1>9, <1>10, <1>11 DEF Digests, q

\* What was digested stays so as the tape grows.
LEMMA DigestStays ==
  ASSUME NEW t \in Seq(Rec), NEW u \in Seq(Rec), NEW lo \in 1..Len(t), NEW hi \in lo..Len(t),
         \A i \in 1..Len(t) : u[i] = t[i], NEW p, Digests(t, lo, hi, p)
  PROVE  Digests(u, lo, hi, p)
<1>1. \A i \in lo..hi : u[i] = t[i]
  OBVIOUS
<1>2. /\ {u[i].high : i \in lo..hi} = {t[i].high : i \in lo..hi}
      /\ {u[i].low : i \in lo..hi} = {t[i].low : i \in lo..hi}
      /\ [i \in lo..hi |-> u[i].volume] = [i \in lo..hi |-> t[i].volume]
  BY <1>1
<1>3. u[lo] = t[lo] /\ u[hi] = t[hi]
  BY <1>1
<1>4. QED BY <1>2, <1>3 DEF Digests

BarRecord == [ts: Int, open: Int, high: Int, low: Int, close: Int, volume: Int]
EntryShape == [bar: BarRecord, upTo: Int]

\* Where the k-th bar of a builder begins.
Lo(es, k) == IF k = 1 THEN 1 ELSE es[k - 1].upTo + 1

\* The bars of a builder, and what it holds, are the tape.
Whole(t, p, es) ==
  /\ es \in Seq(EntryShape)
  /\ \A k \in 1..Len(es) :
       /\ Lo(es, k) \in 1..Len(t) /\ es[k].upTo \in Lo(es, k)..Len(t)
       /\ Digests(t, Lo(es, k), es[k].upTo, Bared(es[k].bar))
  /\ Lo(es, Len(es) + 1) \in 1..(Len(t) + 1)
  /\ IF Lo(es, Len(es) + 1) > Len(t) THEN p = None
     ELSE Digests(t, Lo(es, Len(es) + 1), Len(t), p)

\* A bar handed out.
LEMMA OneEntry ==
  ASSUME NEW es \in Seq(EntryShape), NEW x \in BarRecord, NEW u \in Int
  PROVE  es \o Entries(<<x>>, u) = Append(es, [bar |-> x, upTo |-> u])
<1>1. PICK e : e = [bar |-> x, upTo |-> u]
  OBVIOUS
<1>2. PICK b : b = <<x>>
  OBVIOUS
<1>3. DOMAIN b = 1..1 /\ b[1] = x
  BY <1>2
<1>4. [k \in DOMAIN b |-> [bar |-> b[k], upTo |-> u]] = [k \in 1..1 |-> e]
  <2>1. \A k \in 1..1 : b[k] = x
    BY <1>3
  <2>2. QED BY <1>1, <1>3, <2>1
<1>5. [k \in 1..1 |-> e] = <<e>>
  OBVIOUS
<1>6. Entries(b, u) = <<e>>
  BY <1>4, <1>5 DEF Entries
<1>7. es \o <<e>> = Append(es, e)
  <2>1. e \in EntryShape
    BY <1>1 DEF EntryShape
  <2>2. QED BY <2>1
<1>8. QED BY <1>1, <1>2, <1>6, <1>7

\* No bar handed out.
LEMMA NoEntry ==
  ASSUME NEW es \in Seq(EntryShape), NEW u
  PROVE  es \o Entries(<<>>, u) = es
<1>1. Entries(<<>>, u) = <<>>
  BY DEF Entries
<1>2. QED BY <1>1

\* What is held is part of the tape, and not nothing.
LEMMA PartialIsSome ==
  ASSUME NEW t \in Seq(Rec), NEW lo \in 1..Len(t), NEW hi \in lo..Len(t), NEW p, Digests(t, lo, hi, p)
  PROVE  /\ p \in Partial /\ p # None
         /\ \A ts \in Int : Stamped(p, ts) \in BarRecord /\ Bared(Stamped(p, ts)) = p
<1>1. p \in Partial
  BY DigestIsOne
<1>2. p # None
  BY <1>1, BarsAssumption
<1>3. ASSUME NEW ts \in Int
      PROVE  Stamped(p, ts) \in BarRecord /\ Bared(Stamped(p, ts)) = p
  BY <1>1 DEF Stamped, Bared, BarRecord, Partial
<1>4. QED BY <1>1, <1>2, <1>3

\* What a builder holds with the next record is what follows its bars.
LEMMA HeldIsNext ==
  ASSUME NEW t \in Seq(Rec), NEW rec \in Rec, NEW p, NEW es, Whole(t, p, es)
  PROVE  Digests(Append(t, rec), Lo(es, Len(es) + 1), Len(t) + 1, Held(p, rec))
<1> DEFINE u == Append(t, rec)
           n == Len(t) + 1
           lo == Lo(es, Len(es) + 1)
<1>1. /\ u \in Seq(Rec) /\ Len(u) = n /\ u[n] = rec /\ n \in 1..Len(u)
      /\ \A i \in 1..Len(t) : u[i] = t[i]
  OBVIOUS
<1>2. lo \in 1..n
  BY DEF Whole
<1> HIDE DEF u, lo
<1>3. CASE lo > Len(t)
  <2>1. p = None /\ lo = n
    BY <1>2, <1>3 DEF Whole, lo
  <2>2. Digests(u, n, n, Start(u[n]))
    <3> HIDE DEF n
    <3> QED BY <1>1, DigestOfOne
  <2>3. QED BY <1>1, <2>1, <2>2 DEF Held, u, lo
<1>4. CASE lo <= Len(t)
  <2>1. lo \in 1..Len(t) /\ Digests(t, lo, Len(t), p)
    BY <1>2, <1>4 DEF Whole, lo
  <2>2. p # None
    BY <2>1, PartialIsSome
  <2>3. Digests(u, lo, Len(t), p)
    BY <1>1, <2>1, DigestStays
  <2>4. PICK hi : hi = Len(t)
    OBVIOUS
  <2>5. lo \in 1..Len(u) /\ hi \in lo..Len(u) /\ hi + 1 <= Len(u) /\ Digests(u, lo, hi, p)
    BY <1>1, <2>1, <2>3, <2>4
  <2>6. Digests(u, lo, hi + 1, Absorb(p, u[hi + 1]))
    BY <1>1, <2>5, DigestGrows
  <2>7. QED BY <1>1, <2>2, <2>4, <2>6 DEF Held, u, lo
<1>5. QED BY <1>2, <1>3, <1>4

\* A record joins what is held.
LEMMA WholeHolds ==
  ASSUME NEW t \in Seq(Rec), NEW rec \in Rec, NEW p, NEW es, Whole(t, p, es)
  PROVE  Whole(Append(t, rec), Held(p, rec), es)
<1> DEFINE u == Append(t, rec)
<1>1. u \in Seq(Rec) /\ Len(u) = Len(t) + 1 /\ \A i \in 1..Len(t) : u[i] = t[i]
  OBVIOUS
<1>2. Digests(u, Lo(es, Len(es) + 1), Len(u), Held(p, rec))
  BY <1>1, HeldIsNext
<1> HIDE DEF u
<1>3. \A k \in 1..Len(es) :
       /\ Lo(es, k) \in 1..Len(u) /\ es[k].upTo \in Lo(es, k)..Len(u)
       /\ Digests(u, Lo(es, k), es[k].upTo, Bared(es[k].bar))
  <2> SUFFICES ASSUME NEW k \in 1..Len(es)
               PROVE  /\ Lo(es, k) \in 1..Len(u) /\ es[k].upTo \in Lo(es, k)..Len(u)
                      /\ Digests(u, Lo(es, k), es[k].upTo, Bared(es[k].bar))
    OBVIOUS
  <2>1. /\ Lo(es, k) \in 1..Len(t) /\ es[k].upTo \in Lo(es, k)..Len(t)
        /\ Digests(t, Lo(es, k), es[k].upTo, Bared(es[k].bar))
    BY DEF Whole
  <2>2. Digests(u, Lo(es, k), es[k].upTo, Bared(es[k].bar))
    BY <1>1, <2>1, DigestStays
  <2>3. QED BY <1>1, <2>1, <2>2
<1>4. Lo(es, Len(es) + 1) \in 1..Len(u) /\ es \in Seq(EntryShape)
  BY <1>1 DEF Whole
<1>5. QED BY <1>1, <1>2, <1>3, <1>4 DEF Whole, u

\* A builder that hands out what it holds begins anew behind it.
LEMMA WholeEmits ==
  ASSUME NEW t \in Seq(Rec), NEW p, NEW es, Whole(t, p, es), p # None,
         NEW x \in BarRecord, Bared(x) = p
  PROVE  Whole(t, None, Append(es, [bar |-> x, upTo |-> Len(t)]))
<1>1. PICK e : e = [bar |-> x, upTo |-> Len(t)]
  OBVIOUS
<1>2. PICK fs : fs = Append(es, e)
  OBVIOUS
<1>3. e \in EntryShape /\ e.upTo = Len(t) /\ Bared(e.bar) = p /\ es \in Seq(EntryShape)
  BY <1>1 DEF EntryShape, Whole
<1>4. /\ fs \in Seq(EntryShape) /\ Len(fs) = Len(es) + 1 /\ fs[Len(es) + 1] = e
      /\ \A k \in 1..Len(es) : fs[k] = es[k]
  BY <1>2, <1>3
<1>5. \A k \in 1..(Len(es) + 1) : Lo(fs, k) = Lo(es, k)
  BY <1>3, <1>4 DEF Lo
<1>6. /\ Lo(es, Len(es) + 1) \in 1..Len(t)
      /\ Digests(t, Lo(es, Len(es) + 1), Len(t), p)
  BY DEF Whole
<1>7. Lo(fs, Len(fs) + 1) = Len(t) + 1
  BY <1>3, <1>4 DEF Lo
<1>8. \A k \in 1..Len(fs) :
        /\ Lo(fs, k) \in 1..Len(t) /\ fs[k].upTo \in Lo(fs, k)..Len(t)
        /\ Digests(t, Lo(fs, k), fs[k].upTo, Bared(fs[k].bar))
  <2> SUFFICES ASSUME NEW k \in 1..(Len(es) + 1)
               PROVE  /\ Lo(es, k) \in 1..Len(t) /\ fs[k].upTo \in Lo(es, k)..Len(t)
                      /\ Digests(t, Lo(es, k), fs[k].upTo, Bared(fs[k].bar))
    BY <1>4, <1>5
  <2>1. CASE k \in 1..Len(es)
    BY <1>4, <2>1 DEF Whole
  <2>2. CASE k = Len(es) + 1
    BY <1>3, <1>4, <1>6, <2>2
  <2>3. QED BY <1>3, <2>1, <2>2
<1>9. QED BY <1>1, <1>2, <1>4, <1>7, <1>8 DEF Whole

\* The property, of one builder.
LEMMA WholeIsPartition ==
  ASSUME NEW t \in Seq(Rec), NEW p, NEW es, Whole(t, p, es)
  PROVE  /\ \A k \in DOMAIN es :
              Lo(es, k) <= es[k].upTo /\ Bared(es[k].bar) = Digest(t, Lo(es, k), es[k].upTo)
         /\ IF Lo(es, Len(es) + 1) > Len(t) THEN p = None
            ELSE p = Digest(t, Lo(es, Len(es) + 1), Len(t))
<1>1. es \in Seq(EntryShape) /\ DOMAIN es = 1..Len(es)
  BY DEF Whole
<1>2. ASSUME NEW k \in 1..Len(es)
      PROVE  Lo(es, k) <= es[k].upTo /\ Bared(es[k].bar) = Digest(t, Lo(es, k), es[k].upTo)
  <2>1. /\ Lo(es, k) \in 1..Len(t) /\ es[k].upTo \in Lo(es, k)..Len(t)
        /\ Digests(t, Lo(es, k), es[k].upTo, Bared(es[k].bar))
    BY DEF Whole
  <2>2. QED BY <2>1, DigestIsOne
<1>3. ASSUME Lo(es, Len(es) + 1) <= Len(t)
      PROVE  p = Digest(t, Lo(es, Len(es) + 1), Len(t))
  <2>1. /\ Lo(es, Len(es) + 1) \in 1..Len(t) /\ Len(t) \in Lo(es, Len(es) + 1)..Len(t)
        /\ Digests(t, Lo(es, Len(es) + 1), Len(t), p)
    BY <1>3 DEF Whole
  <2>2. QED BY <2>1, DigestIsOne
<1>4. Lo(es, Len(es) + 1) \in Int
  BY DEF Whole
<1>5. QED BY <1>1, <1>2, <1>3, <1>4 DEF Whole

-----------------------------------------------------------------------------
(* Windows of time *)

\* Whole parts and remainders are numbers.
LEMMA PartsAreInt ==
  ASSUME NEW a \in Int, NEW b \in Nat \ {0}
  PROVE  a \div b \in Int /\ a % b \in 0..(b - 1)
OBVIOUS

\* Days from 1970 to the first of March of the year y.
March(y) == 365 * y + y \div 4 - y \div 100 + y \div 400 - 719468

\* A whole part grows by one where the number is a multiple.
LEMMA PartsGrow ==
  ASSUME NEW y \in Int
  PROVE  /\ y \div 4 = (y - 1) \div 4 + (IF y % 4 = 0 THEN 1 ELSE 0)
         /\ y \div 100 = (y - 1) \div 100 + (IF y % 100 = 0 THEN 1 ELSE 0)
         /\ y \div 400 = (y - 1) \div 400 + (IF y % 400 = 0 THEN 1 ELSE 0)
<1>1. y \div 4 = (y - 1) \div 4 + (IF y % 4 = 0 THEN 1 ELSE 0)
  BY SMT
<1>2. y \div 100 = (y - 1) \div 100 + (IF y % 100 = 0 THEN 1 ELSE 0)
  BY SMT
<1>3. y \div 400 = (y - 1) \div 400 + (IF y % 400 = 0 THEN 1 ELSE 0)
  BY SMT
<1>4. QED BY <1>1, <1>2, <1>3

\* A year of the calendar is leap as its leap days say.
LEMMA MarchFollows ==
  ASSUME NEW y \in Int
  PROVE  /\ March(y) = 365 * y + LeapDaysTo(y) + (IF IsLeap(y) THEN 1 ELSE 0) - 719468
         /\ March(y - 1) = 365 * (y - 1) + LeapDaysTo(y) - 719468
<1>1. (y % 400 = 0 => y % 100 = 0) /\ (y % 100 = 0 => y % 4 = 0)
  BY SMT
<1>2. PICK a4, a100, a400, b4, b100, b400 \in Int :
        /\ a4 = y \div 4 /\ a100 = y \div 100 /\ a400 = y \div 400
        /\ b4 = (y - 1) \div 4 /\ b100 = (y - 1) \div 100 /\ b400 = (y - 1) \div 400
  BY PartsAreInt
<1>3. a4 - a100 + a400 = b4 - b100 + b400 + (IF IsLeap(y) THEN 1 ELSE 0)
  BY <1>1, <1>2, PartsGrow DEF IsLeap
<1>4. LeapDaysTo(y) = b4 - b100 + b400
  BY <1>2 DEF LeapDaysTo
<1>5. March(y) = 365 * y + a4 - a100 + a400 - 719468 /\ March(y - 1) = 365 * (y - 1) + b4 - b100 + b400 - 719468
  BY <1>2 DEF March
<1>6. QED BY <1>3, <1>4, <1>5

\* Days from the first of March to the first of the n-th month after it.
Since(n) == (153 * n + 2) \div 5

LEMMA SinceIsInt == \A n \in Int : Since(n) \in Int
BY PartsAreInt DEF Since

LEMMA MonthsSinceMarch ==
  /\ Since(0) = 0 /\ Since(1) = 31 /\ Since(2) = 61 /\ Since(3) = 92 /\ Since(4) = 122 /\ Since(5) = 153
  /\ Since(6) = 184 /\ Since(7) = 214 /\ Since(8) = 245 /\ Since(9) = 275 /\ Since(10) = 306
  /\ Since(11) = 337 /\ Since(12) = 367
BY SMT DEF Since

\* The calendar's first of a month, counted from March.
LEMMA FirstFromMarch ==
  ASSUME NEW y \in Int, NEW m \in 1..12
  PROVE  FirstOf(y, m) = IF m <= 2 THEN March(y - 1) + Since(m + 9) ELSE March(y) + Since(m - 3)
<1>1. LeapDaysTo(1970) = 477
  BY SMT DEF LeapDaysTo
<1>2. PICK leaps \in Int : leaps = LeapDaysTo(y)
  BY PartsAreInt DEF LeapDaysTo
<1>3. PICK extra \in {0, 1} : extra = IF IsLeap(y) THEN 1 ELSE 0
  OBVIOUS
<1>4. March(y) = 365 * y + leaps + extra - 719468 /\ March(y - 1) = 365 * (y - 1) + leaps - 719468
  BY <1>2, <1>3, MarchFollows
<1>5. FirstOf(y, m) = 365 * (y - 1970) + leaps - 477 + DaysBefore[m] + (IF m > 2 THEN extra ELSE 0)
  BY <1>1, <1>2, <1>3 DEF FirstOf
<1>6. CASE m \in {1, 2}
  BY <1>4, <1>5, <1>6, MonthsSinceMarch DEF DaysBefore
<1>7. CASE m \in {3, 4, 5, 6, 7}
  BY <1>4, <1>5, <1>7, MonthsSinceMarch DEF DaysBefore
<1>8. CASE m \in {8, 9, 10, 11, 12}
  BY <1>4, <1>5, <1>8, MonthsSinceMarch DEF DaysBefore
<1>9. QED BY <1>6, <1>7, <1>8

\* The code's first of a month is the calendar's.
LEMMA CodeKnowsFirst ==
  ASSUME NEW year \in Int, NEW m \in 1..12
  PROVE  DaysFromCivil(year, m) = FirstOf(year, m)
<1>1. PICK y \in Int : y = IF m <= 2 THEN year - 1 ELSE year
  OBVIOUS
<1>2. PICK k \in 0..11 : k = IF m > 2 THEN m - 3 ELSE m + 9
  OBVIOUS
<1>3. PICK era \in Int, yoe \in Nat : era = y \div 400 /\ yoe = y - era * 400 /\ yoe <= 399
  BY SMT
<1>4. DaysFromCivil(year, m) = era * 146097 + yoe * 365 + yoe \div 4 - yoe \div 100 + Since(k) - 719468
  BY <1>1, <1>2, <1>3 DEF DaysFromCivil, Since
<1>5. y \div 4 = 100 * era + yoe \div 4 /\ y \div 100 = 4 * era + yoe \div 100 /\ y = 400 * era + yoe
  BY SMT, <1>3
<1>6. PICK a, b \in Int : a = yoe \div 4 /\ b = yoe \div 100
  BY PartsAreInt
<1>7. Since(k) \in Int
  BY PartsAreInt DEF Since
<1>8. March(y) = era * 146097 + yoe * 365 + a - b - 719468
  BY <1>3, <1>5, <1>6 DEF March
<1>9. DaysFromCivil(year, m) = March(y) + Since(k)
  BY <1>4, <1>6, <1>7, <1>8
<1>10. QED BY <1>1, <1>2, <1>9, FirstFromMarch

\* The year of an era that a day of it lies in.
YearOfEra(doe) == (doe - doe \div 1460 + doe \div 36524 - doe \div 146096) \div 365
StartInEra(yoe) == 365 * yoe + yoe \div 4 - yoe \div 100

LEMMA EraYear ==
  ASSUME NEW doe \in Nat, doe <= 146096
  PROVE  /\ YearOfEra(doe) \in Nat /\ YearOfEra(doe) <= 399
         /\ StartInEra(YearOfEra(doe)) <= doe
         /\ doe < StartInEra(YearOfEra(doe) + 1) + (IF YearOfEra(doe) = 399 THEN 1 ELSE 0)
<1>1. PICK q1, q2, q3 \in Int : q1 = doe \div 1460 /\ q2 = doe \div 36524 /\ q3 = doe \div 146096
  BY PartsAreInt
<1>2. /\ 1460 * q1 <= doe /\ doe < 1460 * q1 + 1460
      /\ 36524 * q2 <= doe /\ doe < 36524 * q2 + 36524
      /\ 146096 * q3 <= doe /\ doe < 146096 * q3 + 146096
  BY SMT, <1>1
<1>3. PICK y \in Int : y = (doe - q1 + q2 - q3) \div 365
  BY PartsAreInt
<1>4. 365 * y <= doe - q1 + q2 - q3 /\ doe - q1 + q2 - q3 < 365 * y + 365
  BY SMT, <1>3
<1>5. q2 \in 0..4 /\ q3 \in 0..1 /\ (q3 = 1 <=> doe = 146096)
  BY <1>2
<1>6. y \in Nat /\ y <= 399
  BY <1>2, <1>4, <1>5
<1>7. PICK a, b, a1, b1 \in Int : a = y \div 4 /\ b = y \div 100 /\ a1 = (y + 1) \div 4 /\ b1 = (y + 1) \div 100
  BY PartsAreInt
<1>8. /\ 4 * a <= y /\ y < 4 * a + 4 /\ 100 * b <= y /\ y < 100 * b + 100
      /\ 4 * a1 <= y + 1 /\ y + 1 < 4 * a1 + 4 /\ 100 * b1 <= y + 1 /\ y + 1 < 100 * b1 + 100
  BY SMT, <1>7
<1>9. 365 * y + a - b <= doe
  BY <1>2, <1>4, <1>5, <1>6, <1>8
<1>10. doe < 365 * (y + 1) + a1 - b1 + (IF y = 399 THEN 1 ELSE 0)
  BY <1>2, <1>4, <1>5, <1>6, <1>8
<1>11. YearOfEra(doe) = y
  BY <1>1, <1>3 DEF YearOfEra
<1>12. QED BY <1>6, <1>7, <1>9, <1>10, <1>11 DEF StartInEra


\* Marches follow each other by a year, which is leap as the next January's is.
LEMMA MarchGrows ==
  ASSUME NEW y \in Int
  PROVE  March(y) \in Int /\ March(y + 1) \in 365 + March(y)..366 + March(y)
<1>1. PICK a4, a100, a400, b4, b100, b400 \in Int :
        /\ a4 = y \div 4 /\ a100 = y \div 100 /\ a400 = y \div 400
        /\ b4 = (y + 1) \div 4 /\ b100 = (y + 1) \div 100 /\ b400 = (y + 1) \div 400
  BY PartsAreInt
<1>2. b4 - b100 + b400 \in a4 - a100 + a400..a4 - a100 + a400 + 1
  BY SMT, <1>1
<1>3. March(y) = 365 * y + a4 - a100 + a400 - 719468
      /\ March(y + 1) = 365 * (y + 1) + b4 - b100 + b400 - 719468
  BY <1>1 DEF March
<1>4. QED BY <1>2, <1>3

\* An era is four hundred years of the calendar.
LEMMA ErasRepeat ==
  ASSUME NEW era \in Int, NEW n \in Nat, n <= 400
  PROVE  /\ (n + era * 400) \div 4 = 100 * era + n \div 4
         /\ (n + era * 400) \div 100 = 4 * era + n \div 100
         /\ (n + era * 400) \div 400 = era + (IF n = 400 THEN 1 ELSE 0)
<1>1. PICK Y \in Int : Y = n + era * 400
  OBVIOUS
<1>2. PICK a, b \in Int : a = n \div 4 /\ b = n \div 100
  BY PartsAreInt
<1>3. 4 * a <= n /\ n < 4 * a + 4 /\ 100 * b <= n /\ n < 100 * b + 100
  BY SMT, <1>2
<1>4. Y \div 4 = 100 * era + a
  BY SMT, <1>1, <1>3
<1>5. Y \div 100 = 4 * era + b
  BY SMT, <1>1, <1>3
<1>6. Y \div 400 = era + (IF n = 400 THEN 1 ELSE 0)
  BY SMT, <1>1
<1>7. QED BY <1>1, <1>2, <1>4, <1>5, <1>6

\* March of a year of an era.
LEMMA MarchOfEra ==
  ASSUME NEW era \in Int, NEW n \in Nat, n <= 400
  PROVE  March(n + era * 400) = 146097 * era + StartInEra(n) + (IF n = 400 THEN 1 ELSE 0) - 719468
<1>1. PICK a, b \in Int : a = n \div 4 /\ b = n \div 100
  BY PartsAreInt
<1>2. StartInEra(n) = 365 * n + a - b
  BY <1>1 DEF StartInEra
<1>3. PICK x \in {0, 1} : x = IF n = 400 THEN 1 ELSE 0
  OBVIOUS
<1>4. March(n + era * 400) = 365 * (n + era * 400) + (100 * era + a) - (4 * era + b) + (era + x) - 719468
  BY <1>1, <1>3, ErasRepeat DEF March
<1>5. QED BY <1>2, <1>3, <1>4

\* The month of a day of a year that begins in March.
LEMMA MonthSinceMarch ==
  ASSUME NEW doy \in Nat, doy <= 365
  PROVE  \E k \in 0..11 : k = (5 * doy + 2) \div 153 /\ Since(k) <= doy /\ doy < Since(k + 1)
<1>1. PICK k \in Int : k = (5 * doy + 2) \div 153
  BY PartsAreInt
<1>2. 153 * k <= 5 * doy + 2 /\ 5 * doy + 2 < 153 * k + 153
  BY SMT, <1>1
<1>3. k \in 0..11
  BY <1>2
<1>4. PICK p, q \in Int : p = Since(k) /\ q = Since(k + 1)
  BY PartsAreInt DEF Since
<1>5. 5 * p <= 153 * k + 2 /\ 153 * k + 2 < 5 * p + 5
  <2>1. PICK x \in Int : x = 153 * k + 2
    OBVIOUS
  <2>2. p = x \div 5
    BY <1>4, <2>1 DEF Since
  <2>3. 5 * p <= x /\ x < 5 * p + 5
    BY SMT, <2>2
  <2>4. QED BY <2>1, <2>3
<1>6. 5 * q <= 153 * k + 155 /\ 153 * k + 155 < 5 * q + 5
  <2>1. PICK x \in Int : x = 153 * (k + 1) + 2
    OBVIOUS
  <2>2. q = x \div 5
    BY <1>4, <2>1 DEF Since
  <2>3. 5 * q <= x /\ x < 5 * q + 5
    BY SMT, <2>2
  <2>4. QED BY <2>1, <2>3
<1>7. p <= doy /\ doy < q
  BY <1>2, <1>5, <1>6
<1>8. QED BY <1>1, <1>3, <1>4, <1>7

\* The civil date of a day: the month it lies in, and no other.
LEMMA CodeKnowsMonth ==
  ASSUME NEW days \in Int
  PROVE  \E y \in Int, m \in 1..12 :
           /\ CivilFromDays(days) = <<y, m>>
           /\ FirstOf(y, m) <= days
           /\ days < IF m = 12 THEN FirstOf(y + 1, 1) ELSE FirstOf(y, m + 1)
<1> DEFINE z   == days + 719468
           era == z \div 146097
           doe == z % 146097
           yoe == (doe - doe \div 1460 + doe \div 36524 - doe \div 146096) \div 365
           doy == doe - (365 * yoe + yoe \div 4 - yoe \div 100)
           mp  == (5 * doy + 2) \div 153
           m   == IF mp < 10 THEN mp + 3 ELSE mp - 9
           Y   == yoe + era * 400
           y   == IF m <= 2 THEN Y + 1 ELSE Y
<1>1. CivilFromDays(days) = <<y, m>>
  BY SMT DEF CivilFromDays
<1>2. z \in Int /\ z = days + 719468
  BY SMT
<1> HIDE DEF z
<1>3. era \in Int /\ doe \in Nat /\ doe <= 146096 /\ z = 146097 * era + doe
  BY SMT, <1>2
<1> HIDE DEF era, doe
<1>4. yoe = YearOfEra(doe)
  BY DEF YearOfEra
<1>5. doy = doe - StartInEra(yoe)
  BY DEF StartInEra
<1> HIDE DEF yoe, doy
<1>6. /\ yoe \in Nat /\ yoe <= 399 /\ StartInEra(yoe) <= doe
      /\ doe < StartInEra(yoe + 1) + (IF yoe = 399 THEN 1 ELSE 0)
  BY <1>3, <1>4, EraYear
<1>7. PICK start, after \in Int : start = StartInEra(yoe) /\ after = StartInEra(yoe + 1)
  <2>1. StartInEra(yoe) \in Int /\ StartInEra(yoe + 1) \in Int
    BY <1>6, PartsAreInt DEF StartInEra
  <2>2. QED BY <2>1
<1>8. Y \in Int /\ Y = yoe + era * 400
  BY <1>3, <1>6
<1> HIDE DEF Y
<1>9. March(Y) = 146097 * era + start - 719468
  BY <1>3, <1>6, <1>7, <1>8, MarchOfEra
<1>10. March(Y + 1) = 146097 * era + after + (IF yoe = 399 THEN 1 ELSE 0) - 719468
  <2>1. Y + 1 = (yoe + 1) + era * 400 /\ yoe + 1 \in Nat /\ yoe + 1 <= 400
    BY <1>3, <1>6, <1>8
  <2>2. yoe + 1 = 400 <=> yoe = 399
    BY <1>6
  <2>3. March((yoe + 1) + era * 400)
          = 146097 * era + StartInEra(yoe + 1) + (IF yoe + 1 = 400 THEN 1 ELSE 0) - 719468
    BY <1>3, <2>1, MarchOfEra
  <2>4. QED BY <1>7, <2>1, <2>2, <2>3
<1>11. March(Y) \in Int /\ March(Y + 1) \in Int /\ March(Y + 1) <= March(Y) + 366
  BY <1>8, MarchGrows
<1>12. doy \in Nat /\ doy <= 365 /\ days = March(Y) + doy /\ days < March(Y + 1)
  BY <1>2, <1>3, <1>5, <1>6, <1>7, <1>9, <1>10, <1>11
<1>13. mp \in 0..11 /\ Since(mp) <= doy /\ doy < Since(mp + 1)
  <2>1. PICK k \in 0..11 : k = (5 * doy + 2) \div 153 /\ Since(k) <= doy /\ doy < Since(k + 1)
    BY <1>12, MonthSinceMarch
  <2>2. QED BY <2>1
<1> HIDE DEF mp
<1>14. m \in 1..12 /\ m = IF mp < 10 THEN mp + 3 ELSE mp - 9
  BY <1>13
<1> HIDE DEF m
<1>15. y \in Int /\ y = IF m <= 2 THEN Y + 1 ELSE Y
  BY <1>8
<1> HIDE DEF y
<1>16. Since(mp) \in Int /\ Since(mp + 1) \in Int
  BY <1>13, SinceIsInt
<1>17. FirstOf(y, m) = March(Y) + Since(mp)
  <2>1. CASE m <= 2
    <3>1. y - 1 = Y /\ m + 9 = mp
      BY <1>8, <1>13, <1>14, <1>15, <2>1
    <3>2. QED BY <1>14, <1>15, <2>1, <3>1, FirstFromMarch
  <2>2. CASE ~(m <= 2)
    <3>1. y = Y /\ m - 3 = mp
      BY <1>8, <1>13, <1>14, <1>15, <2>2
    <3>2. QED BY <1>14, <1>15, <2>2, <3>1, FirstFromMarch
  <2>3. QED BY <2>1, <2>2
<1>18. days < IF m = 12 THEN FirstOf(y + 1, 1) ELSE FirstOf(y, m + 1)
  <2>1. CASE m = 12
    <3>1. mp = 9 /\ y = Y
      BY <1>13, <1>14, <1>15, <2>1
    <3>2. FirstOf(y + 1, 1) = March((y + 1) - 1) + Since(1 + 9)
      BY <1>15, FirstFromMarch
    <3>3. FirstOf(y + 1, 1) = March(Y) + Since(mp + 1)
      BY <1>8, <3>1, <3>2
    <3>4. QED BY <1>11, <1>12, <1>13, <1>16, <2>1, <3>3
  <2>2. CASE m = 2
    <3>1. y = Y + 1
      BY <1>15, <2>2
    <3>2. FirstOf(y, 3) = March(Y + 1) + Since(0)
      BY <1>15, <3>1, FirstFromMarch
    <3>3. QED BY <1>11, <1>12, <2>2, <3>2, MonthsSinceMarch
  <2>3. CASE m = 1
    <3>1. y - 1 = Y /\ mp = 10
      BY <1>8, <1>13, <1>14, <1>15, <2>3
    <3>2. FirstOf(y, 2) = March(y - 1) + Since(2 + 9)
      BY <1>15, FirstFromMarch
    <3>3. FirstOf(y, m + 1) = March(Y) + Since(mp + 1)
      BY <2>3, <3>1, <3>2
    <3>4. QED BY <1>11, <1>12, <1>13, <1>16, <2>3, <3>3
  <2>4. CASE m \notin {1, 2, 12}
    <3>1. y = Y /\ m + 1 \in 1..12 /\ ~(m + 1 <= 2) /\ (m + 1) - 3 = mp + 1
      BY <1>8, <1>13, <1>14, <1>15, <2>4
    <3>2. FirstOf(y, m + 1) = March(Y) + Since(mp + 1)
      BY <1>15, <3>1, FirstFromMarch
    <3>3. QED BY <1>11, <1>12, <1>13, <1>16, <2>4, <3>2
  <2>5. QED BY <2>1, <2>2, <2>3, <2>4
<1>19. FirstOf(y, m) <= days
  BY <1>11, <1>12, <1>13, <1>16, <1>17
<1>20. QED BY <1>1, <1>14, <1>15, <1>18, <1>19

\* Months begin one after the other.
LEMMA NextMonth ==
  ASSUME NEW n \in Int
  PROVE  FirstOfMonth(n) \in Int /\ FirstOfMonth(n) < FirstOfMonth(n + 1)
<1>1. PICK y \in Int, m \in 1..12 : y = n \div 12 /\ m = (n % 12) + 1
  BY PartsAreInt
<1>2. FirstOfMonth(n) = FirstOf(y, m)
  BY <1>1 DEF FirstOfMonth
<1>3. FirstOfMonth(n + 1) = IF m = 12 THEN FirstOf(y + 1, 1) ELSE FirstOf(y, m + 1)
  <2>1. n = 12 * y + (m - 1)
    BY SMT, <1>1
  <2>2. (n + 1) \div 12 = (IF m = 12 THEN y + 1 ELSE y) /\ ((n + 1) % 12) + 1 = (IF m = 12 THEN 1 ELSE m + 1)
    BY SMT, <2>1
  <2>3. QED BY <2>2 DEF FirstOfMonth
<1>4. March(y - 1) \in Int /\ March(y) \in Int /\ March(y) >= March(y - 1) + 365
  BY MarchGrows
<1>5. \A i \in 1..12 : FirstOf(y, i) = IF i <= 2 THEN March(y - 1) + Since(i + 9) ELSE March(y) + Since(i - 3)
  BY FirstFromMarch
<1>6. FirstOf(y + 1, 1) = March(y) + Since(10)
  BY FirstFromMarch
<1>7. CASE m \in {1, 2, 12}
  BY <1>2, <1>3, <1>4, <1>5, <1>6, <1>7, MonthsSinceMarch
<1>8. CASE m \in {3, 4, 5, 6}
  BY <1>2, <1>3, <1>4, <1>5, <1>8, MonthsSinceMarch
<1>9. CASE m \in {7, 8, 9, 10, 11}
  BY <1>2, <1>3, <1>4, <1>5, <1>9, MonthsSinceMarch
<1>10. QED BY <1>7, <1>8, <1>9

\* March follows March by a year at least.
LEMMA MarchesFollow ==
  ASSUME NEW y \in Int, NEW v \in Int, y <= v
  PROVE  /\ March(y) \in Int /\ March(v) \in Int
         /\ March(y) + 365 * (v - y) <= March(v) /\ March(v) <= March(y) + 366 * (v - y)
<1>1. PICK a, b, c, d, e, f \in Int :
        /\ a = y \div 4 /\ b = y \div 100 /\ c = y \div 400
        /\ d = v \div 4 /\ e = v \div 100 /\ f = v \div 400
  BY PartsAreInt
<1>2. March(y) = 365 * y + a - b + c - 719468 /\ March(v) = 365 * v + d - e + f - 719468
  BY <1>1 DEF March
<1>3. d - e >= a - b
  <2>1. /\ 4 * a <= y /\ y < 4 * a + 4 /\ 4 * d <= v /\ v < 4 * d + 4
    BY SMT, <1>1
  <2>2. b = a \div 25 /\ e = d \div 25
    BY SMT, <1>1
  <2>3. 25 * b <= a /\ a < 25 * b + 25 /\ 25 * e <= d /\ d < 25 * e + 25
    BY SMT, <2>2
  <2>4. a <= d
    BY <2>1
  <2>5. b <= e /\ (b = e \/ e >= b + 1)
    BY <2>3, <2>4
  <2>6. CASE b = e
    BY <2>4, <2>6
  <2>7. CASE e >= b + 1
    <3>1. d - e >= 24 * e /\ a - b <= 24 * b + 24
      BY <2>3
    <3>2. QED BY <2>7, <3>1
  <2>8. QED BY <2>5, <2>6, <2>7
<1>4. c <= f
  <2>1. 400 * c <= y /\ v < 400 * f + 400
    BY SMT, <1>1
  <2>2. QED BY <2>1
<1>5. (d - e + f) - (a - b + c) <= v - y
  <2>1. PICK p, q \in Int : p = d - a /\ q = f - c
    OBVIOUS
  <2>2. /\ 4 * a <= y /\ y < 4 * a + 4 /\ 4 * d <= v /\ v < 4 * d + 4
    BY SMT, <1>1
  <2>3. c = b \div 4 /\ f = e \div 4
    BY SMT, <1>1
  <2>4. 4 * c <= b /\ b < 4 * c + 4 /\ 4 * f <= e /\ e < 4 * f + 4
    BY SMT, <2>3
  <2>5. e - f >= b - c
    <3>1. b <= e
      <4>1. 100 * b <= y /\ v < 100 * e + 100
        BY SMT, <1>1
      <4>2. QED BY <4>1
    <3>2. CASE f = c
      BY <3>1, <3>2
    <3>3. CASE f >= c + 1
      <4>1. e - f >= 3 * f /\ b - c <= 3 * c + 3
        BY <2>4
      <4>2. QED BY <3>3, <4>1
    <3>4. QED BY <1>4, <3>2, <3>3
  <2>6. d - a <= v - y
    BY <2>2
  <2>7. QED BY <2>5, <2>6
<1>6. QED BY <1>2, <1>3, <1>4, <1>5

\* The months of a year begin in their order, and before the next year.
LEMMA MonthsOfYear ==
  ASSUME NEW y \in Int
  PROVE  \A m \in 1..12 :
           /\ FirstOf(y, m) \in Int /\ FirstOf(y + 1, 1) \in Int
           /\ FirstOf(y, m) <= FirstOf(y + 1, 1)
           /\ \A l \in 1..12 : m <= l => FirstOf(y, m) <= FirstOf(y, l)
<1>1. PICK a, b \in Int : a = March(y - 1) /\ b = March(y) /\ a + 365 <= b
  <2>1. /\ March(y - 1) \in Int /\ March(y) \in Int
        /\ March(y - 1) + 365 * (y - (y - 1)) <= March(y)
    BY MarchesFollow
  <2>2. QED BY <2>1
<1>2. FirstOf(y + 1, 1) = b + 306
  BY <1>1, FirstFromMarch, MonthsSinceMarch
<1>3. /\ FirstOf(y, 1) = a + 306 /\ FirstOf(y, 2) = a + 337 /\ FirstOf(y, 3) = b
      /\ FirstOf(y, 4) = b + 31 /\ FirstOf(y, 5) = b + 61 /\ FirstOf(y, 6) = b + 92
  BY <1>1, FirstFromMarch, MonthsSinceMarch
<1>4. /\ FirstOf(y, 7) = b + 122 /\ FirstOf(y, 8) = b + 153 /\ FirstOf(y, 9) = b + 184
      /\ FirstOf(y, 10) = b + 214 /\ FirstOf(y, 11) = b + 245 /\ FirstOf(y, 12) = b + 275
  BY <1>1, FirstFromMarch, MonthsSinceMarch
<1>5. PICK f \in [1..12 -> Int] : \A m \in 1..12 : f[m] = FirstOf(y, m)
  <2>1. \A m \in 1..12 : FirstOf(y, m) \in Int
    <3>1. \A m \in {1, 2, 3, 4, 5, 6} : FirstOf(y, m) \in Int
      BY <1>3
    <3>2. \A m \in {7, 8, 9, 10, 11, 12} : FirstOf(y, m) \in Int
      BY <1>4
    <3>3. QED BY <3>1, <3>2
  <2>2. [m \in 1..12 |-> FirstOf(y, m)] \in [1..12 -> Int]
    BY <2>1
  <2>3. QED BY <2>2
<1>6. /\ f[1] = a + 306 /\ f[2] = a + 337 /\ f[3] = b
      /\ f[4] = b + 31 /\ f[5] = b + 61 /\ f[6] = b + 92
      /\ f[7] = b + 122 /\ f[8] = b + 153 /\ f[9] = b + 184
      /\ f[10] = b + 214 /\ f[11] = b + 245 /\ f[12] = b + 275
  BY <1>3, <1>4, <1>5
<1>7. \A m \in 1..12 : f[m] <= b + 306
  BY <1>1, <1>6
<1>8. \A m, l \in 1..12 : m <= l => f[m] <= f[l]
  BY <1>1, <1>6
<1>9. QED BY <1>1, <1>2, <1>5, <1>7, <1>8

\* So do the years.
LEMMA YearsFollow ==
  ASSUME NEW y \in Int, NEW v \in Int, y <= v
  PROVE  /\ FirstOf(y, 1) \in Int /\ FirstOf(v, 1) \in Int
         /\ FirstOf(y, 1) + 365 * (v - y) <= FirstOf(v, 1)
         /\ FirstOf(v, 1) <= FirstOf(y, 1) + 366 * (v - y)
<1>1. FirstOf(y, 1) = March(y - 1) + 306 /\ FirstOf(v, 1) = March(v - 1) + 306
  BY FirstFromMarch, MonthsSinceMarch
<1>2. /\ March(y - 1) \in Int /\ March(v - 1) \in Int
      /\ March(y - 1) + 365 * ((v - 1) - (y - 1)) <= March(v - 1)
      /\ March(v - 1) <= March(y - 1) + 366 * ((v - 1) - (y - 1))
  BY MarchesFollow
<1>3. QED BY <1>1, <1>2

\* Months begin in the order of their numbers.
LEMMA MonthsFollow ==
  ASSUME NEW n \in Int, NEW k \in Int, n < k
  PROVE  FirstOfMonth(n + 1) <= FirstOfMonth(k)
<1>1. PICK y \in Int, m \in 1..12 : y = (n + 1) \div 12 /\ m = ((n + 1) % 12) + 1
  BY PartsAreInt
<1>2. PICK v \in Int, l \in 1..12 : v = k \div 12 /\ l = (k % 12) + 1
  BY PartsAreInt
<1>3. n + 1 = 12 * y + m - 1 /\ k = 12 * v + l - 1
  BY SMT, <1>1, <1>2
<1>4. FirstOfMonth(n + 1) = FirstOf(y, m) /\ FirstOfMonth(k) = FirstOf(v, l)
  BY <1>1, <1>2 DEF FirstOfMonth
<1>5. CASE y = v
  <2>1. m <= l
    BY <1>3, <1>5
  <2>2. QED BY <1>4, <1>5, <2>1, MonthsOfYear
<1>6. CASE y # v
  <2>1. y + 1 <= v
    BY <1>3, <1>6
  <2>2. FirstOf(y, m) \in Int /\ FirstOf(v, l) \in Int /\ FirstOf(v, 1) \in Int
        /\ FirstOf(y, m) <= FirstOf(y + 1, 1) /\ FirstOf(v, 1) <= FirstOf(v, l)
    <3>1. /\ FirstOf(y, m) \in Int /\ FirstOf(y, m) <= FirstOf(y + 1, 1)
      BY MonthsOfYear
    <3>2. FirstOf(v, 1) \in Int /\ FirstOf(v, l) \in Int /\ FirstOf(v, 1) <= FirstOf(v, l)
      <4>1. 1 \in 1..12 /\ 1 <= l
        OBVIOUS
      <4>2. QED BY <4>1, MonthsOfYear
    <3>3. QED BY <3>1, <3>2
  <2>3. FirstOf(y + 1, 1) \in Int /\ FirstOf(y + 1, 1) <= FirstOf(v, 1)
    <3> DEFINE next == y + 1
    <3>1. next \in Int /\ next <= v
      BY <2>1
    <3> HIDE DEF next
    <3>2. FirstOf(next, 1) \in Int /\ FirstOf(v, 1) \in Int /\ FirstOf(next, 1) + 365 * (v - next) <= FirstOf(v, 1)
      BY <3>1, YearsFollow
    <3>3. FirstOf(next, 1) <= FirstOf(v, 1)
      BY <3>1, <3>2
    <3>4. QED BY <3>2, <3>3 DEF next
  <2>4. QED BY <1>4, <2>2, <2>3
<1>7. QED BY <1>5, <1>6

\* A day lies in one month.
LEMMA OneMonth ==
  ASSUME NEW day \in Int, NEW n \in Int, NEW k \in Int,
         FirstOfMonth(n) <= day, day < FirstOfMonth(n + 1),
         FirstOfMonth(k) <= day, day < FirstOfMonth(k + 1)
  PROVE  n = k
<1>1. /\ FirstOfMonth(n) \in Int /\ FirstOfMonth(n + 1) \in Int
      /\ FirstOfMonth(k) \in Int /\ FirstOfMonth(k + 1) \in Int
  BY NextMonth
<1>2. ~(n < k)
  <2>1. SUFFICES ASSUME n < k PROVE FALSE
    OBVIOUS
  <2>2. FirstOfMonth(n + 1) <= FirstOfMonth(k)
    BY <2>1, MonthsFollow
  <2>3. QED BY <1>1, <2>2
<1>3. ~(k < n)
  <2>1. SUFFICES ASSUME k < n PROVE FALSE
    OBVIOUS
  <2>2. FirstOfMonth(k + 1) <= FirstOfMonth(n)
    BY <2>1, MonthsFollow
  <2>3. QED BY <1>1, <2>2
<1>4. QED BY <1>2, <1>3

\* A year is about as far from 1970 as its days say.
LEMMA YearIsNear ==
  ASSUME NEW day \in Int, NEW y \in Int, FirstOf(y, 1) <= day, day < FirstOf(y + 1, 1)
  PROVE  y \in YearsNear(day)
<1>1. PICK a, b \in Int : a = day \div 365 /\ b = day \div 366
  BY PartsAreInt
<1>2. 365 * a <= day /\ day < 365 * a + 365 /\ 366 * b <= day /\ day < 366 * b + 366
  BY SMT, <1>1
<1>3. FirstOf(1970, 1) = 0
  <2>1. LeapDaysTo(1970) \in Int
    BY PartsAreInt DEF LeapDaysTo
  <2>2. QED BY <2>1 DEF FirstOf, DaysBefore
<1>4. PICK k \in Int : k = y - 1970
  OBVIOUS
<1>5. k \in Smaller(a, b) - 1..Larger(a, b) + 1
  <2>1. CASE y >= 1970
    <3>1. FirstOf(y, 1) \in Int /\ 365 * (y - 1970) <= FirstOf(y, 1)
      BY <1>3, <2>1, YearsFollow
    <3>2. FirstOf(y + 1, 1) \in Int /\ FirstOf(y + 1, 1) <= 366 * ((y + 1) - 1970)
      BY <1>3, <2>1, YearsFollow
    <3>3. 365 * k <= day /\ day < 366 * k + 366 /\ k >= 0
      BY <1>4, <2>1, <3>1, <3>2
    <3>4. k <= a /\ b <= k
      BY <1>2, <3>3
    <3>5. QED BY <3>4 DEF Smaller, Larger
  <2>2. CASE y < 1970
    <3>1. /\ FirstOf(y, 1) \in Int /\ FirstOf(y, 1) + 365 * (1970 - y) <= 0
          /\ 0 <= FirstOf(y, 1) + 366 * (1970 - y)
      BY <1>3, <2>2, YearsFollow
    <3>2. FirstOf(y + 1, 1) \in Int /\ FirstOf(y + 1, 1) + 365 * (1970 - (y + 1)) <= 0
      BY <1>3, <2>2, YearsFollow
    <3>3. 366 * k <= day /\ day < 365 * k + 365 /\ k < 0
      BY <1>4, <2>2, <3>1, <3>2
    <3>4. k <= b /\ a <= k
      BY <1>2, <3>3
    <3>5. QED BY <3>4 DEF Smaller, Larger
  <2>3. QED BY <2>1, <2>2
<1>6. y = 1970 + k
  BY <1>4
<1>7. QED BY <1>1, <1>5, <1>6 DEF YearsNear

\* The month of a day, by the calendar, is the one the code finds.
LEMMA CodeFindsMonth ==
  ASSUME NEW day \in Int
  PROVE  \E y \in Int, m \in 1..12 :
           /\ CivilFromDays(day) = <<y, m>> /\ MonthOf(day) = 12 * y + m - 1
           /\ FirstOfMonth(12 * y + m - 1) <= day /\ day < FirstOfMonth(12 * y + m)
<1>1. PICK y \in Int, m \in 1..12 :
        /\ CivilFromDays(day) = <<y, m>> /\ FirstOf(y, m) <= day
        /\ day < IF m = 12 THEN FirstOf(y + 1, 1) ELSE FirstOf(y, m + 1)
  BY CodeKnowsMonth
<1>2. PICK n \in Int : n = 12 * y + m - 1
  OBVIOUS
<1>3. n \div 12 = y /\ (n % 12) + 1 = m
  BY SMT, <1>2
<1>4. (n + 1) \div 12 = (IF m = 12 THEN y + 1 ELSE y) /\ ((n + 1) % 12) + 1 = (IF m = 12 THEN 1 ELSE m + 1)
  BY SMT, <1>2
<1>5. FirstOfMonth(n) <= day /\ day < FirstOfMonth(n + 1)
  <2>1. FirstOfMonth(n) = FirstOf(y, m)
    BY <1>3 DEF FirstOfMonth
  <2>2. FirstOfMonth(n + 1) = IF m = 12 THEN FirstOf(y + 1, 1) ELSE FirstOf(y, m + 1)
    BY <1>4 DEF FirstOfMonth
  <2>3. QED BY <1>1, <2>1, <2>2
<1>6. y \in YearsNear(day)
  <2>1. FirstOf(y, 1) <= day
    <3>1. FirstOf(y, 1) \in Int /\ FirstOf(y, m) \in Int /\ FirstOf(y, 1) <= FirstOf(y, m)
      <4>1. 1 \in 1..12 /\ 1 <= m
        OBVIOUS
      <4>2. QED BY <4>1, MonthsOfYear
    <3>2. QED BY <1>1, <3>1
  <2>2. day < FirstOf(y + 1, 1)
    <3>1. CASE m = 12
      BY <1>1, <3>1
    <3>2. CASE m # 12
      <4>1. m + 1 \in 1..12
        BY <3>2
      <4>2. FirstOf(y, m + 1) \in Int /\ FirstOf(y + 1, 1) \in Int /\ FirstOf(y, m + 1) <= FirstOf(y + 1, 1)
        BY <4>1, MonthsOfYear
      <4>3. QED BY <1>1, <3>2, <4>2
    <3>3. QED BY <3>1, <3>2
  <2>3. QED BY <2>1, <2>2, YearIsNear
<1>8. n \in MonthsNear(day) /\ MonthsNear(day) \subseteq Int
  <2>1. n \in 12 * y..12 * y + 11
    BY <1>2
  <2>2. YearsNear(day) \subseteq Int
    <3>1. day \div 365 \in Int /\ day \div 366 \in Int
      BY PartsAreInt
    <3>2. QED BY <3>1 DEF YearsNear, Smaller, Larger
  <2>3. QED BY <1>6, <2>1, <2>2 DEF MonthsNear
<1>9. PICK k : k = MonthOf(day)
  OBVIOUS
<1>10. k \in MonthsNear(day) /\ Covers(k, day)
  <2>1. Covers(n, day)
    BY <1>5 DEF Covers
  <2>2. QED BY Zenon, <1>8, <1>9, <2>1 DEF MonthOf
<1>11. k = n
  BY <1>5, <1>8, <1>10, OneMonth DEF Covers
<1>12. n + 1 = 12 * y + m
  BY <1>2
<1>13. QED BY <1>1, <1>2, <1>5, <1>9, <1>11, <1>12

-----------------------------------------------------------------------------
(* Windows and their ends *)

\* A product of two numbers keeps their order.
LEMMA ProductsKeepOrder ==
  ASSUME NEW a \in Int, NEW c \in Int, NEW b \in Nat, a <= c
  PROVE  a * b \in Int /\ c * b \in Int /\ a * b <= c * b
BY SMT

\* A whole part lies under a number exactly when the number's multiple is not reached.
LEMMA WholePartUnder ==
  ASSUME NEW x \in Int, NEW b \in Nat \ {0}, NEW c \in Int
  PROVE  x \div b < c <=> x < c * b
<1>1. PICK q \in Int, r \in 0..(b - 1) : q = x \div b /\ r = x % b
  BY PartsAreInt
<1>2. x = b * q + r
  BY SMT, <1>1
<1>3. q * b \in Int /\ b * q = q * b /\ (q + 1) * b = q * b + b /\ c * b \in Int
  BY SMT
<1>4. CASE q < c
  <2>1. (q + 1) * b <= c * b
    BY <1>4, ProductsKeepOrder
  <2>2. QED BY <1>1, <1>2, <1>3, <1>4, <2>1
<1>5. CASE ~(q < c)
  <2>1. c * b <= q * b
    BY <1>5, ProductsKeepOrder
  <2>2. QED BY <1>1, <1>2, <1>3, <1>5, <2>1
<1>6. QED BY <1>4, <1>5

\* The code's window of a record is the calendar's, and its end parts what lies
\* in it or before from what lies behind.
LEMMA WindowsEnd ==
  ASSUME NEW s \in Specs, s.unit \in Timed, NEW ts \in Int, NEW w \in Int
  PROVE  /\ Window(s, ts) = WindowOf(s, ts) /\ WindowOf(s, ts) \in Int /\ WindowEnd(s, w) \in Int
         /\ ts < WindowEnd(s, w) <=> WindowOf(s, ts) <= w
<1>1. s.step \in Nat \ {0} /\ Align \in Int /\ DayLength \in Nat \ {0}
  BY BarsAssumption
<1>2. PICK next \in Int : next = (w + 1) * s.step
  BY <1>1
<1>3. PICK at \in Int : at = ts + Align
  BY <1>1
<1>4. PICK day \in Int : day = DayOf(ts) /\ day = at \div DayLength
  BY <1>1, <1>3, PartsAreInt DEF DayOf
<1>5. \A n \in Int : n \div s.step \in Int /\ (n \div s.step <= w <=> n < next)
  <2>1. SUFFICES ASSUME NEW n \in Int
                 PROVE  n \div s.step \in Int /\ (n \div s.step <= w <=> n < next)
    OBVIOUS
  <2>2. PICK q \in Int : q = n \div s.step
    BY <1>1, PartsAreInt
  <2>3. q < w + 1 <=> n < (w + 1) * s.step
    BY <1>1, <2>2, WholePartUnder
  <2>4. QED BY <1>2, <2>2, <2>3
<1>6. \A first \in Int : first * DayLength - Align \in Int /\ (ts < first * DayLength - Align <=> day < first)
  <2>1. SUFFICES ASSUME NEW first \in Int
                 PROVE  first * DayLength - Align \in Int /\ (ts < first * DayLength - Align <=> day < first)
    OBVIOUS
  <2>2. PICK p \in Int : p = first * DayLength
    BY <1>1
  <2>3. day < first <=> at < p
    BY <1>1, <1>4, <2>2, WholePartUnder
  <2>4. QED BY <1>1, <1>3, <2>2, <2>3
<1>7. PICK y \in Int, m \in 1..12, n \in Int :
        /\ CivilFromDays(day) = <<y, m>> /\ MonthOf(day) = n /\ n = 12 * y + m - 1
        /\ FirstOfMonth(n) <= day /\ day < FirstOfMonth(n + 1)
  <2>1. PICK y \in Int, m \in 1..12 :
          /\ CivilFromDays(day) = <<y, m>> /\ MonthOf(day) = 12 * y + m - 1
          /\ FirstOfMonth(12 * y + m - 1) <= day /\ day < FirstOfMonth(12 * y + m)
    BY CodeFindsMonth
  <2>2. PICK n \in Int : n = 12 * y + m - 1
    OBVIOUS
  <2>3. n + 1 = 12 * y + m
    BY <2>2
  <2>4. QED BY <2>1, <2>2, <2>3
<1>8. \A k \in Int : FirstOfMonth(k) \in Int /\ (day < FirstOfMonth(k) <=> n < k)
  <2>1. SUFFICES ASSUME NEW k \in Int
                 PROVE  FirstOfMonth(k) \in Int /\ (day < FirstOfMonth(k) <=> n < k)
    OBVIOUS
  <2>2. FirstOfMonth(k) \in Int /\ FirstOfMonth(n) \in Int /\ FirstOfMonth(n + 1) \in Int
    BY NextMonth
  <2>3. CASE n < k
    <3>1. FirstOfMonth(n + 1) <= FirstOfMonth(k)
      BY <1>7, <2>3, MonthsFollow
    <3>2. QED BY <1>7, <2>2, <2>3, <3>1
  <2>4. CASE n = k
    BY <1>7, <2>2, <2>4
  <2>5. CASE k < n
    <3>1. FirstOfMonth(k + 1) <= FirstOfMonth(n) /\ FirstOfMonth(k) < FirstOfMonth(k + 1)
          /\ FirstOfMonth(k + 1) \in Int
      BY <2>5, MonthsFollow, NextMonth
    <3>2. QED BY <1>7, <2>2, <2>5, <3>1
  <2>6. QED BY <2>3, <2>4, <2>5
<1>9. CASE s.unit = "Time"
  <2>1. WindowOf(s, ts) = at \div s.step /\ Window(s, ts) = at \div s.step
    BY <1>3, <1>9 DEF WindowOf, Window
  <2>2. WindowEnd(s, w) = next - Align
    BY <1>2, <1>9 DEF WindowEnd
  <2>3. ts < next - Align <=> at < next
    BY <1>1, <1>3
  <2>4. QED BY <1>1, <1>3, <1>5, <2>1, <2>2, <2>3
<1>10. CASE s.unit = "Month"
  <2>1. n = y * 12 + m - 1
    BY <1>7
  <2>2. WindowOf(s, ts) = n \div s.step
    <3>1. WindowOf(s, ts) = (CivilFromDays(day)[1] * 12 + CivilFromDays(day)[2] - 1) \div s.step
      BY <1>4, <1>10 DEF WindowOf
    <3>2. CivilFromDays(day)[1] = y /\ CivilFromDays(day)[2] = m
      BY <1>7
    <3>3. QED BY <2>1, <3>1, <3>2
  <2>3. Window(s, ts) = n \div s.step
    BY <1>4, <1>7, <1>10 DEF Window
  <2>4. PICK v \in Int, l \in 1..12 : v = next \div 12 /\ l = (next % 12) + 1
    BY PartsAreInt
  <2>5. DaysFromCivil(v, l) = FirstOfMonth(next)
    BY <2>4, CodeKnowsFirst DEF FirstOfMonth
  <2>6. WindowEnd(s, w) = FirstOfMonth(next) * DayLength - Align
    BY <1>2, <1>10, <2>4, <2>5 DEF WindowEnd
  <2>7. PICK first \in Int : first = FirstOfMonth(next) /\ (day < first <=> n < next)
    BY <1>8
  <2>8. QED BY <1>5, <1>6, <2>2, <2>3, <2>6, <2>7
<1>11. CASE s.unit = "Year"
  <2>1. n \div 12 = y
    BY SMT, <1>7
  <2>2. WindowOf(s, ts) = y \div s.step
    <3>1. CivilFromDays(day)[1] = y
      BY <1>7
    <3>2. QED BY <1>4, <1>11, <3>1 DEF WindowOf
  <2>3. Window(s, ts) = y \div s.step
    BY <1>4, <1>7, <1>11, <2>1 DEF Window
  <2>4. DaysFromCivil(next, 1) = FirstOfMonth(12 * next)
    <3>1. PICK k \in Int : k = 12 * next
      OBVIOUS
    <3>2. k \div 12 = next /\ (k % 12) + 1 = 1
      BY SMT, <3>1
    <3>3. QED BY <3>1, <3>2, CodeKnowsFirst DEF FirstOfMonth
  <2>5. WindowEnd(s, w) = FirstOfMonth(12 * next) * DayLength - Align
    BY <1>2, <1>11, <2>4 DEF WindowEnd
  <2>6. PICK first \in Int : first = FirstOfMonth(12 * next) /\ (day < first <=> n < 12 * next)
    BY <1>8
  <2>7. n < 12 * next <=> y < next
    BY <1>7
  <2>8. QED BY <1>5, <1>6, <2>2, <2>3, <2>5, <2>6, <2>7
<1>12. QED BY <1>9, <1>10, <1>11 DEF Timed

\* A timestamp has its window, and a window its end.
LEMMA WindowsAreInt ==
  ASSUME NEW s \in Specs, s.unit \in Timed, NEW ts \in Int
  PROVE  WindowOf(s, ts) \in Int /\ WindowEnd(s, ts) \in Int
BY WindowsEnd

Slots ==
  {"partial", "window", "total", "buy", "sell", "prevClose", "prevSign", "lastTs", "anchor",
   "pending"}

\* A builder of windows has one open exactly while it holds something.
Dated(b) == b.window \in Int \cup {None} /\ (b.partial = None <=> b.window = None)

\* What a builder of windows should become, and hand out, on the last record.
InTime(t, b, r, es) ==
  /\ DOMAIN r.next = Slots /\ r.next.pending = b.pending /\ Dated(r.next)
  /\ r.out \in Seq(BarRecord)
  /\ Whole(t, r.next.partial, es \o Entries(r.out, Len(t) - 1))

\* A bar of time takes the record in, or ends before it.
LEMMA TimeGoesOn ==
  ASSUME NEW s \in Specs, s.unit \in Timed, NEW t \in Seq(Rec), NEW rec \in Rec, NEW es, NEW b,
         DOMAIN b = Slots, Dated(b), Whole(t, b.partial, es), NEW r, r = TimePush(s, b, rec)
  PROVE  InTime(Append(t, rec), b, r, es)
<1>0. SUFFICES /\ DOMAIN r.next = Slots /\ r.next.pending = b.pending /\ Dated(r.next)
               /\ r.out \in Seq(BarRecord)
               /\ Whole(Append(t, rec), r.next.partial, es \o Entries(r.out, Len(t)))
  <2>1. PICK u : u = Append(t, rec)
    OBVIOUS
  <2>2. Len(u) - 1 = Len(t)
    BY <2>1
  <2>3. QED BY <2>1, <2>2 DEF InTime
<1> DEFINE u == Append(t, rec)
<1>1. PICK w \in Int : w = WindowOf(s, rec.ts)
  BY RecFields, WindowsAreInt
<1>2. w # None /\ es \in Seq(EntryShape)
  BY BarsAssumption DEF Whole
<1>3. CASE b.window = w
  <2>1. b.partial # None
    BY <1>2, <1>3 DEF Dated
  <2>2. PICK p : p = Absorb(b.partial, rec)
    OBVIOUS
  <2>3. r = [next |-> [b EXCEPT !.partial = p], out |-> <<>>]
    BY <1>1, <1>3, <2>2 DEF TimePush
  <2>4. DOMAIN r.next = Slots /\ r.next.pending = b.pending /\ r.next.window = b.window
        /\ r.next.partial = p /\ r.out = <<>>
    BY <2>3 DEF Slots
  <2>5. Whole(u, p, es)
    BY <2>1, <2>2, WholeHolds DEF Held
  <2>6. p # None
    <3>1. Held(b.partial, rec) = p
      BY <2>1, <2>2 DEF Held
    <3>2. Digests(u, Lo(es, Len(es) + 1), Len(t) + 1, p)
      BY <3>1, HeldIsNext
    <3>3. Lo(es, Len(es) + 1) \in 1..Len(u) /\ u \in Seq(Rec)
          /\ Len(t) + 1 \in Lo(es, Len(es) + 1)..Len(u)
      BY DEF Whole
    <3> HIDE DEF u
    <3>4. QED BY <3>2, <3>3, PartialIsSome
  <2>7. Dated(r.next)
    BY <1>2, <1>3, <2>4, <2>6 DEF Dated
  <2>8. es \o Entries(r.out, Len(t)) = es
    <3>1. PICK o : o = r.out
      OBVIOUS
    <3>2. o = <<>>
      BY <2>4, <3>1
    <3>3. es \o Entries(o, Len(t)) = es
      BY <1>2, <3>2, NoEntry
    <3>4. QED BY <3>1, <3>3
  <2>9. Whole(u, r.next.partial, es \o Entries(r.out, Len(t)))
    BY <2>4, <2>5, <2>8
  <2>10. r.out \in Seq(BarRecord)
    BY <2>4
  <2> HIDE DEF u
  <2>11. QED BY <2>4, <2>7, <2>9, <2>10 DEF u
<1>4. CASE b.window # w
  <2>1. PICK q : q = Start(rec)
    OBVIOUS
  <2>2. PICK o : o = IF b.partial = None THEN <<>>
                     ELSE <<Stamped(b.partial, WindowEnd(s, b.window))>>
    OBVIOUS
  <2>3. r = [next |-> [b EXCEPT !.window = w, !.partial = q], out |-> o]
    BY <1>1, <1>4, <2>1, <2>2 DEF TimePush
  <2>4. DOMAIN r.next = Slots /\ r.next.pending = b.pending /\ r.next.window = w
        /\ r.next.partial = q /\ r.out = o
    <3>1. PICK c : c = [b EXCEPT !.window = w, !.partial = q]
      OBVIOUS
    <3>2. DOMAIN c = Slots /\ c.pending = b.pending /\ c.window = w /\ c.partial = q
      BY <3>1 DEF Slots
    <3>3. r = [next |-> c, out |-> o]
      BY <2>3, <3>1
    <3>4. QED BY <3>2, <3>3
  <2>5. Held(None, rec) = q
    BY <2>1 DEF Held
  <2>6. q # None
    <3>1. q \in Partial
      BY <2>1, RecFields DEF Start, Partial
    <3>2. QED BY <3>1, BarsAssumption
  <2>7. Dated(r.next)
    BY <1>2, <2>4, <2>6 DEF Dated
  <2>8. CASE b.partial = None
    <3>1. Whole(u, q, es)
      BY <2>5, <2>8, WholeHolds
    <3>2. o = <<>>
      BY <2>2, <2>8
    <3>3. es \o Entries(o, Len(t)) = es
      BY <1>2, <3>2, NoEntry
    <3>4. Whole(u, r.next.partial, es \o Entries(r.out, Len(t)))
      BY <2>4, <3>1, <3>3
    <3>5. r.out \in Seq(BarRecord)
      BY <2>4, <3>2
    <3> HIDE DEF u
    <3>6. QED BY <2>4, <2>7, <3>4, <3>5 DEF u
  <2>9. CASE b.partial # None
    <3>1. b.window \in Int
      BY <2>9 DEF Dated
    <3>2. PICK e \in Int : e = WindowEnd(s, b.window)
      BY <3>1, WindowsAreInt
    <3>3. PICK x : x = Stamped(b.partial, e)
      OBVIOUS
    <3>4. o = <<x>>
      BY <2>2, <2>9, <3>2, <3>3
    <3>5. x \in BarRecord /\ Bared(x) = b.partial
      <4>1. /\ Lo(es, Len(es) + 1) \in 1..Len(t) /\ Len(t) \in Lo(es, Len(es) + 1)..Len(t)
            /\ Digests(t, Lo(es, Len(es) + 1), Len(t), b.partial)
        BY <2>9 DEF Whole
      <4>2. QED BY <3>3, <4>1, PartialIsSome
    <3>6. Whole(t, None, Append(es, [bar |-> x, upTo |-> Len(t)]))
      BY <2>9, <3>5, WholeEmits
    <3>7. es \o Entries(o, Len(t)) = Append(es, [bar |-> x, upTo |-> Len(t)])
      BY <1>2, <3>4, <3>5, OneEntry
    <3>8. Whole(u, q, es \o Entries(o, Len(t)))
      BY <2>5, <3>6, <3>7, WholeHolds
    <3>9. o \in Seq(BarRecord)
      BY <3>4, <3>5
    <3>10. QED BY <2>4, <2>7, <3>8, <3>9
  <2>10. QED BY <2>8, <2>9
<1>5. QED BY <1>3, <1>4

\* Two states of a builder that differ in nothing but being the same one.
Alike(b, c) ==
  /\ DOMAIN b = Slots /\ DOMAIN c = Slots
  /\ c.partial = b.partial /\ c.window = b.window /\ c.total = b.total
  /\ c.buy = b.buy /\ c.sell = b.sell /\ c.prevClose = b.prevClose /\ c.prevSign = b.prevSign
  /\ c.lastTs = b.lastTs /\ c.anchor = b.anchor /\ c.pending = b.pending

\* A builder that queues nothing has nothing to drain.
LEMMA FedIsPushed ==
  ASSUME NEW s, NEW b, NEW rec, NEW S, NEW r, r = PushInto(s, b, rec), DOMAIN r.next = Slots,
         r.next.pending = <<>>, r.out \in Seq(S)
  PROVE  Alike(r.next, Fed(s, b, rec).next) /\ Fed(s, b, rec).out = r.out
<1>1. CASE s.drained
  <2>1. Fed(s, b, rec) = [next |-> [r.next EXCEPT !.pending = <<>>], out |-> r.out \o r.next.pending]
    BY <1>1 DEF Fed
  <2>2. PICK c : c = r.next
    OBVIOUS
  <2>3. Alike(c, [c EXCEPT !.pending = <<>>])
    BY <2>2 DEF Alike, Slots
  <2>4. r.out \o r.next.pending = r.out
    OBVIOUS
  <2>5. QED BY <2>1, <2>2, <2>3, <2>4
<1>2. CASE ~s.drained
  <2>1. Fed(s, b, rec) = r
    BY <1>2 DEF Fed
  <2>2. QED BY <2>1 DEF Alike
<1>3. QED BY <1>1, <1>2

-----------------------------------------------------------------------------
(* Thresholds *)

Threshold == Counted \cup Imbalanced \cup Running

\* Changes, DirectionOf, Moved and Enough, of any tape.
Flips(t, i) == {k \in 2..i : t[k].signed = 0 /\ t[k].close # t[k - 1].close}

LastSign(t, i) ==
  IF Flips(t, i) = {} THEN 1 ELSE Sign(t[Max(Flips(t, i))].close - t[Max(Flips(t, i)) - 1].close)

Way(t, i) == IF t[i].signed # 0 THEN Sign(t[i].signed) ELSE LastSign(t, i)

Share(s, t, i, way) == IF Way(t, i) = way THEN Magnitude(s, t[i]) ELSE 0

Traded(s, t, lo, hi, way) == SumFunction([i \in lo..hi |-> Share(s, t, i, way)])

Due(s, t, lo, hi) ==
  CASE s.unit \in Counted    -> Traded(s, t, lo, hi, 1) + Traded(s, t, lo, hi, -1) >= s.step
    [] s.unit \in Imbalanced -> Abs(Traded(s, t, lo, hi, 1) - Traded(s, t, lo, hi, -1)) >= s.step
    [] s.unit \in Running    -> \/ Traded(s, t, lo, hi, 1) >= s.step
                                \/ Traded(s, t, lo, hi, -1) >= s.step

\* A record weighs a number.
LEMMA MagnitudeIsInt ==
  ASSUME NEW s, s.unit \in Threshold, NEW rec \in Rec
  PROVE  Magnitude(s, rec) \in Int
<1>1. rec.volume \in Int /\ rec.close \in Int
  BY RecFields
<1>2. rec.close * rec.volume \in Int
  BY <1>1
<1>3. QED BY <1>1, <1>2 DEF Magnitude, Threshold, Counted, Imbalanced, Running

\* Its share in a direction is one too.
LEMMA ShareIsInt ==
  ASSUME NEW s, s.unit \in Threshold, NEW t \in Seq(Rec), NEW way
  PROVE  \A i \in 1..Len(t) : Share(s, t, i, way) \in Int
<1>1. \A i \in 1..Len(t) : t[i] \in Rec
  OBVIOUS
<1>2. QED BY <1>1, MagnitudeIsInt DEF Share

\* Directions are told by the tape so far.
LEMMA WaysStay ==
  ASSUME NEW t \in Seq(Rec), NEW u \in Seq(Rec), \A i \in 1..Len(t) : u[i] = t[i],
         NEW i \in 0..Len(t)
  PROVE  LastSign(u, i) = LastSign(t, i) /\ (i # 0 => Way(u, i) = Way(t, i))
<1>1. Flips(u, i) = Flips(t, i)
  <2>1. \A k \in 2..i : k \in 1..Len(t) /\ k - 1 \in 1..Len(t)
    OBVIOUS
  <2>2. \A k \in 2..i : u[k] = t[k] /\ u[k - 1] = t[k - 1]
    BY <2>1
  <2>3. QED BY <2>2 DEF Flips
<1>2. CASE Flips(t, i) = {}
  BY <1>1, <1>2 DEF LastSign, Way
<1>3. CASE Flips(t, i) # {}
  <2>1. Flips(t, i) \in SUBSET Int /\ \A k \in Flips(t, i) : k \in 2..i
    BY DEF Flips
  <2>2. \E m \in Flips(t, i) : Greatest(Flips(t, i), m)
    <3>1. Flips(t, i) \in SUBSET (0..i) /\ i \in Nat
      BY <2>1
    <3> DEFINE Back == {i - k : k \in Flips(t, i)}
    <3>2. Back \in SUBSET Nat /\ Back # {}
      BY <1>3, <3>1
    <3> HIDE DEF Back
    <3>3. PICK n \in Back : \A m \in Back : n <= m
      BY <3>2, LeastNumber
    <3> USE DEF Back
    <3>4. PICK k \in Flips(t, i) : n = i - k
      BY <3>3
    <3>5. \A m \in Flips(t, i) : n <= i - m
      BY <3>3
    <3>6. QED BY <2>1, <3>4, <3>5 DEF Greatest
  <2>3. Max(Flips(t, i)) \in 2..i
    BY <2>1, <2>2, MaxIsGreatest
  <2>4. PICK m : m = Max(Flips(t, i))
    OBVIOUS
  <2>5. u[m] = t[m] /\ u[m - 1] = t[m - 1]
    BY <2>3, <2>4
  <2>6. LastSign(u, i) = LastSign(t, i)
    BY <1>1, <2>4, <2>5 DEF LastSign
  <2>7. QED BY <2>6 DEF Way
<1>4. QED BY <1>2, <1>3

\* What was traded, and what is due, is told by the tape so far.
LEMMA TradedStays ==
  ASSUME NEW s, s.unit \in Threshold, NEW t \in Seq(Rec), NEW u \in Seq(Rec), \A i \in 1..Len(t) : u[i] = t[i],
         NEW lo \in Nat \ {0}, NEW hi \in 0..Len(t)
  PROVE  /\ \A way : Traded(s, u, lo, hi, way) = Traded(s, t, lo, hi, way)
         /\ Due(s, u, lo, hi) <=> Due(s, t, lo, hi)
<1>1. \A i \in lo..hi : i \in 0..Len(t) /\ i # 0 /\ u[i] = t[i]
  OBVIOUS
<1>2. \A i \in lo..hi : \A way : Share(s, u, i, way) = Share(s, t, i, way)
  BY <1>1, WaysStay DEF Share
<1>3. \A way : [i \in lo..hi |-> Share(s, u, i, way)] = [i \in lo..hi |-> Share(s, t, i, way)]
  BY <1>2
<1>4. \A way : Traded(s, u, lo, hi, way) = Traded(s, t, lo, hi, way)
  BY <1>3 DEF Traded
<1>5. PICK a : a = Traded(s, t, lo, hi, 1)
  OBVIOUS
<1>6. PICK b : b = Traded(s, t, lo, hi, -1)
  OBVIOUS
<1>7. Traded(s, u, lo, hi, 1) = a /\ Traded(s, u, lo, hi, -1) = b
  BY <1>4, <1>5, <1>6
<1>8. Due(s, u, lo, hi) <=> Due(s, t, lo, hi)
  BY <1>5, <1>6, <1>7 DEF Due, Threshold
<1>9. QED BY <1>4, <1>8

\* Nothing is traded on nothing.
LEMMA NothingTraded ==
  ASSUME NEW s, NEW t, NEW n \in Int, NEW way
  PROVE  Traded(s, t, n + 1, n, way) = 0
<1>1. [i \in (n + 1)..n |-> Share(s, t, i, way)] \in [{} -> Int]
  <2>1. (n + 1)..n = {}
    OBVIOUS
  <2>2. QED BY <2>1
<1>2. QED BY <1>1, SumOfNone DEF Traded

\* What was traded, record by record.
LEMMA TradedGrows ==
  ASSUME NEW s, s.unit \in Threshold, NEW t \in Seq(Rec), NEW hi \in 1..Len(t), NEW lo \in 1..hi,
         NEW way
  PROVE  /\ Traded(s, t, lo, hi, way) = Traded(s, t, lo, hi - 1, way) + Share(s, t, hi, way)
         /\ Traded(s, t, lo, hi, way) \in Int /\ Traded(s, t, lo, hi - 1, way) \in Int
<1>1. PICK f : f = [i \in lo..hi |-> Share(s, t, i, way)]
  OBVIOUS
<1>2. /\ f \in [lo..hi -> Int] /\ lo \in Int /\ hi \in Int /\ lo <= hi
      /\ f[hi] = Share(s, t, hi, way) /\ hi \in lo..hi
  BY <1>1, ShareIsInt
<1>3. SumFunction(f) = SumFunction([i \in lo..(hi - 1) |-> f[i]]) + f[hi]
  BY ONLY <1>2, SumOfStretch
<1>4. [i \in lo..(hi - 1) |-> f[i]] = [i \in lo..(hi - 1) |-> Share(s, t, i, way)]
  BY <1>1
<1>5. SumFunction(f) \in Int
  <2>1. PICK D : D = lo..hi
    OBVIOUS
  <2>2. IsFiniteSet(D) /\ f \in [D -> Int]
    BY <1>2, <2>1, FS_Interval
  <2>3. QED BY ONLY <2>2, SumIsInt
<1>6. SumFunction([i \in lo..(hi - 1) |-> f[i]]) \in Int
  <2>1. PICK D : D = lo..(hi - 1)
    OBVIOUS
  <2>2. PICK g : g = [i \in D |-> f[i]]
    OBVIOUS
  <2>3. IsFiniteSet(D) /\ g \in [D -> Int]
    <3>1. \A i \in D : f[i] \in Int
      BY <1>2, <2>1
    <3>2. IsFiniteSet(D)
      BY <2>1, FS_Interval
    <3>3. QED BY <2>2, <3>1, <3>2
  <2>4. SumFunction(g) \in Int
    BY ONLY <2>3, SumIsInt
  <2>5. QED BY <2>1, <2>2, <2>4
<1>7. QED BY <1>1, <1>2, <1>3, <1>4, <1>5, <1>6 DEF Traded

\* The bars handed out closed on the record that made them due.
TightBars(s, t, es, over) ==
  \A k \in 1..Len(es) :
    /\ \A i \in Lo(es, k)..(es[k].upTo - 1) : ~Due(s, t, Lo(es, k), i)
    /\ Due(s, t, Lo(es, k), es[k].upTo) \/ (over /\ k = Len(es))
    /\ es[k].bar.ts = t[es[k].upTo].ts

\* No bar is due since.
NoneDue(s, t, lo, hi) == \A i \in lo..hi : ~Due(s, t, lo, i)

Tight(s, t, es, over) ==
  TightBars(s, t, es, over) /\ NoneDue(s, t, Lo(es, Len(es) + 1), Len(t))

\* What closed on time did so whatever comes next.
LEMMA TightStays ==
  ASSUME NEW s, s.unit \in Threshold, NEW t \in Seq(Rec), NEW rec \in Rec, NEW p, NEW es,
         Whole(t, p, es), Tight(s, t, es, FALSE)
  PROVE  /\ TightBars(s, Append(t, rec), es, FALSE)
         /\ NoneDue(s, Append(t, rec), Lo(es, Len(es) + 1), Len(t))
<1>1. PICK u : u = Append(t, rec)
  OBVIOUS
<1>2. u \in Seq(Rec) /\ Len(u) = Len(t) + 1 /\ \A i \in 1..Len(t) : u[i] = t[i]
  BY <1>1
<1>3. ASSUME NEW k \in 1..Len(es)
      PROVE  /\ \A i \in Lo(es, k)..(es[k].upTo - 1) : ~Due(s, u, Lo(es, k), i)
             /\ Due(s, u, Lo(es, k), es[k].upTo)
             /\ es[k].bar.ts = u[es[k].upTo].ts
  <2>1. /\ \A i \in Lo(es, k)..(es[k].upTo - 1) : ~Due(s, t, Lo(es, k), i)
        /\ Due(s, t, Lo(es, k), es[k].upTo)
        /\ es[k].bar.ts = t[es[k].upTo].ts
    BY DEF Tight, TightBars
  <2>2. Lo(es, k) \in 1..Len(t) /\ es[k].upTo \in Lo(es, k)..Len(t)
    BY DEF Whole
  <2>3. PICK lo : lo = Lo(es, k)
    OBVIOUS
  <2>4. PICK hi : hi = es[k].upTo
    OBVIOUS
  <2>5. lo \in Nat \ {0} /\ hi \in lo..Len(t) /\ hi \in 1..Len(t)
    BY <2>2, <2>3, <2>4
  <2>6. \A i \in 0..Len(t) : Due(s, u, lo, i) <=> Due(s, t, lo, i)
    BY <1>2, <2>5, TradedStays
  <2>7. \A i \in lo..(hi - 1) : i \in 0..Len(t)
    BY <2>5
  <2>8. hi \in 0..Len(t) /\ u[hi] = t[hi]
    BY <1>2, <2>5
  <2>9. QED BY <2>1, <2>3, <2>4, <2>6, <2>7, <2>8
<1>4. NoneDue(s, u, Lo(es, Len(es) + 1), Len(t))
  <2>1. PICK lo : lo = Lo(es, Len(es) + 1)
    OBVIOUS
  <2>2. lo \in Nat \ {0} /\ NoneDue(s, t, lo, Len(t))
    BY <2>1 DEF Whole, Tight
  <2>3. \A i \in lo..Len(t) : Due(s, u, lo, i) <=> Due(s, t, lo, i)
    BY <1>2, <2>2, TradedStays
  <2>4. QED BY <2>1, <2>2, <2>3 DEF NoneDue
<1>5. QED BY <1>1, <1>3, <1>4 DEF TightBars

\* A bar may close on the last record: it is due, or the tape is over.
MayClose(s, t, es, over) ==
  /\ TightBars(s, t, es, FALSE) /\ NoneDue(s, t, Lo(es, Len(es) + 1), Len(t) - 1)
  /\ over \/ Due(s, t, Lo(es, Len(es) + 1), Len(t))

ClosesNow(t, e) == e.upTo = Len(t) /\ e.bar.ts = t[Len(t)].ts

\* A bar that closes on the last record.
LEMMA TightEmits ==
  ASSUME NEW s, NEW t \in Seq(Rec), NEW p, NEW es, Whole(t, p, es),
         NEW over, MayClose(s, t, es, over),
         NEW e, ClosesNow(t, e)
  PROVE  /\ Tight(s, t, Append(es, e), over)
         /\ Lo(Append(es, e), Len(Append(es, e)) + 1) = Len(t) + 1
<1>1. PICK fs : fs = Append(es, e)
  OBVIOUS
<1>2. e.upTo = Len(t) /\ e.bar.ts = t[Len(t)].ts /\ es \in Seq(EntryShape)
  BY DEF Whole, ClosesNow
<1>3. /\ Len(fs) = Len(es) + 1 /\ fs[Len(es) + 1] = e
      /\ \A k \in 1..Len(es) : fs[k] = es[k]
  BY <1>1, <1>2
<1>4. \A k \in 1..(Len(es) + 1) : Lo(fs, k) = Lo(es, k)
  BY <1>2, <1>3 DEF Lo
<1>5. Lo(fs, Len(fs) + 1) = Len(t) + 1
  BY <1>2, <1>3 DEF Lo
<1>6. ASSUME NEW k \in 1..Len(fs)
      PROVE  /\ \A i \in Lo(fs, k)..(fs[k].upTo - 1) : ~Due(s, t, Lo(fs, k), i)
             /\ Due(s, t, Lo(fs, k), fs[k].upTo) \/ (over /\ k = Len(fs))
             /\ fs[k].bar.ts = t[fs[k].upTo].ts
  <2>1. CASE k \in 1..Len(es)
    <3>1. fs[k] = es[k] /\ Lo(fs, k) = Lo(es, k)
      BY <1>2, <1>3, <1>4, <2>1
    <3>2. QED BY <2>1, <3>1 DEF MayClose, TightBars
  <2>2. CASE k = Len(es) + 1
    <3>1. fs[k] = e /\ Lo(fs, k) = Lo(es, Len(es) + 1) /\ k = Len(fs)
      BY <1>2, <1>3, <1>4, <2>2
    <3>2. QED BY <1>2, <3>1 DEF MayClose, NoneDue
  <2>3. QED BY <1>2, <1>3, <2>1, <2>2
<1>7. NoneDue(s, t, Lo(fs, Len(fs) + 1), Len(t))
  BY <1>5 DEF NoneDue
<1>8. QED BY <1>1, <1>5, <1>6, <1>7 DEF Tight, TightBars

\* A record that makes no bar due is held.
LEMMA ThresholdHolds ==
  ASSUME NEW s, s.unit \in Threshold, NEW t \in Seq(Rec), NEW rec \in Rec, NEW p, NEW es,
         Whole(t, p, es), Tight(s, t, es, FALSE),
         ~Due(s, Append(t, rec), Lo(es, Len(es) + 1), Len(t) + 1)
  PROVE  Whole(Append(t, rec), Held(p, rec), es) /\ Tight(s, Append(t, rec), es, FALSE)
<1>1. Whole(Append(t, rec), Held(p, rec), es)
  BY WholeHolds
<1>2. /\ TightBars(s, Append(t, rec), es, FALSE)
      /\ NoneDue(s, Append(t, rec), Lo(es, Len(es) + 1), Len(t))
  BY TightStays
<1>3. Len(Append(t, rec)) = Len(t) + 1
  OBVIOUS
<1>4. \A lo \in Int : \A i \in lo..(Len(t) + 1) : i \in lo..Len(t) \/ i = Len(t) + 1
  OBVIOUS
<1>5. Lo(es, Len(es) + 1) \in Int
  BY DEF Whole
<1>6. NoneDue(s, Append(t, rec), Lo(es, Len(es) + 1), Len(t) + 1)
  BY <1>2, <1>4, <1>5 DEF NoneDue
<1>7. QED BY <1>1, <1>2, <1>3, <1>6 DEF Tight

\* A bar is handed out, and nothing is left.
Emitted(s, t, es, x) ==
  /\ x \in BarRecord
  /\ LET fs == es \o Entries(<<x>>, Len(t)) IN
     Whole(t, None, fs) /\ Tight(s, t, fs, FALSE) /\ Lo(fs, Len(fs) + 1) = Len(t) + 1

\* A record that makes a bar due completes it.
LEMMA ThresholdEmits ==
  ASSUME NEW s, s.unit \in Threshold, NEW t \in Seq(Rec), NEW rec \in Rec, NEW p, NEW es,
         Whole(t, p, es), Tight(s, t, es, FALSE),
         Due(s, Append(t, rec), Lo(es, Len(es) + 1), Len(t) + 1)
  PROVE  Emitted(s, Append(t, rec), es, Stamped(Held(p, rec), rec.ts))
<1>0. PICK x : x = Stamped(Held(p, rec), rec.ts)
  OBVIOUS
<1>1. PICK u : u = Append(t, rec)
  OBVIOUS
<1>2. PICK q : q = Held(p, rec)
  OBVIOUS
<1>3. u \in Seq(Rec) /\ Len(u) = Len(t) + 1 /\ u[Len(u)] = rec /\ rec.ts \in Int /\ Len(u) \in Int
  BY <1>1, RecFields
<1>4. Whole(u, q, es) /\ TightBars(s, u, es, FALSE) /\ NoneDue(s, u, Lo(es, Len(es) + 1), Len(u) - 1)
  <2>1. Whole(u, q, es)
    BY <1>1, <1>2, WholeHolds
  <2>2. TightBars(s, u, es, FALSE) /\ NoneDue(s, u, Lo(es, Len(es) + 1), Len(t))
    BY <1>1, TightStays
  <2>3. Len(u) - 1 = Len(t)
    BY <1>3
  <2>4. QED BY <2>1, <2>2, <2>3
<1>4a. PICK fs : fs = es \o Entries(<<x>>, Len(u))
  OBVIOUS
<1>5. q # None /\ x \in BarRecord /\ Bared(x) = q
  <2>1. Digests(u, Lo(es, Len(es) + 1), Len(u), q)
    BY <1>1, <1>2, <1>3, HeldIsNext
  <2>2. Lo(es, Len(es) + 1) \in 1..Len(u) /\ Len(u) \in Lo(es, Len(es) + 1)..Len(u)
    BY <1>3 DEF Whole
  <2>3. QED BY <1>0, <1>2, <1>3, <2>1, <2>2, PartialIsSome
<1>6. x.ts = u[Len(u)].ts
  BY <1>0, <1>2, <1>3 DEF Stamped
<1>7. fs = Append(es, [bar |-> x, upTo |-> Len(u)])
  <2>1. es \in Seq(EntryShape)
    BY DEF Whole
  <2>2. QED BY <1>4a, <1>3, <1>5, <2>1, OneEntry
<1>8. Whole(u, None, fs)
  BY <1>3, <1>4, <1>5, <1>7, WholeEmits
<1>9. Due(s, u, Lo(es, Len(es) + 1), Len(u))
  BY <1>1, <1>3
<1>10. Tight(s, u, fs, FALSE) /\ Lo(fs, Len(fs) + 1) = Len(u) + 1
  <2>1. PICK over : over = FALSE
    OBVIOUS
  <2>2. MayClose(s, u, es, over)
    BY <1>3, <1>4, <1>9, <2>1 DEF MayClose
  <2>3. u \in Seq(Rec) /\ Whole(u, q, es)
    BY <1>3, <1>4
  <2>4. PICK e : e = [bar |-> x, upTo |-> Len(u)]
    OBVIOUS
  <2>5. ClosesNow(u, e) /\ fs = Append(es, e)
    BY <1>6, <1>7, <2>4 DEF ClosesNow
  <2>6. Tight(s, u, Append(es, e), over) /\ Lo(Append(es, e), Len(Append(es, e)) + 1) = Len(u) + 1
    BY ONLY <2>2, <2>3, <2>5, TightEmits
  <2>7. QED BY <2>1, <2>5, <2>6
<1>11. QED BY <1>0, <1>4a, <1>1, <1>5, <1>8, <1>10 DEF Emitted

\* The next record adds its share.
LEMMA NextTraded ==
  ASSUME NEW s, s.unit \in Threshold, NEW t \in Seq(Rec), NEW rec \in Rec,
         NEW lo \in 1..(Len(t) + 1), NEW way
  PROVE  /\ Traded(s, t, lo, Len(t), way) \in Int
         /\ Traded(s, Append(t, rec), lo, Len(t) + 1, way)
              = Traded(s, t, lo, Len(t), way) + Share(s, Append(t, rec), Len(t) + 1, way)
<1>1. PICK u : u = Append(t, rec)
  OBVIOUS
<1>2. PICK n : n = Len(t) + 1
  OBVIOUS
<1>3. /\ u \in Seq(Rec) /\ Len(u) = n /\ \A i \in 1..Len(t) : u[i] = t[i]
      /\ n \in 1..Len(u) /\ lo \in 1..n /\ n - 1 = Len(t) /\ Len(t) \in 0..Len(t)
      /\ lo \in Nat \ {0}
  BY <1>1, <1>2
<1>4. /\ Traded(s, u, lo, n, way) = Traded(s, u, lo, n - 1, way) + Share(s, u, n, way)
      /\ Traded(s, u, lo, n - 1, way) \in Int
  <2>1. s.unit \in Threshold /\ u \in Seq(Rec) /\ n \in 1..Len(u) /\ lo \in 1..n
    BY <1>3
  <2>2. QED BY ONLY <2>1, TradedGrows
<1>5. Traded(s, u, lo, Len(t), way) = Traded(s, t, lo, Len(t), way)
  BY <1>3, TradedStays
<1>6. QED BY <1>1, <1>2, <1>3, <1>4, <1>5

\* A record goes one way or the other.
LEMMA SharesSplit ==
  ASSUME NEW s, NEW t, NEW i
  PROVE  /\ Way(t, i) \in {1, -1}
         /\ Share(s, t, i, 1) = (IF Way(t, i) > 0 THEN Magnitude(s, t[i]) ELSE 0)
         /\ Share(s, t, i, -1) = (IF Way(t, i) > 0 THEN 0 ELSE Magnitude(s, t[i]))
<1>1. \A x : Sign(x) \in {1, -1}
  BY DEF Sign
<1>2. Way(t, i) \in {1, -1}
  BY <1>1 DEF Way, LastSign
<1>3. QED BY <1>2 DEF Share

\* The direction in which the price last moved.
LEMMA NextSign ==
  ASSUME NEW t \in Seq(Rec), NEW rec \in Rec
  PROVE  LastSign(Append(t, rec), Len(t) + 1) =
           IF rec.signed # 0 \/ t = <<>> \/ rec.close = t[Len(t)].close THEN LastSign(t, Len(t))
           ELSE Sign(rec.close - t[Len(t)].close)
<1>1. PICK u : u = Append(t, rec)
  OBVIOUS
<1>2. PICK n : n = Len(t) + 1
  OBVIOUS
<1>3. /\ u \in Seq(Rec) /\ Len(u) = n /\ \A i \in 1..Len(t) : u[i] = t[i]
      /\ n \in Nat \ {0} /\ n - 1 = Len(t) /\ u[n] = rec /\ Len(t) \in 0..Len(t)
  BY <1>1, <1>2
<1>4. LastSign(u, Len(t)) = LastSign(t, Len(t))
  BY <1>3, WaysStay
<1>5. CASE rec.signed # 0 \/ t = <<>> \/ rec.close = t[Len(t)].close
  <2>1. Flips(u, n) = Flips(u, Len(t))
    <3>1. n \in Flips(u, n) => FALSE
      <4>1. CASE t = <<>>
        BY <1>3, <4>1 DEF Flips
      <4>2. CASE t # <<>>
        <5>1. Len(t) \in 1..Len(t) /\ u[n - 1] = t[Len(t)]
          BY <1>3, <4>2
        <5>2. QED BY <1>3, <1>5, <4>2, <5>1 DEF Flips
      <4>3. QED BY <4>1, <4>2
    <3>2. \A k \in 2..n : k \in 2..Len(t) \/ k = n
      BY <1>3
    <3>3. \A k \in 2..Len(t) : k \in 2..n
      BY <1>3
    <3>4. QED BY <3>1, <3>2, <3>3 DEF Flips
  <2>2. LastSign(u, n) = LastSign(u, Len(t))
    BY <2>1 DEF LastSign
  <2>3. QED BY <1>1, <1>2, <1>4, <1>5, <2>2
<1>6. CASE ~(rec.signed # 0 \/ t = <<>> \/ rec.close = t[Len(t)].close)
  <2>1. Len(t) \in 1..Len(t) /\ u[n - 1] = t[Len(t)] /\ n \in 2..n
    BY <1>3, <1>6
  <2>2. n \in Flips(u, n)
    BY <1>3, <1>6, <2>1 DEF Flips
  <2>3. Flips(u, n) \in SUBSET Int /\ Greatest(Flips(u, n), n)
    BY <1>3, <2>2 DEF Flips, Greatest
  <2>4. Max(Flips(u, n)) = n
    BY <2>3, MaxIsGreatest
  <2>5. LastSign(u, n) = Sign(u[n].close - u[n - 1].close)
    BY <2>2, <2>4 DEF LastSign
  <2>6. QED BY <1>1, <1>2, <1>3, <1>6, <2>1, <2>5
<1>7. QED BY <1>5, <1>6

\* What a threshold builder remembers.
Told(s, t, b, lo) ==
  /\ b.lastTs = (IF t = <<>> THEN 0 ELSE t[Len(t)].ts)
  /\ s.unit \in Counted =>
       b.total = Traded(s, t, lo, Len(t), 1) + Traded(s, t, lo, Len(t), -1)
  /\ s.unit \in Imbalanced \cup Running =>
       /\ b.prevClose = (IF t = <<>> THEN None ELSE t[Len(t)].close)
       /\ b.prevSign = LastSign(t, Len(t))
       /\ b.buy = Traded(s, t, lo, Len(t), 1)
       /\ b.sell = Traded(s, t, lo, Len(t), -1)

\* What a threshold builder should become, and hand out.
Progress(s, t, b, r, es) ==
  /\ DOMAIN r.next = Slots /\ r.next.pending = b.pending
  /\ r.out \in Seq(BarRecord)
  /\ LET fs == es \o Entries(r.out, Len(t)) IN
     /\ Whole(t, r.next.partial, fs) /\ Tight(s, t, fs, FALSE)
     /\ Told(s, t, r.next, Lo(fs, Len(fs) + 1))

\* A bar of so much trade.
LEMMA CountGoesOn ==
  ASSUME NEW s, s.unit \in Counted, NEW t \in Seq(Rec), NEW rec \in Rec, NEW es, NEW b,
         DOMAIN b = Slots, Whole(t, b.partial, es), Tight(s, t, es, FALSE),
         Told(s, t, b, Lo(es, Len(es) + 1)), NEW r, r = CountPush(s, b, rec)
  PROVE  Progress(s, Append(t, rec), b, r, es)
<1>1. PICK u : u = Append(t, rec)
  OBVIOUS
<1>2. PICK n : n = Len(t) + 1
  OBVIOUS
<1>3. u \in Seq(Rec) /\ Len(u) = n /\ u # <<>> /\ u[n] = rec /\ n \in Nat
  BY <1>1, <1>2
<1>4. PICK lo : lo = Lo(es, Len(es) + 1)
  OBVIOUS
<1>5. lo \in 1..(Len(t) + 1) /\ es \in Seq(EntryShape)
  BY <1>4 DEF Whole
<1>6. s.unit \in Threshold /\ s.unit \notin Imbalanced \cup Running
  BY DEF Threshold, Counted, Imbalanced, Running
<1>7. PICK total : total = b.total + Magnitude(s, rec)
  OBVIOUS
<1>8. PICK held : held = Held(b.partial, rec)
  OBVIOUS
<1>9. total = Traded(s, u, lo, n, 1) + Traded(s, u, lo, n, -1)
  <2>1. b.total = Traded(s, t, lo, Len(t), 1) + Traded(s, t, lo, Len(t), -1)
    BY <1>4 DEF Told
  <2>2. Magnitude(s, rec) \in Int
    BY <1>6, MagnitudeIsInt
  <2>3. Share(s, u, n, 1) + Share(s, u, n, -1) = Magnitude(s, rec)
        /\ Share(s, u, n, 1) \in Int /\ Share(s, u, n, -1) \in Int
    BY <1>3, <2>2, SharesSplit
  <2>4. /\ Traded(s, u, lo, n, 1) = Traded(s, t, lo, Len(t), 1) + Share(s, u, n, 1)
        /\ Traded(s, u, lo, n, -1) = Traded(s, t, lo, Len(t), -1) + Share(s, u, n, -1)
        /\ Traded(s, t, lo, Len(t), 1) \in Int /\ Traded(s, t, lo, Len(t), -1) \in Int
    BY <1>1, <1>2, <1>5, <1>6, NextTraded
  <2>5. QED BY <1>7, <2>1, <2>2, <2>3, <2>4
<1>10. Due(s, u, lo, n) <=> total >= s.step
  <2>1. PICK x : x = Traded(s, u, lo, n, 1)
    OBVIOUS
  <2>2. PICK y : y = Traded(s, u, lo, n, -1)
    OBVIOUS
  <2>3. Due(s, u, lo, n) <=> x + y >= s.step
    BY <1>6, <2>1, <2>2 DEF Due
  <2>4. QED BY <1>9, <2>1, <2>2, <2>3
<1>11. CASE total >= s.step
  <2>1. PICK x : x = Stamped(held, rec.ts)
    OBVIOUS
  <2>2. PICK c : c = [b EXCEPT !.total = 0, !.partial = None, !.lastTs = rec.ts]
    OBVIOUS
  <2>3. DOMAIN c = Slots /\ c.pending = b.pending /\ c.total = 0 /\ c.partial = None
        /\ c.lastTs = rec.ts
    BY <2>2 DEF Slots
  <2>4. r = [next |-> c, out |-> <<x>>]
    BY <1>7, <1>8, <1>11, <2>1, <2>2 DEF CountPush
  <2>5. PICK fs : fs = es \o Entries(<<x>>, Len(u))
    OBVIOUS
  <2>6. Whole(u, None, fs) /\ Tight(s, u, fs, FALSE) /\ Lo(fs, Len(fs) + 1) = n + 1
        /\ x \in BarRecord
    <3>1. PICK p : p = b.partial
      OBVIOUS
    <3>2. Due(s, Append(t, rec), Lo(es, Len(es) + 1), Len(t) + 1) /\ Whole(t, p, es)
      BY <1>1, <1>2, <1>4, <1>10, <1>11, <3>1
    <3>3. Emitted(s, Append(t, rec), es, Stamped(Held(p, rec), rec.ts))
      BY <1>6, <3>2, ThresholdEmits
    <3>4. Emitted(s, u, es, x)
      BY <1>1, <1>8, <2>1, <3>1, <3>3
    <3>5. QED BY <1>3, <2>5, <3>4 DEF Emitted
  <2>7. Traded(s, u, n + 1, n, 1) = 0 /\ Traded(s, u, n + 1, n, -1) = 0
    BY <1>3, NothingTraded
  <2>8. Told(s, u, c, n + 1)
    BY <1>3, <1>6, <2>3, <2>7 DEF Told
  <2>9. r.next = c /\ r.out = <<x>> /\ <<x>> \in Seq(BarRecord)
    BY <2>4, <2>6
  <2>10. QED BY <1>1, <2>3, <2>5, <2>6, <2>8, <2>9 DEF Progress
<1>12. CASE ~(total >= s.step)
  <2>1. PICK c : c = [b EXCEPT !.total = total, !.partial = held, !.lastTs = rec.ts]
    OBVIOUS
  <2>2. DOMAIN c = Slots /\ c.pending = b.pending /\ c.total = total /\ c.partial = held
        /\ c.lastTs = rec.ts
    BY <2>1 DEF Slots
  <2>3. r = [next |-> c, out |-> <<>>]
    BY <1>7, <1>8, <1>12, <2>1 DEF CountPush
  <2>4. Whole(u, held, es) /\ Tight(s, u, es, FALSE)
    <3>1. ~Due(s, Append(t, rec), Lo(es, Len(es) + 1), Len(t) + 1)
      BY <1>1, <1>2, <1>4, <1>10, <1>12
    <3>2. QED BY <1>1, <1>6, <1>8, <3>1, ThresholdHolds
  <2>5. Told(s, u, c, lo)
    BY <1>3, <1>6, <1>9, <2>2 DEF Told
  <2>6. r.next = c /\ r.out = <<>> /\ <<>> \in Seq(BarRecord) /\ es \o Entries(<<>>, Len(u)) = es
    BY <1>5, <2>3, NoEntry
  <2>7. QED BY <1>1, <1>4, <2>2, <2>4, <2>5, <2>6 DEF Progress
<1>13. QED BY <1>11, <1>12

\* The direction a builder of flow finds.
Seen(b, rec) == IF rec.signed # 0 THEN Sign(rec.signed) ELSE TickRule(b, rec)

\* The builder's direction is the record's, and what it remembers the tape's.
LEMMA SeenIsWay ==
  ASSUME NEW t \in Seq(Rec), NEW rec \in Rec, NEW b,
         b.prevClose = (IF t = <<>> THEN None ELSE t[Len(t)].close),
         b.prevSign = LastSign(t, Len(t))
  PROVE  /\ Seen(b, rec) = Way(Append(t, rec), Len(t) + 1)
         /\ (IF rec.signed # 0 THEN b.prevSign ELSE Seen(b, rec)) = LastSign(Append(t, rec), Len(t) + 1)
<1>1. PICK u : u = Append(t, rec)
  OBVIOUS
<1>2. PICK n : n = Len(t) + 1
  OBVIOUS
<1>3. u[n] = rec
  BY <1>1, <1>2
<1>4. LastSign(u, n) = IF rec.signed # 0 \/ t = <<>> \/ rec.close = t[Len(t)].close
                       THEN LastSign(t, Len(t)) ELSE Sign(rec.close - t[Len(t)].close)
  BY <1>1, <1>2, NextSign
<1>5. t # <<>> => t[Len(t)].close # None
  <2>1. t # <<>> => t[Len(t)] \in Rec
    OBVIOUS
  <2>2. QED BY <2>1, RecFields, BarsAssumption
<1>6. t = <<>> => LastSign(t, Len(t)) = 1
  <2>1. t = <<>> => Flips(t, Len(t)) = {}
    BY DEF Flips
  <2>2. QED BY <2>1 DEF LastSign
<1>7. rec.signed = 0 => TickRule(b, rec) = LastSign(u, n)
  <2>1. CASE t = <<>>
    BY <1>4, <1>6, <2>1 DEF TickRule
  <2>2. CASE t # <<>>
    BY <1>4, <1>5, <2>2 DEF TickRule
  <2>3. QED BY <2>1, <2>2
<1>8. Way(u, n) = IF rec.signed # 0 THEN Sign(rec.signed) ELSE LastSign(u, n)
  BY <1>3 DEF Way
<1>9. QED BY <1>1, <1>2, <1>4, <1>7, <1>8 DEF Seen

\* A bar of so much flow one way.
LEMMA FlowGoesOn ==
  ASSUME NEW s \in Specs, s.unit \in Imbalanced \cup Running, NEW t \in Seq(Rec),
         NEW rec \in Rec, NEW es, NEW b,
         DOMAIN b = Slots, Whole(t, b.partial, es), Tight(s, t, es, FALSE),
         Told(s, t, b, Lo(es, Len(es) + 1)), NEW r, r = FlowPush(s, b, rec)
  PROVE  Progress(s, Append(t, rec), b, r, es)
<1>1. PICK u : u = Append(t, rec)
  OBVIOUS
<1>2. PICK n : n = Len(t) + 1
  OBVIOUS
<1>3. u \in Seq(Rec) /\ Len(u) = n /\ u # <<>> /\ u[n] = rec /\ n \in Nat
  BY <1>1, <1>2
<1>4. PICK lo : lo = Lo(es, Len(es) + 1)
  OBVIOUS
<1>5. lo \in 1..(Len(t) + 1) /\ es \in Seq(EntryShape)
  BY <1>4 DEF Whole
<1>6. s.unit \in Threshold /\ s.unit \notin Counted
      /\ (s.unit \in Imbalanced => s.unit \notin Running)
  BY DEF Threshold, Counted, Imbalanced, Running
<1>7. PICK sign : sign = Seen(b, rec)
  OBVIOUS
<1>8. PICK kept : kept = IF rec.signed # 0 THEN b.prevSign ELSE sign
  OBVIOUS
<1>9. sign = Way(u, n) /\ kept = LastSign(u, n)
  <2>1. /\ b.prevClose = (IF t = <<>> THEN None ELSE t[Len(t)].close)
        /\ b.prevSign = LastSign(t, Len(t))
    BY DEF Told
  <2>2. QED BY <1>1, <1>2, <1>7, <1>8, <2>1, SeenIsWay
<1>10. PICK buy : buy = IF sign > 0 THEN b.buy + Magnitude(s, rec) ELSE b.buy
  OBVIOUS
<1>11. PICK sell : sell = IF sign > 0 THEN b.sell ELSE b.sell + Magnitude(s, rec)
  OBVIOUS
<1>12. PICK held : held = Held(b.partial, rec)
  OBVIOUS
<1>13. buy = Traded(s, u, lo, n, 1) /\ sell = Traded(s, u, lo, n, -1) /\ buy \in Int /\ sell \in Int
  <2>1. b.buy = Traded(s, t, lo, Len(t), 1) /\ b.sell = Traded(s, t, lo, Len(t), -1)
    BY <1>4 DEF Told
  <2>2. Magnitude(s, rec) \in Int
    BY <1>6, MagnitudeIsInt
  <2>3. /\ Share(s, u, n, 1) = (IF sign > 0 THEN Magnitude(s, rec) ELSE 0)
        /\ Share(s, u, n, -1) = (IF sign > 0 THEN 0 ELSE Magnitude(s, rec))
    BY <1>3, <1>9, SharesSplit
  <2>4. /\ Traded(s, u, lo, n, 1) = Traded(s, t, lo, Len(t), 1) + Share(s, u, n, 1)
        /\ Traded(s, u, lo, n, -1) = Traded(s, t, lo, Len(t), -1) + Share(s, u, n, -1)
        /\ Traded(s, t, lo, Len(t), 1) \in Int /\ Traded(s, t, lo, Len(t), -1) \in Int
    BY <1>1, <1>2, <1>5, <1>6, NextTraded
  <2>5. QED BY <1>10, <1>11, <2>1, <2>2, <2>3, <2>4
<1>14. Due(s, u, lo, n) <=> FlowComplete(s, buy, sell)
  <2>1. Due(s, u, lo, n) <=> IF s.unit \in Imbalanced THEN Abs(buy - sell) >= s.step
                             ELSE buy >= s.step \/ sell >= s.step
    BY <1>6, <1>13 DEF Due
  <2>2. Larger(buy, sell) >= s.step <=> buy >= s.step \/ sell >= s.step
    <3>1. s.step \in Int
      BY BarsAssumption
    <3>2. QED BY <1>13, <3>1 DEF Larger
  <2>3. QED BY <2>1, <2>2 DEF FlowComplete
<1>15. PICK noted : noted = [b EXCEPT !.prevClose = rec.close, !.lastTs = rec.ts, !.prevSign = kept]
  OBVIOUS
<1>16. DOMAIN noted = Slots /\ noted.pending = b.pending /\ noted.prevClose = rec.close
       /\ noted.lastTs = rec.ts /\ noted.prevSign = kept
  BY <1>15 DEF Slots
<1>17. r = IF FlowComplete(s, buy, sell)
           THEN [next |-> [noted EXCEPT !.partial = None, !.buy = 0, !.sell = 0],
                 out |-> <<Stamped(held, rec.ts)>>]
           ELSE [next |-> [noted EXCEPT !.partial = held, !.buy = buy, !.sell = sell], out |-> <<>>]
  <2>1. [b EXCEPT !.prevClose = rec.close, !.lastTs = rec.ts,
                  !.prevSign = IF rec.signed # 0 THEN @ ELSE Seen(b, rec)] = noted
    <3>1. (IF rec.signed # 0 THEN b.prevSign ELSE Seen(b, rec)) = kept
      BY <1>7, <1>8
    <3>2. QED BY <1>15, <3>1
  <2>2. QED BY <1>7, <1>10, <1>11, <1>12, <2>1 DEF FlowPush, Seen
<1>18. CASE FlowComplete(s, buy, sell)
  <2>1. PICK x : x = Stamped(held, rec.ts)
    OBVIOUS
  <2>2. PICK c : c = [noted EXCEPT !.partial = None, !.buy = 0, !.sell = 0]
    OBVIOUS
  <2>3. DOMAIN c = Slots /\ c.pending = b.pending /\ c.buy = 0 /\ c.sell = 0 /\ c.partial = None
        /\ c.lastTs = rec.ts /\ c.prevClose = rec.close /\ c.prevSign = kept
    BY <1>16, <2>2 DEF Slots
  <2>4. r = [next |-> c, out |-> <<x>>]
    BY <1>17, <1>18, <2>1, <2>2
  <2>5. PICK fs : fs = es \o Entries(<<x>>, Len(u))
    OBVIOUS
  <2>6. Whole(u, None, fs) /\ Tight(s, u, fs, FALSE) /\ Lo(fs, Len(fs) + 1) = n + 1
        /\ x \in BarRecord
    <3>1. PICK p : p = b.partial
      OBVIOUS
    <3>2. Due(s, Append(t, rec), Lo(es, Len(es) + 1), Len(t) + 1) /\ Whole(t, p, es)
      BY <1>1, <1>2, <1>4, <1>14, <1>18, <3>1
    <3>3. Emitted(s, Append(t, rec), es, Stamped(Held(p, rec), rec.ts))
      BY <1>6, <3>2, ThresholdEmits
    <3>4. Emitted(s, u, es, x)
      BY <1>1, <1>12, <2>1, <3>1, <3>3
    <3>5. QED BY <1>3, <2>5, <3>4 DEF Emitted
  <2>7. Traded(s, u, n + 1, n, 1) = 0 /\ Traded(s, u, n + 1, n, -1) = 0
    BY <1>3, NothingTraded
  <2>8. Told(s, u, c, n + 1)
    BY <1>3, <1>6, <1>9, <2>3, <2>7 DEF Told
  <2>9. r.next = c /\ r.out = <<x>> /\ <<x>> \in Seq(BarRecord)
    BY <2>4, <2>6
  <2>10. QED BY <1>1, <2>3, <2>5, <2>6, <2>8, <2>9 DEF Progress
<1>19. CASE ~FlowComplete(s, buy, sell)
  <2>1. PICK c : c = [noted EXCEPT !.partial = held, !.buy = buy, !.sell = sell]
    OBVIOUS
  <2>2. DOMAIN c = Slots /\ c.pending = b.pending /\ c.buy = buy /\ c.sell = sell
        /\ c.partial = held /\ c.lastTs = rec.ts /\ c.prevClose = rec.close /\ c.prevSign = kept
    BY <1>16, <2>1 DEF Slots
  <2>3. r = [next |-> c, out |-> <<>>]
    BY <1>17, <1>19, <2>1
  <2>4. Whole(u, held, es) /\ Tight(s, u, es, FALSE)
    <3>1. ~Due(s, Append(t, rec), Lo(es, Len(es) + 1), Len(t) + 1)
      BY <1>1, <1>2, <1>4, <1>14, <1>19
    <3>2. QED BY <1>1, <1>6, <1>12, <3>1, ThresholdHolds
  <2>5. Told(s, u, c, lo)
    BY <1>3, <1>6, <1>9, <1>13, <2>2 DEF Told
  <2>6. r.next = c /\ r.out = <<>> /\ <<>> \in Seq(BarRecord) /\ es \o Entries(<<>>, Len(u)) = es
    BY <1>5, <2>3, NoEntry
  <2>7. QED BY <1>1, <1>4, <2>2, <2>4, <2>5, <2>6 DEF Progress
<1>20. QED BY <1>18, <1>19

-----------------------------------------------------------------------------
(* Bricks *)

\* A number is its whole part and its remainder.
LEMMA WholeAndRest ==
  ASSUME NEW x \in Int, NEW d \in Nat \ {0}
  PROVE  /\ x \div d \in Int /\ (x \div d) * d \in Int
         /\ x - (x \div d) * d \in 0..(d - 1)
         /\ x % d = x - (x \div d) * d
<1>1. PICK q \in Int : q = x \div d
  BY PartsAreInt
<1>2. x = d * q + (x % d) /\ x % d \in 0..(d - 1)
  BY <1>1
<1>3. q * d \in Int /\ q * d = d * q
  OBVIOUS
<1>4. QED BY <1>1, <1>2, <1>3

\* A multiple has no remainder.
LEMMA OnGrid ==
  ASSUME NEW q \in Int, NEW d \in Nat \ {0}
  PROVE  q * d \in Int /\ (q * d) % d = 0
<1>1. q * d \in Int
  OBVIOUS
<1>2. PICK x \in Int : x = q * d
  BY <1>1
<1>3. PICK p \in Int : p = x \div d
  BY PartsAreInt
<1>4. x - p * d \in 0..(d - 1) /\ x % d = x - p * d
  BY <1>3, WholeAndRest
<1>5. PICK e \in Int : e = q - p
  OBVIOUS
<1>6. x - p * d = e * d
  BY <1>2, <1>5
<1>7. e >= 1 => e * d >= d
  OBVIOUS
<1>8. e <= -1 => e * d < 0
  OBVIOUS
<1>9. e = 0
  BY <1>4, <1>6, <1>7, <1>8
<1>10. QED BY <1>1, <1>2, <1>4, <1>6, <1>9

\* From one level to another.
LEMMA GridSteps ==
  ASSUME NEW a \in Int, NEW d \in Nat \ {0}, a % d = 0, NEW i \in Int
  PROVE  /\ a + i * d \in Int /\ (a + i * d) % d = 0
         /\ a - i * d \in Int /\ (a - i * d) % d = 0
<1>1. PICK q \in Int : q = a \div d
  BY PartsAreInt
<1>2. a = q * d
  BY <1>1, WholeAndRest
<1>3. a + i * d = (q + i) * d /\ a - i * d = (q - i) * d
  BY <1>2
<1>4. q + i \in Int /\ q - i \in Int
  OBVIOUS
<1>5. QED BY <1>3, <1>4, OnGrid

\* The level below a price.
LEMMA SnapIsNear ==
  ASSUME NEW s, s.step \in Nat \ {0}, NEW x \in Int
  PROVE  /\ Snap(s, x) \in Int /\ Snap(s, x) % s.step = 0
         /\ Abs(x - Snap(s, x)) < s.step
<1>1. PICK d \in Nat \ {0} : d = s.step
  OBVIOUS
<1>2. PICK y : y = (x \div d) * d
  OBVIOUS
<1>3. y \in Int /\ x - y \in 0..(d - 1) /\ y % d = 0
  BY <1>2, WholeAndRest, PartsAreInt, OnGrid
<1>4. Snap(s, x) = y
  BY <1>1, <1>2 DEF Snap
<1>5. QED BY <1>1, <1>3, <1>4 DEF Abs

\* Bars of one record.
Burst(es, n) == {i \in DOMAIN es : es[i].upTo = n}

BrickFits(s, b) == Abs(b.close - b.open) = s.step /\ b.open % s.step = 0

\* A price the next brick may open at: where a bar closed, unless its burst was capped.
GoesOn(es, k, price) == price = es[k].bar.close \/ Cardinality(Burst(es, es[k].upTo)) = MaxBricks

\* The bricks of a tape, and where the grid stands.
Gridded(s, t, anchor, es) ==
  /\ es \in Seq(EntryShape)
  /\ IF t = <<>> THEN anchor = None /\ es = <<>>
     ELSE /\ anchor \in Int /\ anchor % s.step = 0
          /\ Abs(t[Len(t)].close - anchor) < s.step
  /\ \A k \in 1..Len(es) : es[k].upTo \in 1..Len(t) /\ BrickFits(s, es[k].bar)
  /\ \A k \in 2..Len(es) : GoesOn(es, k - 1, es[k].bar.open)
  /\ es # <<>> => GoesOn(es, Len(es), anchor)

HandedOut(es, q, n, fs) ==
  /\ fs \in Seq(EntryShape) /\ Len(fs) = Len(es) + Len(q)
  /\ \A k \in 1..Len(es) : fs[k] = es[k]
  /\ \A i \in 1..Len(q) : fs[Len(es) + i].bar = q[i] /\ fs[Len(es) + i].upTo = n

\* Bars handed out for one record.
LEMMA Handed ==
  ASSUME NEW es \in Seq(EntryShape), NEW q \in Seq(BarRecord), NEW n \in Int
  PROVE  HandedOut(es, q, n, es \o Entries(q, n))
<1>0. PICK fs : fs = es \o Entries(q, n)
  OBVIOUS
<1>1. PICK g : g = Entries(q, n)
  OBVIOUS
<1>2. g = [k \in 1..Len(q) |-> [bar |-> q[k], upTo |-> n]]
  BY <1>1 DEF Entries
<1>3. \A k \in 1..Len(q) : [bar |-> q[k], upTo |-> n] \in EntryShape
  BY DEF EntryShape
<1>4. g \in Seq(EntryShape) /\ Len(g) = Len(q)
  BY <1>2, <1>3
<1>5. \A k \in 1..Len(q) : g[k].bar = q[k] /\ g[k].upTo = n
  BY <1>2
<1>6. /\ fs \in Seq(EntryShape) /\ Len(fs) = Len(es) + Len(g)
      /\ \A k \in 1..Len(es) : fs[k] = es[k]
      /\ \A i \in 1..Len(g) : fs[Len(es) + i] = g[i]
  <2>1. PICK E : E = EntryShape
    OBVIOUS
  <2>2. es \in Seq(E) /\ g \in Seq(E) /\ fs = es \o g
    BY <1>0, <1>1, <1>4, <2>1
  <2>3. fs \in Seq(E) /\ Len(fs) = Len(es) + Len(g)
    BY ONLY <2>2
  <2>4. \A k \in 1..Len(es) : fs[k] = es[k]
    BY ONLY <2>2
  <2>5. \A i \in 1..Len(g) : fs[Len(es) + i] = g[i]
    BY ONLY <2>2
  <2>6. QED BY <2>1, <2>3, <2>4, <2>5
<1>7. QED BY <1>0, <1>4, <1>5, <1>6 DEF HandedOut

\* A burst of bricks from one level to another.
Burstlike(s, q, from, to) ==
  /\ q \in Seq(BarRecord) /\ Len(q) \in 1..MaxBricks
  /\ \A i \in 1..Len(q) : BrickFits(s, q[i])
  /\ q[1].open = from /\ q[Len(q)].close = to
  /\ \A i \in 2..Len(q) : q[i].open = q[i - 1].close

\* A burst goes on from the bricks before it.
LEMMA GridGoesOn ==
  ASSUME NEW s, NEW t \in Seq(Rec), NEW rec \in Rec, NEW anchor, NEW es, t # <<>>,
         Gridded(s, t, anchor, es), NEW q, NEW to, Burstlike(s, q, anchor, to),
         NEW next \in Int, next % s.step = 0, Abs(rec.close - next) < s.step,
         next = to \/ Len(q) = MaxBricks
  PROVE  Gridded(s, Append(t, rec), next, es \o Entries(q, Len(t) + 1))
<1>1. PICK u : u = Append(t, rec)
  OBVIOUS
<1>2. PICK n : n = Len(t) + 1
  OBVIOUS
<1>3. u \in Seq(Rec) /\ Len(u) = n /\ u # <<>> /\ u[Len(u)] = rec /\ n \in Nat /\ n \in 1..Len(u)
  BY <1>1, <1>2
<1>4. PICK fs : fs = es \o Entries(q, n)
  OBVIOUS
<1>5. es \in Seq(EntryShape) /\ q \in Seq(BarRecord) /\ Len(q) \in 1..MaxBricks /\ Len(q) \in Nat
  BY DEF Gridded, Burstlike
<1>6. /\ fs \in Seq(EntryShape) /\ Len(fs) = Len(es) + Len(q) /\ fs # <<>>
      /\ \A k \in 1..Len(es) : fs[k] = es[k]
      /\ \A i \in 1..Len(q) : fs[Len(es) + i].bar = q[i] /\ fs[Len(es) + i].upTo = n
  <2>1. HandedOut(es, q, n, fs)
    BY <1>3, <1>4, <1>5, Handed
  <2>2. Len(fs) # 0
    BY <1>5, <2>1 DEF HandedOut
  <2>3. QED BY <2>1, <2>2 DEF HandedOut
<1>7. \A k \in 1..Len(fs) : k \in 1..Len(es) \/ \E i \in 1..Len(q) : k = Len(es) + i
  <2>1. SUFFICES ASSUME NEW k \in 1..Len(fs), k \notin 1..Len(es)
                 PROVE  \E i \in 1..Len(q) : k = Len(es) + i
    OBVIOUS
  <2>2. k - Len(es) \in 1..Len(q) /\ k = Len(es) + (k - Len(es))
    BY <1>5, <1>6, <2>1
  <2>3. QED BY <2>2
<1>8. ASSUME NEW k \in 1..Len(fs)
      PROVE  fs[k].upTo \in 1..Len(u) /\ BrickFits(s, fs[k].bar)
  <2>1. CASE k \in 1..Len(es)
    BY <1>2, <1>3, <1>6, <2>1 DEF Gridded
  <2>2. CASE \E i \in 1..Len(q) : k = Len(es) + i
    <3>1. PICK i \in 1..Len(q) : fs[k].bar = q[i] /\ fs[k].upTo = n
      BY <1>6, <2>2
    <3>2. QED BY <1>3, <3>1 DEF Burstlike
  <2>3. QED BY <1>7, <2>1, <2>2
<1>9. \A m \in 1..Len(t) : Burst(fs, m) = Burst(es, m)
  <2>1. \A k \in 1..Len(fs) : k \notin 1..Len(es) => fs[k].upTo = n
    BY <1>6, <1>7
  <2>2. \A m \in 1..Len(t) : m # n
    BY <1>2
  <2>3. DOMAIN fs = 1..Len(fs) /\ DOMAIN es = 1..Len(es) /\ \A k \in 1..Len(es) : k \in 1..Len(fs)
    BY <1>5, <1>6
  <2>4. QED BY <1>6, <2>1, <2>2, <2>3 DEF Burst
<1>10. Cardinality(Burst(fs, n)) = Len(q)
  <2>1. \A k \in 1..Len(es) : fs[k].upTo # n
    <3>1. \A k \in 1..Len(es) : es[k].upTo \in 1..Len(t)
      BY DEF Gridded
    <3>2. QED BY <1>2, <1>6, <3>1
  <2>2. Burst(fs, n) = (Len(es) + 1)..(Len(es) + Len(q))
    <3>1. ASSUME NEW k \in Burst(fs, n)
          PROVE  k \in (Len(es) + 1)..(Len(es) + Len(q))
      BY <1>5, <1>6, <1>7, <2>1, <3>1 DEF Burst
    <3>2. ASSUME NEW k \in (Len(es) + 1)..(Len(es) + Len(q))
          PROVE  k \in Burst(fs, n)
      <4>1. k \in 1..Len(fs) /\ k \notin 1..Len(es)
        BY <1>5, <1>6
      <4>2. fs[k].upTo = n
        BY <1>6, <1>7, <4>1
      <4>3. DOMAIN fs = 1..Len(fs)
        BY <1>6
      <4>4. QED BY <4>1, <4>2, <4>3 DEF Burst
    <3>3. QED BY <3>1, <3>2
  <2>3. PICK a \in Int : a = Len(es) + 1
    BY <1>5
  <2>4. PICK z \in Int : z = Len(es) + Len(q)
    BY <1>5
  <2>5. Cardinality(a..z) = IF a > z THEN 0 ELSE z - a + 1
    BY FS_Interval
  <2>6. QED BY <1>5, <2>2, <2>3, <2>4, <2>5
<1>11. ASSUME NEW k \in 1..Len(es), NEW price, GoesOn(es, k, price)
       PROVE  GoesOn(fs, k, price)
  <2>1. fs[k] = es[k] /\ es[k].upTo \in 1..Len(t)
    BY <1>6 DEF Gridded
  <2>2. QED BY <1>9, <1>11, <2>1 DEF GoesOn
<1>12. ASSUME NEW k \in 2..Len(fs)
       PROVE  GoesOn(fs, k - 1, fs[k].bar.open)
  <2>1. CASE k \in 2..Len(es)
    <3>1. GoesOn(es, k - 1, es[k].bar.open) /\ k - 1 \in 1..Len(es) /\ fs[k] = es[k]
      BY <1>5, <1>6, <2>1 DEF Gridded
    <3>2. QED BY <1>11, <3>1
  <2>2. CASE k = Len(es) + 1
    <3>1. fs[k].bar = q[1] /\ q[1].open = anchor
      BY <1>5, <1>6, <2>2 DEF Burstlike
    <3>2. Len(es) \in 1..Len(es) /\ es # <<>> /\ k - 1 = Len(es)
      BY <1>5, <2>2
    <3>3. GoesOn(es, Len(es), anchor)
      BY <3>2 DEF Gridded
    <3>4. QED BY <1>11, <3>1, <3>2, <3>3
  <2>3. CASE k > Len(es) + 1
    <3>1. PICK i \in 2..Len(q) : k = Len(es) + i
      <4>1. k - Len(es) \in 2..Len(q) /\ k = Len(es) + (k - Len(es))
        BY <1>5, <1>6, <2>3
      <4>2. QED BY <4>1
    <3>2. i - 1 \in 1..Len(q) /\ i \in 1..Len(q) /\ k - 1 = Len(es) + (i - 1)
      BY <1>5, <3>1
    <3>3. fs[k].bar = q[i] /\ fs[k - 1].bar = q[i - 1]
      BY <1>6, <3>1, <3>2
    <3>4. q[i].open = q[i - 1].close
      BY DEF Burstlike
    <3>5. QED BY <3>3, <3>4 DEF GoesOn
  <2>4. QED BY <1>5, <1>6, <2>1, <2>2, <2>3
<1>13. GoesOn(fs, Len(fs), next)
  <2>1. Len(q) \in 1..Len(q) /\ Len(fs) = Len(es) + Len(q)
    BY <1>5, <1>6
  <2>2. fs[Len(fs)].bar = q[Len(q)] /\ fs[Len(fs)].upTo = n
    BY <1>6, <2>1
  <2>3. q[Len(q)].close = to
    BY DEF Burstlike
  <2>4. QED BY <1>10, <2>2, <2>3 DEF GoesOn
<1>14. QED BY <1>1, <1>2, <1>3, <1>4, <1>6, <1>8, <1>12, <1>13 DEF Gridded

\* A distance, in bricks and what is left of one.
LEMMA Distance ==
  ASSUME NEW x \in Int, NEW y \in Int, NEW d \in Nat \ {0}, NEW up \in BOOLEAN, up <=> x > y,
         NEW k, k = Abs(x - y) \div d
  PROVE  /\ k \in Nat
         /\ k = 0 => Abs(x - y) < d
         /\ Abs(x - (IF up THEN y + k * d ELSE y - k * d)) < d
<1>1. PICK z \in Int : z = Abs(x - y)
  <2>1. Abs(x - y) \in Int
    BY DEF Abs
  <2>2. QED BY <2>1
<1>2. z >= 0 /\ k = z \div d /\ z = (IF up THEN x - y ELSE y - x)
  BY <1>1 DEF Abs
<1>3. k \in Int /\ k * d \in Int /\ z - k * d \in 0..(d - 1)
  BY <1>2, WholeAndRest
<1>4. k \in Nat
  BY <1>2, DivBounds
<1>5. k = 0 => z < d
  <2>1. k = 0 => k * d = 0
    OBVIOUS
  <2>2. QED BY <1>3, <2>1
<1>6. PICK m \in Int : m = k * d
  BY <1>3
<1>7. Abs(x - (IF up THEN y + m ELSE y - m)) < d
  BY <1>2, <1>3, <1>6 DEF Abs
<1>8. QED BY <1>1, <1>4, <1>5, <1>6, <1>7

\* The bricks of one record, level by level.
LevelAt(s, a, up, i) == IF up THEN a + i * s.step ELSE a - i * s.step

\* The bricks of a record's move make a burst.
LEMMA BurstOfMove ==
  ASSUME NEW s, s.step \in Nat \ {0}, NEW rec \in Rec, NEW a \in Int, a % s.step = 0,
         NEW up \in BOOLEAN, NEW m \in 1..MaxBricks, NEW q,
         q = [i \in 1..m |-> Brick(s, rec, LevelAt(s, a, up, i - 1), up, IF i = m THEN rec.volume ELSE 0)]
  PROVE  Burstlike(s, q, a, LevelAt(s, a, up, m)) /\ Len(q) = m
<1>1. PICK d \in Nat \ {0} : d = s.step
  OBVIOUS
<1>2. \A i \in Int : LevelAt(s, a, up, i) \in Int /\ LevelAt(s, a, up, i) % s.step = 0
  BY GridSteps DEF LevelAt
<1>3. MaxBricks \in Nat \ {0} /\ rec.volume \in Int /\ rec.ts \in Int
  BY BarsAssumption, RecFields
<1>4. m \in Nat /\ m >= 1 /\ m \in Int
  BY <1>3
<1>5. \A i \in Int : LevelAt(s, a, up, i) = IF up THEN LevelAt(s, a, up, i - 1) + d
                                                  ELSE LevelAt(s, a, up, i - 1) - d
  <2>1. SUFFICES ASSUME NEW i \in Int
                 PROVE  LevelAt(s, a, up, i) = IF up THEN LevelAt(s, a, up, i - 1) + d
                                                     ELSE LevelAt(s, a, up, i - 1) - d
    OBVIOUS
  <2>2. i * d = (i - 1) * d + d /\ i * d \in Int /\ (i - 1) * d \in Int
    OBVIOUS
  <2>3. PICK x \in Int : x = i * d
    BY <2>2
  <2>4. PICK y \in Int : y = (i - 1) * d
    BY <2>2
  <2>5. LevelAt(s, a, up, i) = IF up THEN a + x ELSE a - x
    BY <1>1, <2>3 DEF LevelAt
  <2>6. LevelAt(s, a, up, i - 1) = IF up THEN a + y ELSE a - y
    BY <1>1, <2>4 DEF LevelAt
  <2>7. x = y + d
    BY <2>2, <2>3, <2>4
  <2>8. QED BY <2>5, <2>6, <2>7
<1>6. LevelAt(s, a, up, 0) = a
  <2>1. 0 * s.step = 0
    OBVIOUS
  <2>2. QED BY <2>1 DEF LevelAt
<1>7. ASSUME NEW i \in 1..m
      PROVE  /\ q[i] \in BarRecord /\ BrickFits(s, q[i])
             /\ q[i].open = LevelAt(s, a, up, i - 1) /\ q[i].close = LevelAt(s, a, up, i)
  <2>1. PICK from \in Int : from = LevelAt(s, a, up, i - 1)
    BY <1>2
  <2>2. PICK to \in Int : to = IF up THEN from + d ELSE from - d
    <3>1. from + d \in Int /\ from - d \in Int
      OBVIOUS
    <3>2. (IF up THEN from + d ELSE from - d) \in Int
      BY <3>1, Zenon
    <3>3. QED BY <3>2
  <2>3. PICK v \in Int : v = IF i = m THEN rec.volume ELSE 0
    BY <1>3
  <2>4. q[i] = Brick(s, rec, from, up, v)
    BY <2>1, <2>3
  <2>5. q[i] = [ts |-> rec.ts, open |-> from, high |-> Larger(from, to), low |-> Smaller(from, to),
                close |-> to, volume |-> v]
    BY <1>1, <2>2, <2>4 DEF Brick
  <2>6. Larger(from, to) \in Int /\ Smaller(from, to) \in Int
    BY DEF Larger, Smaller
  <2>7. q[i] \in BarRecord
    BY <1>3, <2>5, <2>6 DEF BarRecord
  <2>8. q[i].open = from /\ q[i].close = to
    BY <2>5
  <2>9. Abs(to - from) = d
    BY <2>2 DEF Abs
  <2>10. from % s.step = 0
    BY <1>2, <2>1
  <2>11. to = LevelAt(s, a, up, i)
    BY <1>5, <2>1, <2>2
  <2>12. QED BY <1>1, <2>1, <2>7, <2>8, <2>9, <2>10, <2>11 DEF BrickFits
<1>8. q \in Seq(BarRecord) /\ Len(q) = m
  <2>1. q = [i \in 1..m |-> q[i]]
    OBVIOUS
  <2>2. \A i \in 1..m : q[i] \in BarRecord
    BY <1>7
  <2>3. PICK E : E = BarRecord
    OBVIOUS
  <2>4. m \in Nat /\ q = [i \in 1..m |-> q[i]] /\ \A i \in 1..m : q[i] \in E
    BY <1>4, <2>1, <2>2, <2>3
  <2>5. q \in Seq(E) /\ Len(q) = m
    BY ONLY <2>4
  <2>6. QED BY <2>3, <2>5
<1>9. 1 \in 1..m /\ m \in 1..m
  BY <1>4
<1>10. q[1].open = a /\ q[m].close = LevelAt(s, a, up, m)
  BY <1>6, <1>7, <1>9
<1>11. ASSUME NEW i \in 2..m
       PROVE  q[i].open = q[i - 1].close
  <2>1. i \in 1..m /\ i - 1 \in 1..m
    BY <1>4
  <2>2. QED BY <1>7, <2>1
<1>12. QED BY <1>7, <1>8, <1>10, <1>11 DEF Burstlike

\* What a builder of bricks should become, and hand out, on the last record.
OnTheGrid(s, t, f, es) ==
  /\ DOMAIN f.next = Slots /\ f.next.pending = <<>>
  /\ Gridded(s, t, f.next.anchor, es \o Entries(f.out, Len(t)))

\* A drained builder of bricks hands out the burst a record asks for.
LEMMA BricksGoOn ==
  ASSUME NEW s \in Specs, s.unit = "Renko", s.drained, NEW t \in Seq(Rec), NEW rec \in Rec,
         NEW es, NEW b, DOMAIN b = Slots, b.pending = <<>>, Gridded(s, t, b.anchor, es),
         NEW r, r = Fed(s, b, rec)
  PROVE  OnTheGrid(s, Append(t, rec), r, es)
<1>0. SUFFICES /\ DOMAIN r.next = Slots /\ r.next.pending = <<>>
               /\ Gridded(s, Append(t, rec), r.next.anchor, es \o Entries(r.out, Len(t) + 1))
  <2>1. PICK u : u = Append(t, rec)
    OBVIOUS
  <2>2. Len(u) = Len(t) + 1
    BY <2>1
  <2>3. QED BY <2>1, <2>2 DEF OnTheGrid
<1>1. PICK u : u = Append(t, rec)
  OBVIOUS
<1>2. PICK n : n = Len(t) + 1
  OBVIOUS
<1>3. u \in Seq(Rec) /\ Len(u) = n /\ u # <<>> /\ u[Len(u)] = rec /\ n \in Nat
  BY <1>1, <1>2
<1>4. s.step \in Nat \ {0} /\ MaxBricks \in Nat \ {0} /\ None \notin Int
  BY BarsAssumption
<1>5. rec.close \in Int
  BY RecFields
<1>6. es \in Seq(EntryShape)
  BY DEF Gridded
<1>7. PICK p : p = RenkoPush(s, b, rec)
  OBVIOUS
<1>8. PushInto(s, b, rec) = p
  BY <1>7 DEF PushInto, Timed, Counted, Imbalanced, Running
<1>9. r = [next |-> [p.next EXCEPT !.pending = <<>>], out |-> p.out \o p.next.pending]
  BY <1>8 DEF Fed
<1>10. ASSUME DOMAIN p.next = Slots
       PROVE  DOMAIN r.next = Slots /\ r.next.pending = <<>> /\ r.next.anchor = p.next.anchor
  <2>1. PICK c : c = p.next
    OBVIOUS
  <2>2. r.next = [c EXCEPT !.pending = <<>>]
    BY <1>9, <2>1
  <2>3. DOMAIN c = Slots
    BY <1>10, <2>1
  <2>4. QED BY <2>1, <2>2, <2>3 DEF Slots
<1>11. r.out = p.out \o p.next.pending
  <2>1. PICK o : o = p.out \o p.next.pending
    OBVIOUS
  <2>2. PICK c : c = [p.next EXCEPT !.pending = <<>>]
    OBVIOUS
  <2>3. r = [next |-> c, out |-> o]
    BY <1>9, <2>1, <2>2
  <2>4. r.out = o
    BY ONLY <2>3
  <2>5. QED BY <2>1, <2>4
<1>12. CASE b.anchor = None
  <2>1. t = <<>> /\ es = <<>>
    BY <1>4, <1>12 DEF Gridded
  <2>2. PICK a : a = Snap(s, rec.close)
    OBVIOUS
  <2>3. a \in Int /\ a % s.step = 0 /\ Abs(rec.close - a) < s.step
    BY <1>4, <1>5, <2>2, SnapIsNear
  <2>4. PICK c : c = [b EXCEPT !.anchor = a]
    OBVIOUS
  <2>5. p = [next |-> c, out |-> <<>>]
    BY <1>7, <1>12, <2>2, <2>4 DEF RenkoPush
  <2>6. DOMAIN c = Slots /\ c.anchor = a /\ c.pending = <<>>
    BY <2>4 DEF Slots
  <2>7. p.next = c /\ p.out = <<>>
    BY <2>5
  <2>8. r.out = <<>>
    BY <1>11, <2>6, <2>7
  <2>9. es \o Entries(r.out, n) = es
    <3>1. PICK o : o = r.out
      OBVIOUS
    <3>2. QED BY <1>6, <2>8, NoEntry
  <2>10. Gridded(s, u, a, es)
    BY <1>3, <1>6, <2>1, <2>3 DEF Gridded
  <2>11. QED BY <1>1, <1>2, <1>10, <2>6, <2>7, <2>9, <2>10
<1>13. CASE b.anchor # None
  <2>1. PICK a : a = b.anchor
    OBVIOUS
  <2>2. a \in Int /\ a # None /\ a % s.step = 0 /\ t # <<>> /\ Gridded(s, t, a, es)
    BY <1>13, <2>1 DEF Gridded
  <2>3. PICK up \in BOOLEAN : up <=> rec.close > a
    OBVIOUS
  <2>4. PICK steps : steps = Abs(rec.close - a) \div s.step
    OBVIOUS
  <2>5. /\ steps \in Nat /\ (steps = 0 => Abs(rec.close - a) < s.step)
        /\ Abs(rec.close - LevelAt(s, a, up, steps)) < s.step
    BY <1>4, <1>5, <2>2, <2>3, <2>4, Distance DEF LevelAt
  <2>6. CASE steps = 0
    <3>1. p = [next |-> b, out |-> <<>>]
      BY <1>7, <1>13, <2>1, <2>4, <2>6 DEF RenkoPush
    <3>2. p.next = b /\ p.out = <<>>
      BY <3>1
    <3>3. r.out = <<>>
      BY <1>11, <3>2
    <3>4. es \o Entries(r.out, n) = es
      BY <1>6, <3>3, NoEntry
    <3>5. Abs(rec.close - a) < s.step
      BY <2>5, <2>6
    <3>6. Gridded(s, u, a, es)
      <4>1. \A k \in 1..Len(es) : es[k].upTo \in 1..Len(u) /\ BrickFits(s, es[k].bar)
        BY <1>2, <1>3 DEF Gridded
      <4>2. QED BY <1>3, <2>2, <3>5, <4>1 DEF Gridded
    <3>7. QED BY <1>1, <1>2, <1>10, <2>1, <3>2, <3>4, <3>6
  <2>7. CASE steps # 0
    <3>1. PICK m : m = Smaller(steps, MaxBricks)
      OBVIOUS
    <3>2. m \in 1..MaxBricks /\ m \in Nat /\ m \in Int /\ (m < steps => m = MaxBricks)
          /\ (~(m < steps) => m = steps)
      BY <1>4, <2>5, <2>7, <3>1 DEF Smaller
    <3>3. PICK q : q = [i \in 1..m |-> Brick(s, rec, LevelAt(s, a, up, i - 1), up,
                                            IF i = m THEN rec.volume ELSE 0)]
      OBVIOUS
    <3>4. Burstlike(s, q, a, LevelAt(s, a, up, m)) /\ Len(q) = m
      BY <1>4, <2>2, <3>2, <3>3, BurstOfMove
    <3>5. q \in Seq(BarRecord) /\ Len(q) = m /\ b.pending \o q = q /\ q # <<>>
      <4>1. q \in Seq(BarRecord) /\ Len(q) = m
        BY <3>4 DEF Burstlike
      <4>2. q # <<>>
        BY <3>2, <4>1
      <4>3. <<>> \o q = q
        BY <4>1
      <4>4. QED BY <4>1, <4>2, <4>3
    <3>6. PICK next : next = Regrid(s, LevelAt(s, a, up, m), rec.close, m < steps)
      OBVIOUS
    <3>7. PICK c : c = [b EXCEPT !.anchor = next, !.pending = Tail(q)]
      OBVIOUS
    <3>8. p = [next |-> c, out |-> <<Head(q)>>]
      <4>1. \A i \in Int : (IF rec.close > a THEN a + i * s.step ELSE a - i * s.step) = LevelAt(s, a, up, i)
        BY <2>3 DEF LevelAt
      <4>2. \A from, v : Brick(s, rec, from, rec.close > a, v) = Brick(s, rec, from, up, v)
        BY <2>3 DEF Brick
      <4>3. \A i \in 1..m : i - 1 \in Int
        OBVIOUS
      <4> DEFINE far == Abs(rec.close - b.anchor) \div s.step
                 few == Smaller(far, MaxBricks)
                 level(i) == IF rec.close > b.anchor THEN b.anchor + i * s.step
                             ELSE b.anchor - i * s.step
                 queue == [i \in 1..few |-> Brick(s, rec, level(i - 1), rec.close > b.anchor,
                                                  IF i = few THEN rec.volume ELSE 0)]
      <4>4. far = steps /\ few = m
        BY <2>1, <2>4, <3>1
      <4>5. level(m) = LevelAt(s, a, up, m) /\ \A i \in 1..m : level(i - 1) = LevelAt(s, a, up, i - 1)
        BY <2>1, <3>2, <4>1, <4>3
      <4>6. far # 0 => p = [next |-> [b EXCEPT !.anchor = Regrid(s, level(few), rec.close, few < far),
                                              !.pending = Tail(b.pending \o queue)],
                            out |-> <<Head(b.pending \o queue)>>]
        BY <1>7, <1>13 DEF RenkoPush
      <4>7. queue = q
        <5>1. \A v : Brick(s, rec, v, rec.close > b.anchor, 0) = Brick(s, rec, v, up, 0)
              /\ Brick(s, rec, v, rec.close > b.anchor, rec.volume) = Brick(s, rec, v, up, rec.volume)
          BY <2>1, <4>2
        <5>2. PICK f : f = queue
          OBVIOUS
        <5>3. \A i \in 1..few : f[i] = Brick(s, rec, level(i - 1), rec.close > b.anchor,
                                             IF i = few THEN rec.volume ELSE 0)
          BY <5>2
        <5>4. f = [i \in 1..few |-> f[i]]
          BY <5>2
        <5> HIDE DEF far, few, level
        <5>5. \A i \in 1..m : f[i] = Brick(s, rec, LevelAt(s, a, up, i - 1), up,
                                           IF i = m THEN rec.volume ELSE 0)
          BY <4>4, <4>5, <5>1, <5>3
        <5>6. \A i \in 1..m : f[i] = q[i]
          BY <3>3, <5>5
        <5>7. q = [i \in 1..m |-> q[i]] /\ f = [i \in 1..m |-> f[i]]
          BY <3>3, <4>4, <5>4
        <5>8. f = q
          BY ONLY <5>6, <5>7
        <5>9. QED BY <5>2, <5>8
      <4> HIDE DEF far, few, level, queue
      <4>8. next = Regrid(s, level(few), rec.close, few < far)
        BY <3>6, <4>4, <4>5
      <4>9. Tail(b.pending \o queue) = Tail(q) /\ Head(b.pending \o queue) = Head(q)
        BY <3>5, <4>7
      <4>10. p = [next |-> [b EXCEPT !.anchor = next, !.pending = Tail(q)], out |-> <<Head(q)>>]
        BY <2>7, <4>4, <4>6, <4>8, <4>9
      <4>11. QED BY <3>7, <4>10
    <3>9. DOMAIN c = Slots /\ c.anchor = next /\ c.pending = Tail(q)
      BY <3>7 DEF Slots
    <3>10. p.next = c /\ p.out = <<Head(q)>>
      BY <3>8
    <3>11. r.out = q
      <4>1. PICK E : E = BarRecord
        OBVIOUS
      <4>2. q \in Seq(E) /\ q # <<>>
        BY <3>5, <4>1
      <4>3. <<Head(q)>> \o Tail(q) = q
        BY ONLY <4>2
      <4>4. QED BY <1>11, <3>9, <3>10, <4>3
    <3>12. next \in Int /\ next % s.step = 0 /\ Abs(rec.close - next) < s.step
           /\ (next = LevelAt(s, a, up, m) \/ Len(q) = MaxBricks)
      <4>1. CASE m < steps
        <5>1. next = Snap(s, rec.close)
          BY <3>6, <4>1 DEF Regrid
        <5>2. QED BY <1>4, <1>5, <3>2, <3>5, <4>1, <5>1, SnapIsNear
      <4>2. CASE ~(m < steps)
        <5>1. next = LevelAt(s, a, up, m) /\ m = steps
          BY <3>2, <3>6, <4>2 DEF Regrid
        <5>2. LevelAt(s, a, up, m) \in Int /\ LevelAt(s, a, up, m) % s.step = 0
          BY <1>4, <2>2, <3>2, GridSteps DEF LevelAt
        <5>3. QED BY <2>5, <5>1, <5>2
      <4>3. QED BY <4>1, <4>2
    <3>13. Gridded(s, Append(t, rec), next, es \o Entries(q, Len(t) + 1))
      BY <2>2, <3>4, <3>12, GridGoesOn
    <3>14. QED BY <1>10, <3>9, <3>10, <3>11, <3>13
  <2>8. QED BY <2>6, <2>7
<1>14. QED BY <1>12, <1>13

-----------------------------------------------------------------------------
(* Every builder *)

\* A builder in the middle of the tape.
Fits(s, t, b, es) ==
  /\ DOMAIN b = Slots
  /\ s.unit # "Renko" => Whole(t, b.partial, es) /\ b.pending = <<>>
  /\ s.unit \in Timed => Dated(b)
  /\ s.unit \in Threshold => Tight(s, t, es, FALSE) /\ Told(s, t, b, Lo(es, Len(es) + 1))
  /\ s.unit = "Renko" /\ s.drained => b.pending = <<>> /\ Gridded(s, t, b.anchor, es)

\* A builder after the end of the tape.
Ended(s, t, b, es) ==
  /\ s.unit # "Renko" => Whole(t, None, es) /\ b.partial = None
  /\ s.unit \in Threshold => Tight(s, t, es, TRUE)
  /\ s.unit = "Renko" /\ s.drained => Gridded(s, t, b.anchor, es)

\* The kinds of builder.
LEMMA Kinds ==
  ASSUME NEW s \in Specs
  PROVE  /\ s.unit \in Timed \/ s.unit \in Counted \/ s.unit \in Imbalanced \cup Running
            \/ s.unit = "Renko"
         /\ s.unit \in Timed => s.unit \notin Threshold /\ s.unit # "Renko"
         /\ s.unit \in Threshold <=> s.unit \in Counted \/ s.unit \in Imbalanced \cup Running
         /\ s.unit \in Threshold => s.unit \notin Timed /\ s.unit # "Renko"
         /\ s.unit \in Counted => s.unit \notin Imbalanced \cup Running
BY BarsAssumption DEF Timed, Threshold, Counted, Imbalanced, Running

\* Fresh builders fit the empty tape.
LEMMA FreshFits ==
  ASSUME NEW s \in Specs
  PROVE  Fits(s, <<>>, Fresh, <<>>)
<1>1. PICK t : t = <<>>
  OBVIOUS
<1>2. PICK b : b = Fresh
  OBVIOUS
<1>3. t \in Seq(Rec) /\ t \in Seq(EntryShape) /\ Len(t) = 0
  BY <1>1
<1>4. /\ DOMAIN b = Slots /\ b.partial = None /\ b.window = None /\ b.total = 0 /\ b.buy = 0
      /\ b.sell = 0 /\ b.prevClose = None /\ b.prevSign = 1 /\ b.lastTs = 0 /\ b.anchor = None
      /\ b.pending = <<>>
  BY <1>2 DEF Fresh, Slots
<1>5. Lo(t, Len(t) + 1) = 1
  BY <1>3 DEF Lo
<1>6. Whole(t, b.partial, t)
  BY <1>3, <1>4, <1>5 DEF Whole
<1>7. Dated(b)
  BY <1>4 DEF Dated
<1>8. Tight(s, t, t, FALSE)
  BY <1>3, <1>5 DEF Tight, TightBars, NoneDue
<1>9. Traded(s, t, 1, 0, 1) = 0 /\ Traded(s, t, 1, 0, -1) = 0
  <2>1. Traded(s, t, 0 + 1, 0, 1) = 0 /\ Traded(s, t, 0 + 1, 0, -1) = 0
    BY NothingTraded
  <2>2. 0 + 1 = 1
    OBVIOUS
  <2>3. QED BY <2>1, <2>2
<1>10. LastSign(t, 0) = 1
  <2>1. Flips(t, 0) = {}
    BY DEF Flips
  <2>2. QED BY <2>1 DEF LastSign
<1>11. Told(s, t, b, 1)
  BY <1>1, <1>3, <1>4, <1>9, <1>10 DEF Told
<1>12. Gridded(s, t, b.anchor, t)
  BY <1>1, <1>3, <1>4 DEF Gridded
<1>13. QED BY <1>1, <1>2, <1>4, <1>5, <1>6, <1>7, <1>8, <1>11, <1>12 DEF Fits

\* A record keeps every builder fitting.
LEMMA PushFits ==
  ASSUME NEW s \in Specs, NEW t \in Seq(Rec), NEW rec \in Rec, NEW b, NEW es, Fits(s, t, b, es),
         NEW f, f = Fed(s, b, rec)
  PROVE  Fits(s, Append(t, rec), f.next, es \o Entries(f.out, UpTo(s, Len(t) + 1)))
<1>1. PICK u : u = Append(t, rec)
  OBVIOUS
<1>2. PICK r : r = PushInto(s, b, rec)
  OBVIOUS
<1>3. u \in Seq(Rec) /\ Len(u) = Len(t) + 1 /\ DOMAIN b = Slots
  BY <1>1 DEF Fits
<1>4. CASE s.unit \in Timed
  <2>1. s.unit \notin Threshold /\ s.unit # "Renko" /\ Dated(b) /\ Whole(t, b.partial, es)
        /\ b.pending = <<>>
    BY <1>4, Kinds DEF Fits
  <2>2. r = TimePush(s, b, rec)
    BY <1>2, <1>4 DEF PushInto, Timed, Counted, Imbalanced, Running
  <2>3. /\ DOMAIN r.next = Slots /\ r.next.pending = b.pending /\ Dated(r.next)
        /\ r.out \in Seq(BarRecord)
        /\ Whole(u, r.next.partial, es \o Entries(r.out, Len(t)))
    <3>1. InTime(u, b, r, es)
      BY <1>1, <1>3, <1>4, <2>1, <2>2, TimeGoesOn
    <3>2. Len(u) - 1 = Len(t)
      BY <1>3
    <3>3. QED BY <3>1, <3>2 DEF InTime
  <2>4. Alike(r.next, f.next) /\ f.out = r.out
    BY <1>2, <2>1, <2>3, FedIsPushed
  <2>5. UpTo(s, Len(t) + 1) = Len(t)
    BY <1>4 DEF UpTo
  <2>6. DOMAIN f.next = Slots /\ f.next.pending = <<>> /\ Dated(f.next)
        /\ f.next.partial = r.next.partial
    BY <2>1, <2>3, <2>4 DEF Alike, Dated
  <2>7. QED BY <1>1, <2>1, <2>3, <2>4, <2>5, <2>6 DEF Fits
<1>5. CASE s.unit \in Threshold
  <2>1. /\ s.unit \notin Timed /\ s.unit # "Renko" /\ Whole(t, b.partial, es) /\ b.pending = <<>>
        /\ Tight(s, t, es, FALSE) /\ Told(s, t, b, Lo(es, Len(es) + 1))
    BY <1>5, Kinds DEF Fits
  <2>2. Progress(s, u, b, r, es)
    <3>1. CASE s.unit \in Counted
      <4>1. r = CountPush(s, b, rec)
        BY <1>2, <3>1 DEF PushInto, Timed, Counted, Imbalanced, Running
      <4>2. QED BY <1>1, <1>3, <2>1, <3>1, <4>1, CountGoesOn
    <3>2. CASE s.unit \in Imbalanced \cup Running
      <4>1. r = FlowPush(s, b, rec)
        BY <1>2, <3>2 DEF PushInto, Timed, Counted, Imbalanced, Running
      <4>2. QED BY <1>1, <1>3, <2>1, <3>2, <4>1, FlowGoesOn
    <3>3. QED BY <1>5, <3>1, <3>2, Kinds
  <2>3. PICK fs : fs = es \o Entries(r.out, Len(u))
    OBVIOUS
  <2>4. /\ DOMAIN r.next = Slots /\ r.next.pending = b.pending /\ r.out \in Seq(BarRecord)
        /\ Whole(u, r.next.partial, fs) /\ Tight(s, u, fs, FALSE)
        /\ Told(s, u, r.next, Lo(fs, Len(fs) + 1))
    BY <2>2, <2>3 DEF Progress
  <2>5. Alike(r.next, f.next) /\ f.out = r.out
    BY <1>2, <2>1, <2>4, FedIsPushed
  <2>6. UpTo(s, Len(t) + 1) = Len(u)
    BY <1>3, <2>1 DEF UpTo
  <2>7. DOMAIN f.next = Slots /\ f.next.pending = <<>> /\ f.next.partial = r.next.partial
    BY <2>1, <2>4, <2>5 DEF Alike
  <2>8. Told(s, u, f.next, Lo(fs, Len(fs) + 1))
    BY <2>4, <2>5 DEF Alike, Told
  <2>9. es \o Entries(f.out, UpTo(s, Len(t) + 1)) = fs
    BY <2>3, <2>5, <2>6
  <2>10. QED BY <1>1, <2>1, <2>4, <2>7, <2>8, <2>9 DEF Fits
<1>6. CASE s.unit = "Renko" /\ s.drained
  <2>1. s.unit \notin Timed /\ s.unit \notin Threshold
    BY <1>6, Kinds
  <2>2. b.pending = <<>> /\ Gridded(s, t, b.anchor, es)
    BY <1>6 DEF Fits
  <2>3. /\ DOMAIN f.next = Slots /\ f.next.pending = <<>>
        /\ Gridded(s, u, f.next.anchor, es \o Entries(f.out, Len(t) + 1))
    <3>1. OnTheGrid(s, u, f, es)
      BY <1>1, <1>3, <1>6, <2>2, BricksGoOn
    <3>2. QED BY <1>3, <3>1 DEF OnTheGrid
  <2>4. UpTo(s, Len(t) + 1) = Len(t) + 1
    BY <2>1 DEF UpTo
  <2>5. QED BY <1>1, <1>6, <2>1, <2>3, <2>4 DEF Fits
<1>7. CASE s.unit = "Renko" /\ ~s.drained
  <2>1. s.unit \notin Timed /\ s.unit \notin Threshold
    BY <1>7, Kinds
  <2>2. f = RenkoPush(s, b, rec)
    BY <1>7 DEF Fed, PushInto, Timed, Counted, Imbalanced, Running
  <2>3. DOMAIN f.next = Slots
    <3>1. \A x, y : DOMAIN [b EXCEPT !.anchor = x] = Slots
                    /\ DOMAIN [b EXCEPT !.anchor = x, !.pending = y] = Slots
      BY <1>3
    <3>2. QED BY <1>3, <2>2, <3>1 DEF RenkoPush
  <2>4. QED BY <1>7, <2>1, <2>3 DEF Fits
<1>8. QED BY <1>4, <1>5, <1>6, <1>7, Kinds

\* The last bar of a builder, handed out when the tape ends.
LEMMA FlushEnds ==
  ASSUME NEW s \in Specs, NEW t \in Seq(Rec), NEW b, NEW es, Fits(s, t, b, es),
         NEW c, c.partial = None, c.anchor = b.anchor
  PROVE  Ended(s, t, c, es \o Entries(Flushed(s, b), Len(t)))
<1>1. CASE s.unit = "Renko"
  <2>1. s.unit \notin Threshold
    BY <1>1, Kinds
  <2>2. ASSUME s.drained
        PROVE  Gridded(s, t, c.anchor, es \o Entries(Flushed(s, b), Len(t)))
    <3>1. b.pending = <<>> /\ Gridded(s, t, b.anchor, es) /\ es \in Seq(EntryShape)
      BY <1>1, <2>2 DEF Fits, Gridded
    <3>2. Flushed(s, b) = SubSeq(b.pending, 1, Smaller(1, Len(b.pending)))
      BY <1>1 DEF Flushed
    <3>3. PICK o : o = Flushed(s, b)
      OBVIOUS
    <3>4. o = <<>>
      <4>1. Len(b.pending) = 0 /\ Smaller(1, 0) = 0
        BY <3>1 DEF Smaller
      <4>2. QED BY <3>1, <3>2, <3>3, <4>1
    <3>5. es \o Entries(o, Len(t)) = es
      BY <3>1, <3>4, NoEntry
    <3>6. QED BY <3>1, <3>3, <3>5
  <2>3. QED BY <1>1, <2>1, <2>2 DEF Ended
<1>2. CASE s.unit # "Renko" /\ b.partial = None
  <2>1. Whole(t, None, es) /\ es \in Seq(EntryShape)
    BY <1>2 DEF Fits, Whole
  <2>2. PICK o : o = Flushed(s, b)
    OBVIOUS
  <2>3. o = <<>>
    BY <1>2, <2>2 DEF Flushed
  <2>4. es \o Entries(o, Len(t)) = es
    BY <2>1, <2>3, NoEntry
  <2>5. s.unit \in Threshold => Tight(s, t, es, TRUE)
    BY DEF Fits, Tight, TightBars
  <2>6. QED BY <1>2, <2>1, <2>2, <2>4, <2>5 DEF Ended
<1>3. CASE s.unit # "Renko" /\ b.partial # None
  <2>1. PICK p : p = b.partial
    OBVIOUS
  <2>2. p # None /\ Whole(t, p, es) /\ es \in Seq(EntryShape)
    BY <1>3, <2>1 DEF Fits, Whole
  <2>3. /\ Lo(es, Len(es) + 1) \in 1..Len(t) /\ Len(t) \in Lo(es, Len(es) + 1)..Len(t)
        /\ Digests(t, Lo(es, Len(es) + 1), Len(t), p)
    BY <2>2 DEF Whole
  <2>4. t # <<>> /\ t[Len(t)] \in Rec
    BY <2>3
  <2>5. PICK ts \in Int : ts = IF s.unit \in Timed THEN WindowEnd(s, b.window) ELSE b.lastTs
    <3>1. CASE s.unit \in Timed
      <4>1. b.window \in Int
        BY <1>3, <3>1 DEF Fits, Dated
      <4>2. WindowEnd(s, b.window) \in Int
        BY <3>1, <4>1, WindowsAreInt
      <4>3. QED BY <3>1, <4>2
    <3>2. CASE s.unit \notin Timed
      <4>1. b.lastTs = t[Len(t)].ts
        BY <1>3, <2>4, <3>2, Kinds DEF Fits, Told
      <4>2. QED BY <2>4, <3>2, <4>1, RecFields
    <3>3. QED BY <3>1, <3>2
  <2>6. PICK x : x = Stamped(p, ts)
    OBVIOUS
  <2>7. Flushed(s, b) = <<x>>
    BY <1>3, <2>1, <2>5, <2>6 DEF Flushed
  <2>8. x \in BarRecord /\ Bared(x) = p
    BY <2>3, <2>6, PartialIsSome
  <2>9. PICK e : e = [bar |-> x, upTo |-> Len(t)]
    OBVIOUS
  <2>10. PICK fs : fs = Append(es, e)
    OBVIOUS
  <2>11. Whole(t, None, fs)
    BY <2>2, <2>8, <2>9, <2>10, WholeEmits
  <2>12. es \o Entries(Flushed(s, b), Len(t)) = fs
    BY <2>2, <2>7, <2>8, <2>9, <2>10, OneEntry
  <2>13. ASSUME s.unit \in Threshold
         PROVE  Tight(s, t, fs, TRUE)
    <3>1. /\ TightBars(s, t, es, FALSE) /\ NoneDue(s, t, Lo(es, Len(es) + 1), Len(t))
          /\ b.lastTs = t[Len(t)].ts /\ s.unit \notin Timed
      BY <2>4, <2>13, Kinds DEF Fits, Tight, Told
    <3>2. NoneDue(s, t, Lo(es, Len(es) + 1), Len(t) - 1)
      <4>1. \A lo \in Int : \A i \in lo..(Len(t) - 1) : i \in lo..Len(t)
        OBVIOUS
      <4>2. QED BY <2>3, <3>1, <4>1 DEF NoneDue
    <3>3. PICK over : over = TRUE
      OBVIOUS
    <3>4. MayClose(s, t, es, over)
      BY <3>1, <3>2, <3>3 DEF MayClose
    <3>5. x.ts = ts /\ ts = t[Len(t)].ts
      BY <2>5, <2>6, <3>1 DEF Stamped
    <3>6. ClosesNow(t, e)
      BY <2>9, <3>5 DEF ClosesNow
    <3>7. Tight(s, t, Append(es, e), over)
      BY ONLY t \in Seq(Rec), <2>2, <3>4, <3>6, TightEmits
    <3>8. QED BY <2>10, <3>3, <3>7
  <2>14. QED BY <1>3, <2>11, <2>12, <2>13 DEF Ended
<1>4. QED BY <1>1, <1>2, <1>3

\* Every builder fits the tape, to its end and after it.
BarsHold ==
  /\ feed \in DOMAIN Feeds /\ flushed \in BOOLEAN /\ tape \in Seq(Rec)
  /\ ~flushed => \A s \in Specs : Fits(s, tape, builder[s], emitted[s])
  /\ flushed => \A s \in Specs : Ended(s, tape, builder[s], emitted[s])

\* The builders fit from the start.
LEMMA BarsBegin == BarsInit => BarsHold
<1> SUFFICES ASSUME BarsInit PROVE BarsHold
  OBVIOUS
<1>1. feed \in DOMAIN Feeds /\ flushed = FALSE /\ tape = <<>> /\ tape \in Seq(Rec)
  BY DEF BarsInit
<1>2. \A s \in Specs : builder[s] = Fresh /\ emitted[s] = <<>>
  BY DEF BarsInit
<1>3. \A s \in Specs : Fits(s, tape, builder[s], emitted[s])
  BY <1>1, <1>2, FreshFits
<1>4. QED BY <1>1, <1>3 DEF BarsHold

\* A record of the feed.
LEMMA BarsPushed ==
  ASSUME BarsHold, NEW shape \in Feeds[feed], PushRecord(shape)
  PROVE  BarsHold'
<1>1. PICK rec : rec = [ts |-> Now + shape.gap, open |-> shape.open, high |-> shape.high,
                        low |-> shape.low, close |-> shape.close, volume |-> shape.volume,
                        signed |-> shape.signed]
  OBVIOUS
<1>2. PICK fed : fed = [s \in Specs |-> Fed(s, builder[s], rec)]
  OBVIOUS
<1>3. /\ ~flushed /\ tape' = Append(tape, rec)
      /\ builder' = [s \in Specs |-> fed[s].next]
      /\ emitted' = [s \in Specs |-> emitted[s] \o Entries(fed[s].out, UpTo(s, Len(tape) + 1))]
      /\ feed' = feed /\ flushed' = flushed
  BY <1>1, <1>2 DEF PushRecord
<1>4. tape \in Seq(Rec) /\ feed \in DOMAIN Feeds /\ \A s \in Specs : Fits(s, tape, builder[s], emitted[s])
  BY <1>3 DEF BarsHold
<1>5. rec \in Rec
  <2>1. shape \in Shape
    BY <1>4, BarsAssumption
  <2>2. Now \in Int
    <3>1. CASE tape = <<>>
      BY <3>1, BarsAssumption DEF Now
    <3>2. CASE tape # <<>>
      <4>1. tape[Len(tape)] \in Rec
        BY <1>4, <3>2
      <4>2. QED BY <3>2, <4>1, RecFields DEF Now, Last
    <3>3. QED BY <3>1, <3>2
  <2>3. PICK now \in Int : now = Now
    BY <2>2
  <2>4. QED BY <1>1, <2>1, <2>3 DEF Shape, Rec
<1>6. ASSUME NEW s \in Specs
      PROVE  Fits(s, tape', builder'[s], emitted'[s])
  <2>1. PICK f : f = Fed(s, builder[s], rec)
    OBVIOUS
  <2>2. PICK b : b = builder[s]
    OBVIOUS
  <2>3. PICK es : es = emitted[s]
    OBVIOUS
  <2>4. Fits(s, Append(tape, rec), f.next, es \o Entries(f.out, UpTo(s, Len(tape) + 1)))
    BY <1>4, <1>5, <2>1, <2>2, <2>3, PushFits
  <2>5. builder'[s] = f.next /\ emitted'[s] = es \o Entries(f.out, UpTo(s, Len(tape) + 1))
    BY <1>2, <1>3, <2>1, <2>3
  <2>6. QED BY <1>3, <2>4, <2>5
<1>7. tape' \in Seq(Rec)
  BY <1>3, <1>4, <1>5
<1>8. QED BY <1>3, <1>4, <1>6, <1>7 DEF BarsHold

\* The end of the tape.
LEMMA BarsFlushed ==
  ASSUME BarsHold, Flush
  PROVE  BarsHold'
<1>1. /\ ~flushed /\ flushed' = TRUE /\ feed' = feed /\ tape' = tape
      /\ emitted' = [s \in Specs |-> emitted[s] \o Entries(Flushed(s, builder[s]), Len(tape))]
      /\ builder' = [s \in Specs |-> [builder[s] EXCEPT !.partial = None, !.window = None,
                                        !.total = 0, !.buy = 0, !.sell = 0,
                                        !.pending = IF @ = <<>> THEN @ ELSE Tail(@)]]
  BY DEF Flush
<1>2. tape \in Seq(Rec) /\ feed \in DOMAIN Feeds /\ \A s \in Specs : Fits(s, tape, builder[s], emitted[s])
  BY <1>1 DEF BarsHold
<1>3. ASSUME NEW s \in Specs
      PROVE  Ended(s, tape, builder'[s], emitted'[s])
  <2>1. PICK b : b = builder[s]
    OBVIOUS
  <2>2. PICK es : es = emitted[s]
    OBVIOUS
  <2>3. PICK rest : rest = IF b.pending = <<>> THEN b.pending ELSE Tail(b.pending)
    OBVIOUS
  <2>4. PICK c : c = [b EXCEPT !.partial = None, !.window = None, !.total = 0, !.buy = 0, !.sell = 0,
                               !.pending = rest]
    OBVIOUS
  <2>5. Fits(s, tape, b, es) /\ DOMAIN b = Slots
    BY <1>2, <2>1, <2>2 DEF Fits
  <2>6. c.partial = None /\ c.anchor = b.anchor
    BY <2>4, <2>5 DEF Slots
  <2>7. Ended(s, tape, c, es \o Entries(Flushed(s, b), Len(tape)))
    BY <1>2, <2>5, <2>6, FlushEnds
  <2>8. builder'[s] = c /\ emitted'[s] = es \o Entries(Flushed(s, b), Len(tape))
    BY <1>1, <2>1, <2>2, <2>3, <2>4
  <2>9. QED BY <2>7, <2>8
<1>4. QED BY <1>1, <1>2, <1>3 DEF BarsHold

\* Enough, of any tape.
LEMMA EnoughIsDue ==
  \A s, lo, hi : Enough(s, lo, hi) <=> Due(s, tape, lo, hi)
<1>1. SUFFICES ASSUME NEW s, NEW lo, NEW hi
               PROVE  Enough(s, lo, hi) <=> Due(s, tape, lo, hi)
  OBVIOUS
<1>2. \A way : Moved(s, lo, hi, way) = Traded(s, tape, lo, hi, way)
  BY DEF Moved, Traded, Share, DirectionOf, Way, LastSign, Changes, Flips
<1>3. Moved(s, lo, hi, 1) = Traded(s, tape, lo, hi, 1) /\ Moved(s, lo, hi, -1) = Traded(s, tape, lo, hi, -1)
  BY <1>2
<1>4. QED BY <1>3 DEF Enough, Due

\* Builders that fit are right.
LEMMA BarsFit == BarsHold => BarsAreRight
<1> SUFFICES ASSUME BarsHold PROVE BarsAreRight
  OBVIOUS
<1>1. tape \in Seq(Rec) /\ flushed \in BOOLEAN
  BY DEF BarsHold
<1>2. \A s : \A k : From(s, k) = Lo(emitted[s], k)
  BY DEF From, Lo
<1>3. \A s : OpenFrom(s) = Lo(emitted[s], Len(emitted[s]) + 1)
  BY <1>2 DEF OpenFrom
<1>4. \A lo, hi : Summary(lo, hi) = Digest(tape, lo, hi)
  BY DEF Summary, Digest
<1>5. BarsPartitionTheTape
  <2>1. SUFFICES ASSUME NEW s \in Specs, s.unit # "Renko"
                 PROVE  /\ \A k \in DOMAIN emitted[s] :
                             LET e == emitted[s][k]
                             IN From(s, k) <= e.upTo /\ Bared(e.bar) = Summary(From(s, k), e.upTo)
                        /\ IF OpenFrom(s) > Len(tape) THEN builder[s].partial = None
                           ELSE ~flushed /\ builder[s].partial = Summary(OpenFrom(s), Len(tape))
    BY DEF BarsPartitionTheTape, Builders
  <2>2. PICK es : es = emitted[s]
    OBVIOUS
  <2>3. PICK p : p = builder[s].partial
    OBVIOUS
  <2>4. Whole(tape, p, es) /\ (flushed => p = None)
    BY <2>1, <2>2, <2>3 DEF BarsHold, Fits, Ended
  <2>5. /\ \A k \in DOMAIN es :
              Lo(es, k) <= es[k].upTo /\ Bared(es[k].bar) = Digest(tape, Lo(es, k), es[k].upTo)
        /\ IF Lo(es, Len(es) + 1) > Len(tape) THEN p = None
           ELSE p = Digest(tape, Lo(es, Len(es) + 1), Len(tape))
    BY <1>1, <2>4, WholeIsPartition
  <2>6. Lo(es, Len(es) + 1) <= Len(tape) => p # None
    <3>1. SUFFICES ASSUME Lo(es, Len(es) + 1) <= Len(tape) PROVE p # None
      OBVIOUS
    <3>2. /\ Lo(es, Len(es) + 1) \in 1..Len(tape) /\ Len(tape) \in Lo(es, Len(es) + 1)..Len(tape)
          /\ Digests(tape, Lo(es, Len(es) + 1), Len(tape), p)
      BY <1>1, <2>4, <3>1 DEF Whole
    <3>3. QED BY <1>1, <3>2, PartialIsSome
  <2>7. Lo(es, Len(es) + 1) \in Int /\ Len(tape) \in Int
    BY <1>1, <2>4 DEF Whole
  <2>8. \A k : From(s, k) = Lo(es, k)
    BY <1>2, <2>2
  <2>9. OpenFrom(s) = Lo(es, Len(es) + 1)
    BY <1>3, <2>2
  <2>10. QED BY <1>4, <2>2, <2>3, <2>4, <2>5, <2>6, <2>7, <2>8, <2>9
<1>6. ThresholdsAreTight
  <2>1. SUFFICES ASSUME NEW s \in Specs, s.unit # "Renko", s.unit \notin Timed
                 PROVE  /\ \A k \in DOMAIN emitted[s] :
                             LET e == emitted[s][k]  lo == From(s, k) IN
                             /\ \A i \in lo..(e.upTo - 1) : ~Enough(s, lo, i)
                             /\ Enough(s, lo, e.upTo) \/ (flushed /\ k = Len(emitted[s]))
                             /\ e.bar.ts = tape[e.upTo].ts
                        /\ \A i \in OpenFrom(s)..Len(tape) : ~Enough(s, OpenFrom(s), i)
    BY DEF ThresholdsAreTight, Builders
  <2>2. PICK es : es = emitted[s]
    OBVIOUS
  <2>3. s.unit \in Threshold
    BY <2>1, Kinds
  <2>4. (~flushed => Tight(s, tape, es, FALSE)) /\ (flushed => Tight(s, tape, es, TRUE))
    BY <2>2, <2>3 DEF BarsHold, Fits, Ended
  <2>5. \A k \in 1..Len(es) :
          /\ \A i \in Lo(es, k)..(es[k].upTo - 1) : ~Due(s, tape, Lo(es, k), i)
          /\ Due(s, tape, Lo(es, k), es[k].upTo) \/ (flushed /\ k = Len(es))
          /\ es[k].bar.ts = tape[es[k].upTo].ts
    BY <1>1, <2>4 DEF Tight, TightBars
  <2>6. \A i \in Lo(es, Len(es) + 1)..Len(tape) : ~Due(s, tape, Lo(es, Len(es) + 1), i)
    BY <1>1, <2>4 DEF Tight, NoneDue
  <2>7. DOMAIN es = 1..Len(es)
    <3>1. es \in Seq(EntryShape)
      BY <2>1, <2>2 DEF BarsHold, Fits, Ended, Whole
    <3>2. QED BY <3>1
  <2>8. (\A k : From(s, k) = Lo(es, k)) /\ OpenFrom(s) = Lo(es, Len(es) + 1)
    BY <1>2, <1>3, <2>2
  <2>9. QED BY <2>2, <2>5, <2>6, <2>7, <2>8, EnoughIsDue
<1>7. BricksTrackThePrice
  <2>1. SUFFICES ASSUME NEW s \in Specs, s.unit = "Renko", s.drained
                 PROVE  /\ tape # <<>> => Abs(Last(tape).close - builder[s].anchor) < s.step
                        /\ \A k \in DOMAIN emitted[s] :
                             LET b == emitted[s][k].bar IN
                             Abs(b.close - b.open) = s.step /\ b.open % s.step = 0
                        /\ \A k \in 2..Len(emitted[s]) :
                             LET a == emitted[s][k - 1]  b == emitted[s][k] IN
                             \/ b.bar.open = a.bar.close
                             \/ Cardinality({i \in DOMAIN emitted[s] : emitted[s][i].upTo = a.upTo}) = MaxBricks
    BY DEF BricksTrackThePrice, Bricks
  <2>2. PICK es : es = emitted[s]
    OBVIOUS
  <2>3. PICK anchor : anchor = builder[s].anchor
    OBVIOUS
  <2>4. Gridded(s, tape, anchor, es)
    BY <1>1, <2>1, <2>2, <2>3 DEF BarsHold, Fits, Ended
  <2>5. tape # <<>> => Abs(Last(tape).close - anchor) < s.step
    BY <2>4 DEF Gridded, Last
  <2>6. \A k \in DOMAIN es : Abs(es[k].bar.close - es[k].bar.open) = s.step /\ es[k].bar.open % s.step = 0
    <3>1. DOMAIN es = 1..Len(es)
      BY <2>4 DEF Gridded
    <3>2. QED BY <2>4, <3>1 DEF Gridded, BrickFits
  <2>7. \A k \in 2..Len(es) :
          \/ es[k].bar.open = es[k - 1].bar.close
          \/ Cardinality({i \in DOMAIN es : es[i].upTo = es[k - 1].upTo}) = MaxBricks
    BY <2>4 DEF Gridded, GoesOn, Burst
  <2>8. QED BY <2>2, <2>3, <2>5, <2>6, <2>7
<1>8. QED BY <1>5, <1>6, <1>7 DEF BarsAreRight

\* Every bar of every builder is the tape's: each record is in exactly one, a
\* threshold bar closes on the record that makes it due, and the bricks follow
\* the price, for every tape, boundary and calendar (BarBuilder::push, flush).
THEOREM BarsAreKept == BarsInit /\ [][BarsNext]_barVars => []BarsAreRight
<1>1. BarsHold /\ [BarsNext]_barVars => BarsHold'
  <2>1. SUFFICES ASSUME BarsHold, [BarsNext]_barVars PROVE BarsHold'
    OBVIOUS
  <2>2. CASE \E shape \in Feeds[feed] : PushRecord(shape)
    BY <2>1, <2>2, BarsPushed
  <2>3. CASE Flush
    BY <2>1, <2>3, BarsFlushed
  <2>4. CASE UNCHANGED barVars
    BY <2>1, <2>4 DEF BarsHold, barVars
  <2>5. QED BY <2>1, <2>2, <2>3, <2>4 DEF BarsNext
<1>2. QED BY <1>1, BarsBegin, BarsFit, PTL

-----------------------------------------------------------------------------
(* No look-ahead *)

\* A tape in time order.
InOrder(t) == \A i, j \in 1..Len(t) : i <= j => t[i].ts <= t[j].ts

\* Each bar holds records of one window, is stamped with its end, and nothing
\* behind it is older than that.
Parted(s, t, es) ==
  \A k \in 1..Len(es) :
    LET w == WindowOf(s, t[es[k].upTo].ts) IN
    /\ es[k].bar.ts = WindowEnd(s, w)
    /\ \A i \in Lo(es, k)..es[k].upTo : WindowOf(s, t[i].ts) = w
    /\ \A i \in (es[k].upTo + 1)..Len(t) : t[i].ts >= es[k].bar.ts

\* What a builder holds is of the window it has open; it holds nothing only
\* before the first record.
Opened(s, t, b, es) ==
  /\ \A i \in Lo(es, Len(es) + 1)..Len(t) : WindowOf(s, t[i].ts) = b.window
  /\ b.partial = None => t = <<>>

\* The tape's order holds for a record not older than the last.
LEMMA OrderStays ==
  ASSUME NEW t \in Seq(Rec), NEW rec \in Rec, InOrder(t), t # <<>> => t[Len(t)].ts <= rec.ts
  PROVE  InOrder(Append(t, rec))
<1>1. PICK u : u = Append(t, rec)
  OBVIOUS
<1>2. /\ Len(u) = Len(t) + 1 /\ u[Len(t) + 1] = rec /\ Len(t) \in Nat
      /\ \A i \in 1..Len(t) : u[i] = t[i] /\ t[i].ts \in Int
  BY <1>1, RecFields
<1>3. \A i \in 1..Len(t) : t[i].ts <= rec.ts
  <2>1. SUFFICES ASSUME NEW i \in 1..Len(t) PROVE t[i].ts <= rec.ts
    OBVIOUS
  <2>2. t # <<>> /\ Len(t) \in 1..Len(t) /\ i <= Len(t)
    OBVIOUS
  <2>3. t[i].ts <= t[Len(t)].ts
    BY <2>2 DEF InOrder
  <2>4. QED BY <1>2, <2>2, <2>3, RecFields
<1>4. rec.ts <= rec.ts
  BY RecFields
<1>5. ASSUME NEW i \in 1..Len(u), NEW j \in 1..Len(u), i <= j
      PROVE  u[i].ts <= u[j].ts
  <2>1. CASE j = Len(t) + 1
    BY <1>2, <1>3, <1>4, <1>5, <2>1
  <2>2. CASE j # Len(t) + 1
    <3>1. i \in 1..Len(t) /\ j \in 1..Len(t)
      BY <1>2, <1>5, <2>2
    <3>2. QED BY <1>2, <1>5, <3>1 DEF InOrder
  <2>3. QED BY <2>1, <2>2
<1>6. QED BY <1>1, <1>5 DEF InOrder

\* A builder that holds something has a record behind every bar.
LEMMA SomethingBehind ==
  ASSUME NEW t \in Seq(Rec), NEW p, NEW es, Whole(t, p, es), p # None
  PROVE  /\ Len(t) \in 1..Len(t) /\ Lo(es, Len(es) + 1) \in 1..Len(t)
         /\ \A k \in 1..Len(es) : es[k].upTo \in 1..(Len(t) - 1)
<1>1. Lo(es, Len(es) + 1) \in 1..Len(t)
  BY DEF Whole
<1>2. es \in Seq(EntryShape)
  BY DEF Whole
<1>3. ASSUME NEW k \in 1..Len(es)
      PROVE  es[k].upTo \in 1..(Len(t) - 1)
  <2>1. Lo(es, k) \in 1..Len(t) /\ es[k].upTo \in Lo(es, k)..Len(t)
    BY DEF Whole
  <2>2. Lo(es, k + 1) = es[k].upTo + 1
    BY <1>2 DEF Lo
  <2>3. Lo(es, k + 1) <= Len(t)
    <3>1. CASE k = Len(es)
      BY <1>1, <3>1
    <3>2. CASE k # Len(es)
      <4>1. k + 1 \in 1..Len(es)
        BY <1>2, <3>2
      <4>2. Lo(es, k + 1) \in 1..Len(t)
        BY <4>1 DEF Whole
      <4>3. QED BY <4>2
    <3>3. QED BY <3>1, <3>2
  <2>4. QED BY <2>1, <2>2, <2>3
<1>4. QED BY <1>1, <1>3

\* The bars of a tape stay parted by a record that is not older than the last.
LEMMA PartedStays ==
  ASSUME NEW s \in Specs, s.unit \in Timed, NEW t \in Seq(Rec), NEW rec \in Rec, NEW p, NEW es,
         Whole(t, p, es), p # None, Parted(s, t, es), t[Len(t)].ts <= rec.ts
  PROVE  Parted(s, Append(t, rec), es)
<1>1. PICK u : u = Append(t, rec)
  OBVIOUS
<1>2. /\ Len(u) = Len(t) + 1 /\ u[Len(t) + 1] = rec /\ Len(t) \in 1..Len(t)
      /\ \A i \in 1..Len(t) : u[i] = t[i]
  BY <1>1, SomethingBehind
<1>3. rec.ts \in Int /\ t[Len(t)].ts \in Int
  BY <1>2, RecFields
<1>4. SUFFICES ASSUME NEW k \in 1..Len(es)
               PROVE  /\ es[k].bar.ts = WindowEnd(s, WindowOf(s, u[es[k].upTo].ts))
                      /\ \A i \in Lo(es, k)..es[k].upTo :
                           WindowOf(s, u[i].ts) = WindowOf(s, u[es[k].upTo].ts)
                      /\ \A i \in (es[k].upTo + 1)..Len(u) : u[i].ts >= es[k].bar.ts
  BY <1>1 DEF Parted
<1>5. es[k].upTo \in 1..(Len(t) - 1) /\ Lo(es, k) \in 1..Len(t)
  BY SomethingBehind DEF Whole
<1>6. PICK w : w = WindowOf(s, t[es[k].upTo].ts)
  OBVIOUS
<1>7. /\ es[k].bar.ts = WindowEnd(s, w)
      /\ \A i \in Lo(es, k)..es[k].upTo : WindowOf(s, t[i].ts) = w
      /\ \A i \in (es[k].upTo + 1)..Len(t) : t[i].ts >= es[k].bar.ts
  BY <1>6 DEF Parted
<1>8. u[es[k].upTo] = t[es[k].upTo]
  BY <1>2, <1>5
<1>9. \A i \in Lo(es, k)..es[k].upTo : WindowOf(s, u[i].ts) = w
  <2>1. \A i \in Lo(es, k)..es[k].upTo : i \in 1..Len(t)
    BY <1>5
  <2>2. QED BY <1>2, <1>7, <2>1
<1>10. es[k].bar.ts \in Int
  <2>1. t[es[k].upTo].ts \in Int
    <3>1. t[es[k].upTo] \in Rec
      BY <1>5
    <3>2. QED BY <3>1, RecFields
  <2>2. w \in Int
    BY <1>6, <2>1, WindowsAreInt
  <2>3. QED BY <1>7, <2>2, WindowsAreInt
<1>11. \A i \in (es[k].upTo + 1)..Len(u) : u[i].ts >= es[k].bar.ts
  <2>1. t[Len(t)].ts >= es[k].bar.ts
    <3>1. Len(t) \in (es[k].upTo + 1)..Len(t)
      BY <1>2, <1>5
    <3>2. QED BY <1>7, <3>1
  <2>2. rec.ts >= es[k].bar.ts
    BY <1>3, <1>10, <2>1
  <2>3. \A i \in (es[k].upTo + 1)..Len(u) :
          i = Len(t) + 1 \/ (i \in (es[k].upTo + 1)..Len(t) /\ i \in 1..Len(t))
    BY <1>2, <1>5
  <2>4. QED BY <1>2, <1>7, <2>2, <2>3
<1>12. QED BY <1>6, <1>7, <1>8, <1>9, <1>11

\* A bar of what a builder holds is of one window, and stamped with its end.
LEMMA PartedEmits ==
  ASSUME NEW s \in Specs, s.unit \in Timed, NEW t \in Seq(Rec), NEW b, NEW es, Dated(b),
         Whole(t, b.partial, es), b.partial # None, Parted(s, t, es), Opened(s, t, b, es),
         NEW x \in BarRecord, x.ts = WindowEnd(s, b.window)
  PROVE  Parted(s, t, Append(es, [bar |-> x, upTo |-> Len(t)]))
<1>1. PICK e : e = [bar |-> x, upTo |-> Len(t)]
  OBVIOUS
<1>2. PICK fs : fs = Append(es, e)
  OBVIOUS
<1>3. e \in EntryShape /\ e.upTo = Len(t) /\ e.bar = x /\ es \in Seq(EntryShape)
  BY <1>1 DEF EntryShape, Whole
<1>4. /\ Len(fs) = Len(es) + 1 /\ fs[Len(es) + 1] = e /\ Len(es) \in Nat
      /\ \A k \in 1..Len(es) : fs[k] = es[k]
  BY <1>2, <1>3
<1>5. \A k \in 1..(Len(es) + 1) : Lo(fs, k) = Lo(es, k)
  BY <1>3, <1>4 DEF Lo
<1>6. Len(t) \in 1..Len(t) /\ Lo(es, Len(es) + 1) \in 1..Len(t)
  BY SomethingBehind
<1>7. \A i \in Lo(es, Len(es) + 1)..Len(t) : WindowOf(s, t[i].ts) = b.window
  BY DEF Opened
<1>8. WindowOf(s, t[Len(t)].ts) = b.window
  <2>1. Len(t) \in Lo(es, Len(es) + 1)..Len(t)
    BY <1>6
  <2>2. QED BY <1>7, <2>1
<1>9. SUFFICES ASSUME NEW k \in 1..Len(fs)
               PROVE  /\ fs[k].bar.ts = WindowEnd(s, WindowOf(s, t[fs[k].upTo].ts))
                      /\ \A i \in Lo(fs, k)..fs[k].upTo :
                           WindowOf(s, t[i].ts) = WindowOf(s, t[fs[k].upTo].ts)
                      /\ \A i \in (fs[k].upTo + 1)..Len(t) : t[i].ts >= fs[k].bar.ts
  BY <1>1, <1>2 DEF Parted
<1>10. CASE k \in 1..Len(es)
  BY <1>4, <1>5, <1>10 DEF Parted
<1>11. CASE k = Len(es) + 1
  <2>1. fs[k] = e /\ fs[k].upTo = Len(t) /\ fs[k].bar.ts = x.ts /\ Lo(fs, k) = Lo(es, Len(es) + 1)
    BY <1>3, <1>4, <1>5, <1>11
  <2>2. (Len(t) + 1)..Len(t) = {}
    BY <1>6
  <2>3. QED BY <1>7, <1>8, <2>1, <2>2
<1>12. QED BY <1>4, <1>10, <1>11

\* Later records are of later windows.
LEMMA LaterWindow ==
  ASSUME NEW s \in Specs, s.unit \in Timed, NEW ts \in Int, NEW later \in Int, ts <= later,
         WindowOf(s, ts) # WindowOf(s, later)
  PROVE  later >= WindowEnd(s, WindowOf(s, ts))
<1>1. PICK w, v \in Int : w = WindowOf(s, ts) /\ v = WindowOf(s, later)
  BY WindowsAreInt
<1>2. ~(v < w)
  <2>1. SUFFICES ASSUME v < w PROVE FALSE
    OBVIOUS
  <2>2. PICK e \in Int : e = WindowEnd(s, v)
    BY WindowsAreInt
  <2>3. later < e /\ ~(ts < e)
    <3>1. (later < e <=> v <= v) /\ (ts < e <=> w <= v)
      BY <1>1, <2>2, WindowsEnd
    <3>2. QED BY <1>1, <2>1, <3>1
  <2>4. QED BY <2>3
<1>3. PICK e \in Int : e = WindowEnd(s, w)
  BY <1>1, WindowsAreInt
<1>4. later < e <=> v <= w
  BY <1>1, <1>3, WindowsEnd
<1>5. QED BY <1>1, <1>2, <1>3, <1>4

\* A builder of windows in the middle of a tape in time order.
LEMMA TimePartsOn ==
  ASSUME NEW s \in Specs, s.unit \in Timed, NEW t \in Seq(Rec), NEW rec \in Rec, NEW b, NEW es,
         DOMAIN b = Slots, Dated(b), Whole(t, b.partial, es),
         Parted(s, t, es), Opened(s, t, b, es), t # <<>> => t[Len(t)].ts <= rec.ts,
         NEW r, r = TimePush(s, b, rec), NEW fs, fs = es \o Entries(r.out, Len(t))
  PROVE  Parted(s, Append(t, rec), fs) /\ Opened(s, Append(t, rec), r.next, fs)
<1>1. PICK u : u = Append(t, rec)
  OBVIOUS
<1>2. /\ u \in Seq(Rec) /\ Len(u) = Len(t) + 1 /\ u[Len(t) + 1] = rec /\ Len(t) \in Nat /\ u # <<>>
      /\ \A i \in 1..Len(t) : u[i] = t[i]
  BY <1>1
<1>3. PICK w \in Int : w = WindowOf(s, rec.ts)
  BY RecFields, WindowsAreInt
<1>4. w # None /\ es \in Seq(EntryShape)
  BY BarsAssumption DEF Whole
<1>5. r.next.partial # None /\ r.next.window = w
  <2>1. CASE b.window = w
    <3>1. PICK p : p = Absorb(b.partial, rec)
      OBVIOUS
    <3>2. r.next = [b EXCEPT !.partial = p]
      BY <1>3, <2>1, <3>1 DEF TimePush
    <3>3. r.next.partial = p /\ r.next.window = w
      BY <2>1, <3>2 DEF Slots
    <3>4. InTime(u, b, r, es)
      BY <1>1, TimeGoesOn
    <3>5. Dated(r.next)
      BY <3>4 DEF InTime
    <3>6. QED BY <1>4, <3>3, <3>5 DEF Dated
  <2>2. CASE b.window # w
    <3>1. PICK q : q = Start(rec)
      OBVIOUS
    <3>2. r.next = [b EXCEPT !.window = w, !.partial = q]
      BY <1>3, <2>2, <3>1 DEF TimePush
    <3>3. r.next.partial = q /\ r.next.window = w
      BY <3>2 DEF Slots
    <3>4. InTime(u, b, r, es)
      BY <1>1, TimeGoesOn
    <3>5. Dated(r.next)
      BY <3>4 DEF InTime
    <3>6. QED BY <1>4, <3>3, <3>5 DEF Dated
  <2>3. QED BY <2>1, <2>2
<1>6. CASE b.window = w
  <2>1. b.partial # None
    BY <1>4, <1>6 DEF Dated
  <2>2. fs = es
    <3>1. PICK o : o = r.out
      OBVIOUS
    <3>2. o = <<>>
      BY <1>3, <1>6, <3>1 DEF TimePush
    <3>3. es \o Entries(o, Len(t)) = es
      BY <1>4, <3>2, NoEntry
    <3>4. QED BY <3>1, <3>3
  <2>3. Len(t) \in 1..Len(t) /\ Lo(es, Len(es) + 1) \in 1..Len(t)
    BY <2>1, SomethingBehind
  <2>4. Parted(s, u, es)
    BY <1>1, <2>1, <2>3, PartedStays
  <2>5. \A i \in Lo(es, Len(es) + 1)..Len(u) : WindowOf(s, u[i].ts) = w
    <3>1. \A i \in Lo(es, Len(es) + 1)..Len(u) :
            i = Len(t) + 1 \/ (i \in Lo(es, Len(es) + 1)..Len(t) /\ i \in 1..Len(t))
      BY <1>2, <2>3
    <3>2. \A i \in Lo(es, Len(es) + 1)..Len(t) : WindowOf(s, t[i].ts) = w
      BY <1>6 DEF Opened
    <3>3. QED BY <1>2, <1>3, <3>1, <3>2
  <2>6. QED BY <1>1, <1>5, <2>2, <2>4, <2>5 DEF Opened
<1>7. CASE b.window # w /\ b.partial = None
  <2>1. t = <<>> /\ Len(t) = 0
    BY <1>7 DEF Opened
  <2>2. es = <<>> /\ Len(es) = 0
    <3>1. \A k \in 1..Len(es) : Lo(es, k) \in 1..0
      BY <2>1 DEF Whole
    <3>2. Len(es) = 0
      BY <1>4, <3>1
    <3>3. QED BY <1>4, <3>2
  <2>3. fs = es
    <3>1. PICK o : o = r.out
      OBVIOUS
    <3>2. o = <<>>
      BY <1>3, <1>7, <3>1 DEF TimePush
    <3>3. es \o Entries(o, Len(t)) = es
      BY <1>4, <3>2, NoEntry
    <3>4. QED BY <3>1, <3>3
  <2>4. Parted(s, u, es)
    BY <2>2 DEF Parted
  <2>5. \A i \in Lo(es, Len(es) + 1)..Len(u) : WindowOf(s, u[i].ts) = w
    <3>1. Lo(es, Len(es) + 1) = 1 /\ Len(u) = 1 /\ u[1] = rec
      BY <1>2, <2>1, <2>2 DEF Lo
    <3>2. QED BY <1>3, <3>1
  <2>6. QED BY <1>1, <1>5, <2>3, <2>4, <2>5 DEF Opened
<1>8. CASE b.window # w /\ b.partial # None
  <2>1. b.window \in Int
    BY <1>8 DEF Dated
  <2>2. PICK e \in Int : e = WindowEnd(s, b.window)
    BY <2>1, WindowsAreInt
  <2>3. PICK x : x = Stamped(b.partial, e)
    OBVIOUS
  <2>4. Len(t) \in 1..Len(t) /\ Lo(es, Len(es) + 1) \in 1..Len(t)
        /\ \A k \in 1..Len(es) : es[k].upTo \in 1..(Len(t) - 1)
    BY <1>8, SomethingBehind
  <2>5. x \in BarRecord /\ Bared(x) = b.partial /\ x.ts = e
    <3>1. Digests(t, Lo(es, Len(es) + 1), Len(t), b.partial) /\ Len(t) \in Lo(es, Len(es) + 1)..Len(t)
      BY <1>8, <2>4 DEF Whole
    <3>2. x \in BarRecord /\ Bared(x) = b.partial
      BY <2>3, <2>4, <3>1, PartialIsSome
    <3>3. QED BY <2>3, <3>2 DEF Stamped
  <2>6. PICK n : n = [bar |-> x, upTo |-> Len(t)]
    OBVIOUS
  <2>7. n \in EntryShape /\ n.bar = x /\ n.upTo = Len(t)
    BY <2>5, <2>6 DEF EntryShape
  <2>8. fs = Append(es, n)
    <3>1. PICK o : o = r.out
      OBVIOUS
    <3>2. o = <<x>>
      BY <1>3, <1>8, <2>2, <2>3, <3>1 DEF TimePush
    <3>3. es \o Entries(o, Len(t)) = Append(es, n)
      BY <1>4, <2>5, <2>6, <3>2, OneEntry
    <3>4. QED BY <3>1, <3>3
  <2>9. Parted(s, t, fs)
    BY <1>8, <2>2, <2>5, <2>6, <2>8, PartedEmits
  <2>10. /\ Len(fs) = Len(es) + 1 /\ fs[Len(es) + 1] = n /\ Len(es) \in Nat
         /\ \A k \in 1..Len(es) : fs[k] = es[k]
    BY <1>4, <2>7, <2>8
  <2>11. Lo(fs, Len(fs) + 1) = Len(t) + 1
    BY <2>7, <2>10 DEF Lo
  <2>12. WindowOf(s, t[Len(t)].ts) = b.window
    <3>1. Len(t) \in Lo(es, Len(es) + 1)..Len(t)
      BY <2>4
    <3>2. QED BY <3>1 DEF Opened
  <2>13. t[Len(t)].ts \in Int /\ rec.ts \in Int /\ t[Len(t)].ts <= rec.ts
    BY <2>4, RecFields
  <2>14. rec.ts >= e
    BY <1>3, <1>8, <2>2, <2>12, <2>13, LaterWindow
  <2>15. ASSUME NEW k \in 1..Len(fs)
         PROVE  /\ fs[k].bar.ts = WindowEnd(s, WindowOf(s, u[fs[k].upTo].ts))
                /\ \A i \in Lo(fs, k)..fs[k].upTo :
                     WindowOf(s, u[i].ts) = WindowOf(s, u[fs[k].upTo].ts)
                /\ \A i \in (fs[k].upTo + 1)..Len(u) : u[i].ts >= fs[k].bar.ts
    <3>1. fs[k].upTo \in 1..Len(t) /\ Lo(fs, k) \in 1..Len(t)
      <4>1. CASE k \in 1..Len(es)
        <5>1. Lo(fs, k) = Lo(es, k)
          BY <1>4, <2>10, <4>1 DEF Lo
        <5>2. Lo(es, k) \in 1..Len(t)
          BY <4>1 DEF Whole
        <5>3. QED BY <2>4, <2>10, <4>1, <5>1, <5>2
      <4>2. CASE k = Len(es) + 1
        <5>1. Lo(fs, k) = Lo(es, k)
          BY <1>4, <2>10, <4>2 DEF Lo
        <5>2. QED BY <2>4, <2>7, <2>10, <4>2, <5>1
      <4>3. QED BY <2>10, <4>1, <4>2
    <3>2. PICK v : v = WindowOf(s, t[fs[k].upTo].ts)
      OBVIOUS
    <3>3. /\ fs[k].bar.ts = WindowEnd(s, v)
          /\ \A i \in Lo(fs, k)..fs[k].upTo : WindowOf(s, t[i].ts) = v
          /\ \A i \in (fs[k].upTo + 1)..Len(t) : t[i].ts >= fs[k].bar.ts
      BY <2>9, <3>2 DEF Parted
    <3>4. u[fs[k].upTo] = t[fs[k].upTo]
      BY <1>2, <3>1
    <3>5. \A i \in Lo(fs, k)..fs[k].upTo : WindowOf(s, u[i].ts) = v
      <4>1. \A i \in Lo(fs, k)..fs[k].upTo : i \in 1..Len(t)
        BY <3>1
      <4>2. QED BY <1>2, <3>3, <4>1
    <3>6. rec.ts >= fs[k].bar.ts
      <4>1. CASE k \in 1..Len(es)
        <5>1. fs[k].upTo \in 1..(Len(t) - 1)
          BY <2>4, <2>10, <4>1
        <5>2. Len(t) \in (fs[k].upTo + 1)..Len(t)
          BY <2>4, <5>1
        <5>3. t[Len(t)].ts >= fs[k].bar.ts
          BY <3>3, <5>2
        <5>4. fs[k].bar.ts \in Int
          <6>1. t[fs[k].upTo] \in Rec
            BY <3>1
          <6>2. v \in Int
            BY <3>2, <6>1, RecFields, WindowsAreInt
          <6>3. QED BY <3>3, <6>2, WindowsAreInt
        <5>5. QED BY <2>13, <5>3, <5>4
      <4>2. CASE k = Len(es) + 1
        BY <2>5, <2>7, <2>10, <2>14, <4>2
      <4>3. QED BY <2>10, <4>1, <4>2
    <3>7. \A i \in (fs[k].upTo + 1)..Len(u) :
            i = Len(t) + 1 \/ (i \in (fs[k].upTo + 1)..Len(t) /\ i \in 1..Len(t))
      BY <1>2, <3>1
    <3>8. \A i \in (fs[k].upTo + 1)..Len(u) : u[i].ts >= fs[k].bar.ts
      BY <1>2, <3>3, <3>6, <3>7
    <3>9. QED BY <3>2, <3>3, <3>4, <3>5, <3>8
  <2>16. Parted(s, u, fs)
    BY <2>15 DEF Parted
  <2>17. \A i \in Lo(fs, Len(fs) + 1)..Len(u) : WindowOf(s, u[i].ts) = w
    <3>1. \A i \in (Len(t) + 1)..Len(u) : u[i] = rec
      BY <1>2
    <3>2. QED BY <1>3, <2>11, <3>1
  <2>18. QED BY <1>1, <1>2, <1>5, <2>16, <2>17 DEF Opened
<1>9. QED BY <1>6, <1>7, <1>8

\* The tape is in time order and no bar of time looks ahead of it.
TimeHolds ==
  /\ BarsHold /\ InOrder(tape)
  /\ \A s \in Specs : s.unit \in Timed =>
       /\ Parted(s, tape, emitted[s])
       /\ ~flushed => Opened(s, tape, builder[s], emitted[s])

\* Nothing looks ahead of the empty tape.
LEMMA TimeBegins == BarsInit => TimeHolds
<1> SUFFICES ASSUME BarsInit PROVE TimeHolds
  OBVIOUS
<1>1. tape = <<>> /\ Len(tape) = 0
  BY DEF BarsInit
<1>2. InOrder(tape)
  BY <1>1 DEF InOrder
<1>3. ASSUME NEW s \in Specs
      PROVE  Parted(s, tape, emitted[s]) /\ Opened(s, tape, builder[s], emitted[s])
  <2>1. PICK es : es = emitted[s]
    OBVIOUS
  <2>2. es = <<>> /\ Len(es) = 0
    BY <2>1 DEF BarsInit
  <2>3. Parted(s, tape, es)
    BY <2>2 DEF Parted
  <2>4. Opened(s, tape, builder[s], es)
    <3>1. Lo(es, Len(es) + 1) = 1
      BY <2>2 DEF Lo
    <3>2. QED BY <1>1, <3>1 DEF Opened
  <2>5. QED BY <2>1, <2>3, <2>4
<1>4. QED BY <1>2, <1>3, BarsBegin DEF TimeHolds

\* A record of the feed looks no further.
LEMMA TimePushed ==
  ASSUME TimeHolds, NEW shape \in Feeds[feed], PushRecord(shape)
  PROVE  TimeHolds'
<1>1. PICK rec : rec = [ts |-> Now + shape.gap, open |-> shape.open, high |-> shape.high,
                        low |-> shape.low, close |-> shape.close, volume |-> shape.volume,
                        signed |-> shape.signed]
  OBVIOUS
<1>2. PICK fed : fed = [s \in Specs |-> Fed(s, builder[s], rec)]
  OBVIOUS
<1>3. /\ ~flushed /\ tape' = Append(tape, rec)
      /\ builder' = [s \in Specs |-> fed[s].next]
      /\ emitted' = [s \in Specs |-> emitted[s] \o Entries(fed[s].out, UpTo(s, Len(tape) + 1))]
      /\ feed' = feed /\ flushed' = flushed
  BY <1>1, <1>2 DEF PushRecord
<1>4. BarsHold'
  BY BarsPushed DEF TimeHolds
<1>5. /\ tape \in Seq(Rec) /\ feed \in DOMAIN Feeds /\ InOrder(tape)
      /\ \A s \in Specs : Fits(s, tape, builder[s], emitted[s])
  BY <1>3 DEF TimeHolds, BarsHold
<1>6. rec \in Rec /\ (tape # <<>> => tape[Len(tape)].ts <= rec.ts)
  <2>1. shape \in Shape /\ shape.gap >= 0
    BY <1>5, BarsAssumption, TapeAssumption
  <2>2. CASE tape = <<>>
    <3>1. Now = Epoch /\ Epoch \in Int
      BY <2>2, BarsAssumption DEF Now
    <3>2. QED BY <1>1, <2>1, <2>2, <3>1 DEF Shape, Rec
  <2>3. CASE tape # <<>>
    <3>1. tape[Len(tape)] \in Rec
      BY <1>5, <2>3
    <3>2. PICK now \in Int : now = Now /\ now = tape[Len(tape)].ts
      BY <2>3, <3>1, RecFields DEF Now, Last
    <3>3. rec \in Rec /\ rec.ts = now + shape.gap
      BY <1>1, <2>1, <3>2 DEF Shape, Rec
    <3>4. shape.gap \in Int
      BY <2>1 DEF Shape
    <3>5. QED BY <2>1, <3>2, <3>3, <3>4
  <2>4. QED BY <2>2, <2>3
<1>7. InOrder(tape')
  BY <1>3, <1>5, <1>6, OrderStays
<1>8. ASSUME NEW s \in Specs, s.unit \in Timed
      PROVE  Parted(s, tape', emitted'[s]) /\ Opened(s, tape', builder'[s], emitted'[s])
  <2>1. PICK b : b = builder[s]
    OBVIOUS
  <2>2. PICK es : es = emitted[s]
    OBVIOUS
  <2>3. PICK f : f = Fed(s, b, rec)
    OBVIOUS
  <2>4. PICK r : r = PushInto(s, b, rec)
    OBVIOUS
  <2>5. r = TimePush(s, b, rec)
    BY <1>8, <2>4 DEF PushInto, Timed, Counted, Imbalanced, Running
  <2>6. s.unit # "Renko" /\ UpTo(s, Len(tape) + 1) = Len(tape)
    BY <1>5, <1>8, Kinds DEF UpTo
  <2>7. /\ DOMAIN b = Slots /\ Dated(b) /\ Whole(tape, b.partial, es) /\ b.pending = <<>>
        /\ Parted(s, tape, es) /\ Opened(s, tape, b, es)
    BY <1>3, <1>5, <1>8, <2>1, <2>2, <2>6 DEF Fits, TimeHolds
  <2>8. DOMAIN r.next = Slots /\ r.next.pending = <<>> /\ r.out \in Seq(BarRecord)
    <3>1. InTime(Append(tape, rec), b, r, es)
      BY <1>5, <1>6, <1>8, <2>5, <2>7, TimeGoesOn
    <3>2. QED BY <2>7, <3>1 DEF InTime
  <2>9. Alike(r.next, f.next) /\ f.out = r.out
    BY <2>3, <2>4, <2>8, FedIsPushed
  <2>10. PICK fs : fs = es \o Entries(r.out, Len(tape))
    OBVIOUS
  <2>11. Parted(s, Append(tape, rec), fs) /\ Opened(s, Append(tape, rec), r.next, fs)
    BY <1>5, <1>6, <1>8, <2>5, <2>7, <2>10, TimePartsOn
  <2>12. builder'[s] = f.next /\ emitted'[s] = fs
    BY <1>2, <1>3, <2>1, <2>2, <2>3, <2>6, <2>9, <2>10
  <2>13. Opened(s, Append(tape, rec), f.next, fs)
    BY <2>9, <2>11 DEF Alike, Opened
  <2>14. QED BY <1>3, <2>11, <2>12, <2>13
<1>9. QED BY <1>3, <1>4, <1>7, <1>8 DEF TimeHolds

\* Nor does the end of the tape.
LEMMA TimeFlushed ==
  ASSUME TimeHolds, Flush
  PROVE  TimeHolds'
<1>1. /\ ~flushed /\ flushed' = TRUE /\ feed' = feed /\ tape' = tape
      /\ emitted' = [s \in Specs |-> emitted[s] \o Entries(Flushed(s, builder[s]), Len(tape))]
  BY DEF Flush
<1>2. BarsHold'
  BY BarsFlushed DEF TimeHolds
<1>3. /\ tape \in Seq(Rec) /\ InOrder(tape) /\ \A s \in Specs : Fits(s, tape, builder[s], emitted[s])
  BY <1>1 DEF TimeHolds, BarsHold
<1>4. ASSUME NEW s \in Specs, s.unit \in Timed
      PROVE  Parted(s, tape, emitted'[s])
  <2>1. PICK b : b = builder[s]
    OBVIOUS
  <2>2. PICK es : es = emitted[s]
    OBVIOUS
  <2>3. s.unit # "Renko"
    BY <1>4, Kinds
  <2>4. /\ Dated(b) /\ Whole(tape, b.partial, es) /\ es \in Seq(EntryShape)
        /\ Parted(s, tape, es) /\ Opened(s, tape, b, es)
    BY <1>1, <1>3, <1>4, <2>1, <2>2, <2>3 DEF Fits, TimeHolds, Whole
  <2>5. PICK o : o = Flushed(s, b)
    OBVIOUS
  <2>6. emitted'[s] = es \o Entries(o, Len(tape))
    BY <1>1, <2>1, <2>2, <2>5
  <2>7. CASE b.partial = None
    <3>1. o = <<>>
      BY <2>3, <2>5, <2>7 DEF Flushed
    <3>2. es \o Entries(o, Len(tape)) = es
      BY <2>4, <3>1, NoEntry
    <3>3. QED BY <2>4, <2>6, <3>2
  <2>8. CASE b.partial # None
    <3>1. b.window \in Int
      BY <2>4, <2>8 DEF Dated
    <3>2. PICK e \in Int : e = WindowEnd(s, b.window)
      BY <1>4, <3>1, WindowsAreInt
    <3>3. PICK x : x = Stamped(b.partial, e)
      OBVIOUS
    <3>4. o = <<x>>
      BY <1>4, <2>3, <2>5, <2>8, <3>2, <3>3 DEF Flushed
    <3>5. x \in BarRecord /\ x.ts = e
      <4>1. Lo(es, Len(es) + 1) \in 1..Len(tape) /\ Len(tape) \in Lo(es, Len(es) + 1)..Len(tape)
            /\ Digests(tape, Lo(es, Len(es) + 1), Len(tape), b.partial)
        BY <2>4, <2>8 DEF Whole
      <4>2. x \in BarRecord
        BY <1>3, <3>3, <4>1, PartialIsSome
      <4>3. QED BY <3>3, <4>2 DEF Stamped
    <3>6. Parted(s, tape, Append(es, [bar |-> x, upTo |-> Len(tape)]))
      BY <1>3, <1>4, <2>4, <2>8, <3>2, <3>5, PartedEmits
    <3>7. es \o Entries(o, Len(tape)) = Append(es, [bar |-> x, upTo |-> Len(tape)])
      BY <2>4, <3>4, <3>5, OneEntry
    <3>8. QED BY <2>6, <3>6, <3>7
  <2>9. QED BY <2>7, <2>8
<1>5. InOrder(tape')
  BY <1>1, <1>3
<1>6. QED BY <1>1, <1>2, <1>4, <1>5 DEF TimeHolds

\* Parted bars look back.
LEMMA PartedLooksBack == TimeHolds => NoBarLooksAhead
<1> SUFFICES ASSUME TimeHolds PROVE NoBarLooksAhead
  OBVIOUS
<1>1. tape \in Seq(Rec)
  BY DEF TimeHolds, BarsHold
<1>2. SUFFICES ASSUME NEW s \in Specs, s.unit \in Timed, NEW k \in DOMAIN emitted[s]
               PROVE  LET e == emitted[s][k] IN
                      /\ \A i \in From(s, k)..e.upTo :
                           tape[i].ts < e.bar.ts /\ Window(s, tape[i].ts) = Window(s, tape[e.upTo].ts)
                      /\ \A i \in (e.upTo + 1)..Len(tape) : tape[i].ts >= e.bar.ts
  BY DEF NoBarLooksAhead
<1>3. PICK es : es = emitted[s]
  OBVIOUS
<1>4. PICK p : p = builder[s].partial
  OBVIOUS
<1>5. Whole(tape, p, es) /\ Parted(s, tape, es)
  <2>1. s.unit # "Renko"
    BY <1>2, Kinds
  <2>2. QED BY <1>2, <1>3, <1>4, <2>1 DEF TimeHolds, BarsHold, Fits, Ended
<1>6. k \in 1..Len(es) /\ From(s, k) = Lo(es, k)
  BY <1>2, <1>3, <1>5 DEF Whole, From, Lo
<1>7. Lo(es, k) \in 1..Len(tape) /\ es[k].upTo \in Lo(es, k)..Len(tape)
  BY <1>5, <1>6 DEF Whole
<1>8. PICK w : w = WindowOf(s, tape[es[k].upTo].ts)
  OBVIOUS
<1>9. /\ es[k].bar.ts = WindowEnd(s, w)
      /\ \A i \in Lo(es, k)..es[k].upTo : WindowOf(s, tape[i].ts) = w
      /\ \A i \in (es[k].upTo + 1)..Len(tape) : tape[i].ts >= es[k].bar.ts
  BY <1>5, <1>6, <1>8 DEF Parted
<1>10. \A i \in 1..Len(tape) : tape[i].ts \in Int
  BY <1>1, RecFields
<1>11. es[k].upTo \in 1..Len(tape) /\ w \in Int
  BY <1>2, <1>7, <1>8, <1>10, WindowsAreInt
<1>12. Window(s, tape[es[k].upTo].ts) = w
  BY <1>2, <1>8, <1>10, <1>11, WindowsEnd
<1>13. ASSUME NEW i \in Lo(es, k)..es[k].upTo
       PROVE  tape[i].ts < es[k].bar.ts /\ Window(s, tape[i].ts) = w
  <2>1. i \in 1..Len(tape) /\ WindowOf(s, tape[i].ts) = w
    BY <1>7, <1>9
  <2>2. PICK ts \in Int : ts = tape[i].ts
    BY <1>10, <2>1
  <2>3. Window(s, ts) = w /\ (ts < WindowEnd(s, w) <=> w <= w)
    BY <1>2, <1>11, <2>1, <2>2, WindowsEnd
  <2>4. QED BY <1>9, <1>11, <2>2, <2>3
<1>14. QED BY <1>3, <1>6, <1>9, <1>12, <1>13

\* No bar of time looks ahead: it holds what happened in one window of the civil
\* calendar and before its stamp, and whatever comes behind it is not before
\* that, for every tape in time order, offset, day length and multiple of the
\* unit (TimeBarBuilder::push, window_of, window_end, civil_from_days).
THEOREM BarsLookBack == BarsInit /\ [][BarsNext]_barVars => []NoBarLooksAhead
<1>1. TimeHolds /\ [BarsNext]_barVars => TimeHolds'
  <2>1. SUFFICES ASSUME TimeHolds, [BarsNext]_barVars PROVE TimeHolds'
    OBVIOUS
  <2>2. CASE \E shape \in Feeds[feed] : PushRecord(shape)
    BY <2>1, <2>2, TimePushed
  <2>3. CASE Flush
    BY <2>1, <2>3, TimeFlushed
  <2>4. CASE UNCHANGED barVars
    <3>1. BarsHold'
      BY <2>1, <2>4 DEF TimeHolds, BarsHold, barVars
    <3>2. QED BY <2>1, <2>4, <3>1 DEF TimeHolds, InOrder, barVars
  <2>5. QED BY <2>1, <2>2, <2>3, <2>4 DEF BarsNext
<1>2. QED BY <1>1, TimeBegins, PartedLooksBack, PTL
=============================================================================
