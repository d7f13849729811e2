--------------------------- MODULE FirmwareProofs ---------------------------
(***************************************************************************)
(* Proofs about the two ends of the firmware: the sensor's main loop and   *)
(* the MAC's timers, for tick counts of any width, and the radio driver.   *)
(***************************************************************************)
EXTENDS SensorMain, Si443xPhy, TLAPS

----------------------------------------------------------------------------
(* The inductive invariant. *)

Counts == 0 .. COUNT_MOD - 1

\* Ticks by which the MAC is late; negative when its next tick is to come.
Lag == Signed(timer_tick_count - next_mac_tick)

\* A count that the interrupt has taken d steps on from another.
Apart(a, b, d) == a - b = d \/ a - b = d + COUNT_MOD \/ a - b = d - COUNT_MOD

SensorTypeOK ==
    /\ at \in {"read", "rest", "tick", "post", "phy", "sleep", "asleep"}
    /\ timer_tick_count \in Counts /\ now \in Counts /\ next_mac_tick \in Counts
    /\ ticked \in BOOLEAN
    /\ owed \in 0 .. MaxOwed

\* The bytes read first have just come round.
Round == timer_tick_count % LOW_MOD = 0

\* The next tick is at most as far off as a read in parts can be ahead, and
\* then it is at a multiple of LOW_MOD.  The MAC is late by a tick or two only
\* when a read in parts was behind.
LagInv ==
    /\ Lag >= -LOW_MOD
    /\ Lag >= -1 \/ next_mac_tick % LOW_MOD = 0
    /\ ~ticked => Lag <= 1 /\ (Lag = 1 => LOW_MOD # 1 /\ Round)
    /\ ticked => Lag <= 2 /\ (Lag = 2 => LOW_MOD # 1 /\ ~Round)
    /\ at \in {"post", "phy", "sleep"} => IF ticked THEN Lag <= 1 /\ (Lag = 1 => LOW_MOD # 1 /\ Round)
                                          ELSE Lag <= -1

\* Every tick the MAC is late by has had its interrupt.
OwedInv == (Lag >= 0 => owed >= 1) /\ (Lag >= 1 => owed >= 2)

\* What the loop has read: the count, or with an interrupt since the count
\* before it, or parts of both.
ReadInv ==
    /\ at = "rest" =>
          \/ now = timer_tick_count
          \/ /\ ticked /\ Apart(timer_tick_count, now, 1)
             /\ Lag >= 0 \/ (Lag >= 1 - LOW_MOD /\ next_mac_tick % LOW_MOD = 0)
    /\ at = "tick" =>
          \/ now = timer_tick_count
          \/ ticked /\ Apart(timer_tick_count, now, 1)
          \/ /\ ticked /\ Round /\ Lag >= 0
             /\ Apart(timer_tick_count, now, 1 - LOW_MOD) \/ Apart(timer_tick_count, now, LOW_MOD)

LoopInv == SensorTypeOK /\ LagInv /\ OwedInv /\ ReadInv

Timers == [callback : BOOLEAN, expiry : Counts]

\* The ticks left on a timer when the MAC's count is t.
Left(tm, t) == IF tm.callback THEN Signed(tm.expiry - t) ELSE -1

\* A timer that is set is due at a tick to come.
TimerInv ==
    /\ tick_count \in Counts
    /\ timer \in Timers
    /\ timer.callback => Left(timer, tick_count) >= 0

----------------------------------------------------------------------------
(* Arithmetic on counts that wrap. *)

Half == COUNT_MOD \div 2

\* The constants, as the proofs use them.
LEMMA SignedRange ==
    /\ COUNT_MOD \in Nat /\ Half \in Nat /\ COUNT_MOD = 2 * Half
    /\ LOW_MOD \in Nat /\ LOW_MOD >= 1 /\ LOW_MOD + 1 <= Half
    /\ \A d \in Delays : d \in 0 .. Half - 1
<1>1. COUNT_MOD \in Nat /\ COUNT_MOD % 2 = 0
  BY SensorConstants, Zenon
<1>2. Half \in Nat /\ COUNT_MOD = 2 * Half
  BY <1>1 DEF Half
<1>3. LOW_MOD \in Nat /\ LOW_MOD >= 1 /\ LOW_MOD + 1 <= Half
  BY <1>2, SensorConstants DEF Half
<1>. QED
  BY <1>1, <1>2, <1>3, SensorConstants, Zenon DEF Half

\* The signed difference of two counts is how far they are apart.
LEMMA SignedApart ==
    ASSUME NEW a \in Counts, NEW b \in Counts
    PROVE  Signed(a - b) \in Int /\ -Half <= Signed(a - b) /\ Signed(a - b) <= Half - 1
           /\ Apart(a, b, Signed(a - b))
<1>1. a - b \in (-COUNT_MOD) .. (COUNT_MOD - 1)
  BY SignedRange DEF Counts
<1>2. (a - b) % COUNT_MOD = IF a - b >= 0 THEN a - b ELSE a - b + COUNT_MOD
  BY <1>1, SignedRange
<1>3. Signed(a - b) = LET u == IF a - b >= 0 THEN a - b ELSE a - b + COUNT_MOD
                      IN  IF u < Half THEN u ELSE u - COUNT_MOD
  BY <1>2, Zenon DEF Signed, Half
<1>. QED
  BY <1>1, <1>3, SignedRange DEF Apart, Counts

\* And conversely, within half the range.
LEMMA ApartSigned ==
    ASSUME NEW a \in Counts, NEW b \in Counts, NEW d \in Int, -Half <= d, d <= Half - 1, Apart(a, b, d)
    PROVE  Signed(a - b) = d
<1>1. Signed(a - b) \in Int /\ -Half <= Signed(a - b) /\ Signed(a - b) <= Half - 1
      /\ Apart(a, b, Signed(a - b))
  BY SignedApart, Zenon
<1> DEFINE s == Signed(a - b)
<1> HIDE DEF s
<1>2. s \in Int /\ -Half <= s /\ s <= Half - 1 /\ Apart(a, b, s)
  BY <1>1, Zenon DEF s
<1>3. s = d
  BY <1>2, SignedRange DEF Apart, Counts
<1>. QED
  BY <1>3, Zenon DEF s

\* A sum of counts wraps at most once.
LEMMA Wraps ==
    ASSUME NEW n \in Nat \ {0}, NEW x \in 0 .. 2 * n - 1
    PROVE  x % n = IF x < n THEN x ELSE x - n
<1>1. CASE x < n
  BY <1>1
<1>2. CASE x >= n
  BY <1>2
<1>. QED
  BY <1>1, <1>2

\* A count taken on by d.
LEMMA Later ==
    ASSUME NEW a \in Counts, NEW d \in 0 .. Half
    PROVE  (a + d) % COUNT_MOD \in Counts /\ Apart((a + d) % COUNT_MOD, a, d)
<1> DEFINE x == a + d
           y == x % COUNT_MOD
<1>1. x \in 0 .. 2 * COUNT_MOD - 1 /\ COUNT_MOD \in Nat \ {0}
  BY SignedRange DEF Counts
<1>2. a \in Int /\ d \in Int /\ x - d = a
  BY SignedRange DEF Counts
<1> HIDE DEF x
<1>3. y = IF x < COUNT_MOD THEN x ELSE x - COUNT_MOD
  BY <1>1, Wraps, Zenon
<1> HIDE DEF y
<1>4. y \in Counts /\ Apart(y, a, d)
  BY <1>1, <1>2, <1>3, SignedRange DEF Apart, Counts
<1>. QED
  BY <1>4, Zenon DEF x, y

\* The interrupt's step.
LEMMA Successor ==
    ASSUME NEW a \in Counts
    PROVE  (a + 1) % COUNT_MOD \in Counts /\ Apart((a + 1) % COUNT_MOD, a, 1)
<1>1. 1 \in 0 .. Half
  BY SignedRange
<1>. QED
  BY <1>1, Later, Zenon

\* COUNT_MOD is a multiple of LOW_MOD.
LEMMA Rounds == \E k \in Int : COUNT_MOD = LOW_MOD * k
<1>1. COUNT_MOD = LOW_MOD * (COUNT_MOD \div LOW_MOD)
  BY SensorConstants
<1>2. COUNT_MOD \div LOW_MOD \in Int
  BY SensorConstants
<1>. QED
  BY <1>1, <1>2, Zenon

\* No multiple of LOW_MOD lies strictly between two neighbours.
LEMMA NoneBetween ==
    ASSUME NEW k \in Int, NEW d \in Int, d = LOW_MOD * k, -LOW_MOD < d, d < LOW_MOD
    PROVE  d = 0
<1>1. LOW_MOD \in Nat /\ LOW_MOD >= 1
  BY SignedRange, Zenon
<1>2. CASE k >= 1
  <2>1. LOW_MOD * k >= LOW_MOD
    BY <1>1, <1>2
  <2>. QED
    BY <1>1, <2>1
<1>3. CASE k <= -1
  <2>1. LOW_MOD * k <= -LOW_MOD
    BY <1>1, <1>3
  <2>. QED
    BY <1>1, <2>1
<1>4. CASE k = 0
  BY <1>1, <1>4
<1>. QED
  BY <1>2, <1>3, <1>4

\* Nor between two counts that are multiples.
LEMMA Multiples ==
    ASSUME NEW a \in Counts, NEW b \in Counts, a % LOW_MOD = 0, b % LOW_MOD = 0,
           NEW d \in Int, Apart(a, b, d), -LOW_MOD < d, d < LOW_MOD
    PROVE  d = 0
<1>1. LOW_MOD \in Nat /\ LOW_MOD >= 1 /\ a \in Int /\ b \in Int
  BY SignedRange DEF Counts
<1>2. PICK i \in Int : a = LOW_MOD * i
  <2>1. a = LOW_MOD * (a \div LOW_MOD) /\ a \div LOW_MOD \in Int
    BY <1>1
  <2>. QED
    BY <2>1, Zenon
<1>3. PICK j \in Int : b = LOW_MOD * j
  <2>1. b = LOW_MOD * (b \div LOW_MOD) /\ b \div LOW_MOD \in Int
    BY <1>1
  <2>. QED
    BY <2>1, Zenon
<1>4. PICK n \in Int : COUNT_MOD = LOW_MOD * n
  BY Rounds, Zenon
<1>5. CASE a - b = d
  <2>1. d = LOW_MOD * (i - j) /\ i - j \in Int
    BY <1>1, <1>2, <1>3, <1>5
  <2>. QED
    BY <2>1, NoneBetween, Zenon
<1>6. CASE a - b = d + COUNT_MOD
  <2>1. d = LOW_MOD * (i - j - n) /\ i - j - n \in Int
    BY <1>1, <1>2, <1>3, <1>4, <1>6
  <2>. QED
    BY <2>1, NoneBetween, Zenon
<1>7. CASE a - b = d - COUNT_MOD
  <2>1. d = LOW_MOD * (i - j + n) /\ i - j + n \in Int
    BY <1>1, <1>2, <1>3, <1>4, <1>7
  <2>. QED
    BY <2>1, NoneBetween, Zenon
<1>. QED
  BY <1>5, <1>6, <1>7, Zenon DEF Apart

\* The remainder is the only one.
LEMMA Remainder ==
    ASSUME NEW x \in Int, NEW q \in Int, NEW r \in 0 .. LOW_MOD - 1, x = LOW_MOD * q + r
    PROVE  x % LOW_MOD = r
<1>1. LOW_MOD \in Nat /\ LOW_MOD >= 1
  BY SignedRange, Zenon
<1> DEFINE p == x \div LOW_MOD
           s == x % LOW_MOD
<1>2. p \in Int /\ s \in 0 .. LOW_MOD - 1 /\ x = LOW_MOD * p + s
  BY <1>1
<1> HIDE DEF p, s
<1>3. s - r = LOW_MOD * (q - p) /\ q - p \in Int
  BY <1>1, <1>2
<1>4. s - r \in Int /\ -LOW_MOD < s - r /\ s - r < LOW_MOD
  BY <1>1, <1>2
<1>5. s - r = 0
  BY <1>3, <1>4, NoneBetween, Zenon
<1>6. s = r
  BY <1>1, <1>2, <1>5
<1>. QED
  BY <1>6, Zenon DEF s

\* The low part of the count before.
LEMMA LowBefore ==
    ASSUME NEW a \in Counts, NEW b \in Counts, Apart(b, a, 1)
    PROVE  /\ a % LOW_MOD = IF b % LOW_MOD = 0 THEN LOW_MOD - 1 ELSE (b % LOW_MOD) - 1
           /\ b % LOW_MOD # 0 => b = a + 1
<1>1. LOW_MOD \in Nat /\ LOW_MOD >= 1 /\ a \in Int /\ b \in Int
  BY SignedRange DEF Counts
<1> DEFINE j == b \div LOW_MOD
           s == b % LOW_MOD
<1>2. j \in Int /\ s \in 0 .. LOW_MOD - 1 /\ b = LOW_MOD * j + s
  BY <1>1
<1> HIDE DEF j, s
<1>3. PICK n \in Int : COUNT_MOD = LOW_MOD * n
  BY Rounds, Zenon
<1>4. a = b - 1 \/ (b = 0 /\ a = COUNT_MOD - 1)
  BY SignedRange DEF Apart, Counts
<1>5. CASE a = b - 1 /\ s # 0
  <2>1. a = LOW_MOD * j + (s - 1) /\ s - 1 \in 0 .. LOW_MOD - 1
    BY <1>1, <1>2, <1>5
  <2>2. a % LOW_MOD = s - 1
    BY <1>1, <1>2, <2>1, Remainder, Zenon
  <2>. QED
    BY <1>1, <1>5, <2>2 DEF s
<1>6. CASE a = b - 1 /\ s = 0
  <2>1. a = LOW_MOD * (j - 1) + (LOW_MOD - 1) /\ LOW_MOD - 1 \in 0 .. LOW_MOD - 1 /\ j - 1 \in Int
    BY <1>1, <1>2, <1>6
  <2>2. a % LOW_MOD = LOW_MOD - 1
    BY <1>1, <2>1, Remainder, Zenon
  <2>. QED
    BY <1>6, <2>2, Zenon DEF s
<1>7. CASE b = 0 /\ a = COUNT_MOD - 1
  <2>1. a = LOW_MOD * (n - 1) + (LOW_MOD - 1) /\ LOW_MOD - 1 \in 0 .. LOW_MOD - 1 /\ n - 1 \in Int
    BY <1>1, <1>3, <1>7
  <2>2. a % LOW_MOD = LOW_MOD - 1
    BY <1>1, <2>1, Remainder, Zenon
  <2>3. s = 0
    BY <1>1, <1>7 DEF s
  <2>. QED
    BY <2>2, <2>3, Zenon DEF s
<1>. QED
  BY <1>4, <1>5, <1>6, <1>7, Zenon

\* A count that is a multiple of LOW_MOD leaves room for its low part.
LEMMA RoomAbove ==
    ASSUME NEW a \in Counts, a % LOW_MOD = 0
    PROVE  a + LOW_MOD <= COUNT_MOD /\ (a = 0 \/ a >= LOW_MOD)
<1>1. LOW_MOD \in Nat /\ LOW_MOD >= 1 /\ a \in Int /\ 0 <= a /\ a < COUNT_MOD /\ COUNT_MOD \in Int
  BY SignedRange DEF Counts
<1>2. PICK n \in Int : COUNT_MOD = LOW_MOD * n
  BY Rounds, Zenon
<1> DEFINE i == a \div LOW_MOD
<1>3. i \in Int /\ a = LOW_MOD * i
  BY <1>1
<1> HIDE DEF i
<1>4. COUNT_MOD - a = LOW_MOD * (n - i) /\ n - i \in Int
  BY <1>1, <1>2, <1>3
<1>5. ~(COUNT_MOD - a < LOW_MOD)
  <2> SUFFICES ASSUME COUNT_MOD - a < LOW_MOD PROVE FALSE
    BY Zenon
  <2>1. COUNT_MOD - a \in Int /\ -LOW_MOD < COUNT_MOD - a
    BY <1>1
  <2>2. COUNT_MOD - a = 0
    BY <1>4, <2>1, NoneBetween, Zenon
  <2>. QED
    BY <1>1, <2>2
<1>6. a = 0 \/ a >= LOW_MOD
  <2> SUFFICES ASSUME a < LOW_MOD PROVE a = 0
    BY <1>1
  <2>1. -LOW_MOD < a
    BY <1>1
  <2>. QED
    BY <1>1, <1>3, <2>1, NoneBetween, Zenon
<1>. QED
  BY <1>1, <1>5, <1>6

\* Both parts read with no interrupt between.
LEMMA JoinSame ==
    ASSUME NEW a \in Counts
    PROVE  Join(a, a) = a
<1>1. LOW_MOD \in Nat \ {0} /\ a \in Int
  BY SignedRange DEF Counts
<1>2. a % LOW_MOD \in Int
  BY <1>1
<1>. QED
  BY <1>1, <1>2 DEF Join

\* With an interrupt between: one of the two counts, or when the low part has
\* come round, nearly LOW_MOD ahead or LOW_MOD behind.
LEMMA JoinCases ==
    ASSUME NEW a \in Counts, NEW b \in Counts, Apart(b, a, 1), NEW v \in {Join(a, b), Join(b, a)}
    PROVE  /\ v \in Counts
           /\ \/ v = b
              \/ v = a
              \/ b % LOW_MOD = 0 /\ (Apart(b, v, 1 - LOW_MOD) \/ Apart(b, v, LOW_MOD))
<1>1. /\ LOW_MOD \in Nat /\ LOW_MOD >= 1 /\ a \in Int /\ b \in Int /\ COUNT_MOD \in Nat
      /\ 0 <= a /\ a < COUNT_MOD /\ 0 <= b /\ b < COUNT_MOD
  BY SignedRange DEF Counts
<1> DEFINE s == a % LOW_MOD
           t == b % LOW_MOD
<1>2. s \in 0 .. LOW_MOD - 1 /\ t \in 0 .. LOW_MOD - 1
  BY <1>1
<1>3. s = (IF t = 0 THEN LOW_MOD - 1 ELSE t - 1) /\ (t # 0 => b = a + 1)
  BY LowBefore, Zenon
<1>4. v = (b - t) + s \/ v = (a - s) + t
  BY Zenon DEF Join
<1>5. t = 0 => b + LOW_MOD <= COUNT_MOD /\ (b = 0 \/ b >= LOW_MOD)
  BY RoomAbove, Zenon
<1>6. a = b - 1 \/ (b = 0 /\ a = COUNT_MOD - 1)
  BY <1>1 DEF Apart
<1>7. b % LOW_MOD = t
  BY Zenon
<1> HIDE DEF s, t
<1>8. CASE t # 0
  <2>1. v = a \/ v = b
    BY <1>1, <1>2, <1>3, <1>4, <1>8
  <2>. QED
    BY <2>1, Zenon
<1>9. CASE t = 0 /\ v = (b - t) + s
  <2>1. v = b + LOW_MOD - 1 /\ v \in Counts
    BY <1>1, <1>2, <1>3, <1>5, <1>9 DEF Counts
  <2>2. Apart(b, v, 1 - LOW_MOD)
    BY <1>1, <2>1 DEF Apart
  <2>. QED
    BY <1>7, <1>9, <2>1, <2>2, Zenon
<1>10. CASE t = 0 /\ v = (a - s) + t
  <2>1. v = IF b = 0 THEN COUNT_MOD - LOW_MOD ELSE b - LOW_MOD
    BY <1>1, <1>2, <1>3, <1>5, <1>6, <1>10
  <2>2. v \in Counts /\ Apart(b, v, LOW_MOD)
    BY <1>1, <1>5, <1>10, <2>1 DEF Apart, Counts
  <2>. QED
    BY <1>7, <1>10, <2>2, Zenon
<1>. QED
  BY <1>4, <1>8, <1>9, <1>10, Zenon

\* A whole LOW_MOD on from a multiple is another one.
LEMMA NextMultiple ==
    ASSUME NEW a \in Counts, NEW b \in Counts, a % LOW_MOD = 0, Apart(a, b, -LOW_MOD)
    PROVE  b % LOW_MOD = 0
<1>1. LOW_MOD \in Nat /\ LOW_MOD >= 1 /\ a \in Int /\ b \in Int
  BY SignedRange DEF Counts
<1>2. PICK n \in Int : COUNT_MOD = LOW_MOD * n
  BY Rounds, Zenon
<1> DEFINE i == a \div LOW_MOD
<1>3. i \in Int /\ a = LOW_MOD * i
  BY <1>1
<1> HIDE DEF i
<1>4. \E q \in Int : b = LOW_MOD * q + 0
  <2>1. CASE a - b = -LOW_MOD
    <3>1. b = LOW_MOD * (i + 1) + 0 /\ i + 1 \in Int
      BY <1>1, <1>3, <2>1
    <3>. QED
      BY <3>1, Zenon
  <2>2. CASE a - b = -LOW_MOD + COUNT_MOD
    <3>1. b = LOW_MOD * (i + 1 - n) + 0 /\ i + 1 - n \in Int
      BY <1>1, <1>2, <1>3, <2>2
    <3>. QED
      BY <3>1, Zenon
  <2>3. CASE a - b = -LOW_MOD - COUNT_MOD
    <3>1. b = LOW_MOD * (i + 1 + n) + 0 /\ i + 1 + n \in Int
      BY <1>1, <1>2, <1>3, <2>3
    <3>. QED
      BY <3>1, Zenon
  <2>. QED
    BY <2>1, <2>2, <2>3, Zenon DEF Apart
<1>5. 0 \in 0 .. LOW_MOD - 1
  BY <1>1
<1>. QED
  BY <1>1, <1>4, <1>5, Remainder, Zenon

\* Distances add up, from one count to two others.
LEMMA ApartMinus ==
    ASSUME NEW a \in Counts, NEW b \in Counts, NEW c \in Counts, NEW d \in Int, NEW e \in Int,
           Apart(a, b, d), Apart(a, c, e), -COUNT_MOD < d - e, d - e < COUNT_MOD
    PROVE  Apart(c, b, d - e)
  BY SignedRange DEF Apart, Counts

\* And from two counts to one other.
LEMMA ApartBoth ==
    ASSUME NEW a \in Counts, NEW b \in Counts, NEW c \in Counts, NEW d \in Int, NEW e \in Int,
           Apart(a, c, d), Apart(b, c, e), -COUNT_MOD < d - e, d - e < COUNT_MOD
    PROVE  Apart(a, b, d - e)
  BY SignedRange DEF Apart, Counts

\* And in line.
LEMMA ApartPlus ==
    ASSUME NEW a \in Counts, NEW b \in Counts, NEW c \in Counts, NEW d \in Int, NEW e \in Int,
           Apart(a, b, d), Apart(b, c, e), -COUNT_MOD < e + d, e + d < COUNT_MOD
    PROVE  Apart(a, c, e + d)
  BY SignedRange DEF Apart, Counts

----------------------------------------------------------------------------
(* The loop's steps. *)

\* What Lag says.
LEMMA LagFacts ==
    ASSUME SensorTypeOK
    PROVE  /\ Lag \in Int /\ -Half <= Lag /\ Lag <= Half - 1
           /\ Apart(timer_tick_count, next_mac_tick, Lag)
  BY SignedApart, Zenon DEF SensorTypeOK, Lag

\* The tick is due when what was read is not before it.
LEMMA TickDue ==
    ASSUME LoopInv, at = "tick", NEW g \in Int, Apart(timer_tick_count, now, g),
           \/ g = 0
           \/ ticked /\ g = 1
           \/ ticked /\ Round /\ Lag >= 0 /\ (g = 1 - LOW_MOD \/ g = LOW_MOD)
    PROVE  Signed(now - next_mac_tick) = Lag - g
<1>1. /\ Lag \in Int /\ -Half <= Lag /\ Lag <= Half - 1
      /\ Apart(timer_tick_count, next_mac_tick, Lag)
  BY LagFacts, Zenon DEF LoopInv
<1>2. timer_tick_count \in Counts /\ now \in Counts /\ next_mac_tick \in Counts
  BY Zenon DEF LoopInv, SensorTypeOK
<1>3. Lag >= -LOW_MOD /\ Lag <= 2 /\ (Lag = 2 /\ ticked => ~Round) /\ ticked \in BOOLEAN
      /\ (ticked /\ Lag = 2 => LOW_MOD # 1)
  BY <1>1 DEF LoopInv, LagInv, SensorTypeOK
<1> HIDE DEF Lag
<1>4. -Half <= Lag - g /\ Lag - g <= Half - 1 /\ Lag - g \in Int
  BY <1>1, <1>3, SignedRange
<1>5. Apart(now, next_mac_tick, Lag - g)
  <2>1. -COUNT_MOD < Lag - g /\ Lag - g < COUNT_MOD
    BY <1>1, <1>4, SignedRange
  <2>. QED
    BY <1>1, <1>2, <2>1, ApartMinus, Zenon
<1>. QED
  BY <1>2, <1>4, <1>5, ApartSigned, Zenon

\* tinymac_tick_handler is called when it is due.
LEMMA TickInv ==
    ASSUME LoopInv, Tick
    PROVE  LoopInv' /\ (tick_count' # tick_count => owed > 0)
<1>1. at = "tick" /\ at' = "post" /\ UNCHANGED <<timer_tick_count, ticked, now, next_post>>
  BY Zenon DEF Tick, At
<1>2. /\ Lag \in Int /\ -Half <= Lag /\ Lag <= Half - 1
      /\ Apart(timer_tick_count, next_mac_tick, Lag)
  BY LagFacts, Zenon DEF LoopInv
<1>3. /\ timer_tick_count \in Counts /\ now \in Counts /\ next_mac_tick \in Counts
      /\ owed \in 0 .. MaxOwed /\ ticked \in BOOLEAN
  BY Zenon DEF LoopInv, SensorTypeOK
<1>4. /\ Lag >= -LOW_MOD /\ (Lag >= -1 \/ next_mac_tick % LOW_MOD = 0)
      /\ ~ticked => Lag <= 1 /\ (Lag = 1 => LOW_MOD # 1 /\ Round)
      /\ ticked => Lag <= 2 /\ (Lag = 2 => LOW_MOD # 1 /\ ~Round)
      /\ Lag >= 0 => owed >= 1
      /\ Lag >= 1 => owed >= 2
  BY Zenon DEF LoopInv, LagInv, OwedInv
<1>5. PICK g \in {0, 1, 1 - LOW_MOD, LOW_MOD} :
         /\ Apart(timer_tick_count, now, g)
         /\ \/ g = 0
            \/ ticked /\ g = 1
            \/ ticked /\ Round /\ Lag >= 0 /\ (g = 1 - LOW_MOD \/ g = LOW_MOD)
  <2>1. now = timer_tick_count => Apart(timer_tick_count, now, 0)
    BY <1>3, SignedRange DEF Apart, Counts
  <2>. QED
    BY <1>1, <2>1, Zenon DEF LoopInv, ReadInv
<1>6. g \in Int
  BY SignedRange
<1>7. Signed(now - next_mac_tick) = Lag - g
  BY <1>1, <1>5, <1>6, TickDue, Zenon
<1>8. Round' <=> Round
  BY <1>1, Zenon DEF Round
<1>9. CASE ~(Signed(now - next_mac_tick) >= 0)
  <2>1. UNCHANGED <<next_mac_tick, owed, tick_count>> /\ Lag' = Lag
    BY <1>1, <1>9, Zenon DEF Tick, Lag, mac
  <2>2. Lag < g
    BY <1>2, <1>6, <1>7, <1>9
  <2>3. SensorTypeOK'
    BY <1>1, <2>1, Zenon DEF LoopInv, SensorTypeOK
  <2>4. LagInv'
    <3>1. IF ticked THEN Lag <= 1 /\ (Lag = 1 => LOW_MOD # 1 /\ Round) ELSE Lag <= -1
      BY <1>2, <1>3, <1>4, <1>5, <2>2, SignedRange
    <3>. QED
      BY <1>1, <1>4, <1>8, <2>1, <3>1, Zenon DEF LagInv
  <2>5. OwedInv' /\ ReadInv'
    BY <1>1, <1>4, <2>1, Zenon DEF OwedInv, ReadInv
  <2>. QED
    BY <2>1, <2>3, <2>4, <2>5, Zenon DEF LoopInv
<1>10. CASE Signed(now - next_mac_tick) >= 0
  <2>1. next_mac_tick' = (now + 1) % COUNT_MOD /\ owed' = owed - 1
    BY <1>10, Zenon DEF Tick, MacTick
  <2>2. Lag >= g
    BY <1>2, <1>6, <1>7, <1>10
  <2>3. next_mac_tick' \in Counts /\ Apart(next_mac_tick', now, 1)
    BY <1>3, <2>1, Successor, Zenon
  <2>4. owed >= 1 /\ (g = 1 => owed >= 2) /\ owed \in Nat
    BY <1>2, <1>3, <1>4, <1>5, <2>2, SignedRange DEF MaxOwed
  <2>5. g = LOW_MOD => LOW_MOD = 1
    BY <1>2, <1>4, <1>5, <2>2, SignedRange
  <2>6. g - 1 \in Int /\ -Half <= g - 1 /\ g - 1 <= Half - 1
    BY <1>5, <1>6, SignedRange
  <2>7. Apart(timer_tick_count, next_mac_tick', g - 1)
    <3>1. -COUNT_MOD < g - 1 /\ g - 1 < COUNT_MOD /\ 1 \in Int
      BY <2>6, SignedRange
    <3>. QED
      BY <1>3, <1>5, <1>6, <2>3, <3>1, ApartBoth, Zenon
  <2>8. Lag' = g - 1
    BY <1>1, <1>3, <2>3, <2>6, <2>7, ApartSigned, Zenon DEF Lag
  <2>9. g = 1 - LOW_MOD /\ g # 0 /\ g # 1 => next_mac_tick' % LOW_MOD = 0
    <3> SUFFICES ASSUME g = 1 - LOW_MOD, g # 0, g # 1 PROVE next_mac_tick' % LOW_MOD = 0
      BY Zenon
    <3>1. timer_tick_count % LOW_MOD = 0
      BY <1>5, Zenon DEF Round
    <3>2. Apart(timer_tick_count, next_mac_tick', -LOW_MOD)
      <4>1. g - 1 = -LOW_MOD
        BY SignedRange
      <4>. QED
        BY <2>7, <4>1, Zenon
    <3>. QED
      BY <1>3, <2>3, <3>1, <3>2, NextMultiple, Zenon
  <2>10. SensorTypeOK'
    BY <1>1, <1>3, <2>1, <2>3, <2>4 DEF SensorTypeOK, LoopInv, MaxOwed
  <2>11. LagInv'
    <3>1. Lag' >= -LOW_MOD /\ Lag' <= 0 /\ (Lag' >= -1 \/ next_mac_tick' % LOW_MOD = 0)
          /\ (~ticked => Lag' <= -1)
      BY <1>5, <1>6, <2>5, <2>8, <2>9, SignedRange
    <3>2. Lag' \in Int
      BY <2>6, <2>8, Zenon
    <3>. QED
      BY <1>1, <1>3, <3>1, <3>2 DEF LagInv
  <2>12. OwedInv'
    <3>1. /\ Lag' >= 0 => owed' >= 1
          /\ ~(Lag' >= 1)
      BY <1>5, <1>6, <2>1, <2>4, <2>5, <2>8, SignedRange
    <3>. QED
      BY <3>1, Zenon DEF OwedInv
  <2>13. ReadInv'
    BY <1>1, Zenon DEF ReadInv
  <2>. QED
    BY <2>4, <2>10, <2>11, <2>12, <2>13 DEF LoopInv
<1>. QED
  BY <1>9, <1>10, Zenon

\* now = timer_tick_count, the part read first.
LEMMA ReadKeeps ==
    ASSUME LoopInv, Read
    PROVE  LoopInv' /\ tick_count' = tick_count
<1>1. /\ at' = "rest" /\ now' = timer_tick_count
      /\ UNCHANGED <<timer_tick_count, ticked, next_mac_tick, owed, tick_count>>
  BY Zenon DEF Read, At, mac
<1>2. Lag' = Lag /\ (Round' <=> Round)
  BY <1>1, Zenon DEF Lag, Round
<1>3. SensorTypeOK'
  BY <1>1, Zenon DEF LoopInv, SensorTypeOK
<1>4. LagInv' /\ OwedInv' /\ ReadInv'
  BY <1>1, <1>2, Zenon DEF LoopInv, LagInv, OwedInv, ReadInv
<1>. QED
  BY <1>1, <1>3, <1>4, Zenon DEF LoopInv

\* And the rest of it.
LEMMA ReadRestKeeps ==
    ASSUME LoopInv, ReadRest
    PROVE  LoopInv' /\ tick_count' = tick_count
<1>1. /\ at = "rest" /\ at' = "tick"
      /\ now' \in {Join(now, timer_tick_count), Join(timer_tick_count, now)}
      /\ UNCHANGED <<timer_tick_count, ticked, next_mac_tick, owed, tick_count>>
  BY Zenon DEF ReadRest, At, mac
<1>2. Lag' = Lag /\ (Round' <=> Round)
  BY <1>1, Zenon DEF Lag, Round
<1>3. timer_tick_count \in Counts /\ now \in Counts /\ next_mac_tick \in Counts
  BY Zenon DEF LoopInv, SensorTypeOK
<1>4. LagInv' /\ OwedInv'
  BY <1>1, <1>2, Zenon DEF LoopInv, LagInv, OwedInv
<1>5. CASE now = timer_tick_count
  <2>1. now' = timer_tick_count
    BY <1>1, <1>3, <1>5, JoinSame, Zenon
  <2>2. SensorTypeOK' /\ ReadInv'
    BY <1>1, <1>3, <2>1, Zenon DEF LoopInv, SensorTypeOK, ReadInv
  <2>. QED
    BY <1>1, <1>4, <2>2, Zenon DEF LoopInv
<1>6. CASE /\ ticked /\ Apart(timer_tick_count, now, 1)
           /\ Lag >= 0 \/ (Lag >= 1 - LOW_MOD /\ next_mac_tick % LOW_MOD = 0)
  <2>1. /\ now' \in Counts
        /\ \/ now' = timer_tick_count
           \/ now' = now
           \/ /\ Round
              /\ Apart(timer_tick_count, now', 1 - LOW_MOD) \/ Apart(timer_tick_count, now', LOW_MOD)
    BY <1>1, <1>3, <1>6, JoinCases, Zenon DEF Round
  <2>2. Round => Lag >= 0
    <3> SUFFICES ASSUME Round, ~(Lag >= 0) PROVE FALSE
      BY Zenon
    <3>1. /\ Lag \in Int /\ Apart(timer_tick_count, next_mac_tick, Lag)
      BY LagFacts, Zenon DEF LoopInv
    <3>2. -LOW_MOD < Lag /\ Lag < LOW_MOD /\ next_mac_tick % LOW_MOD = 0
      BY <1>6, <3>1, SignedRange
    <3>3. Lag = 0
      BY <1>3, <3>1, <3>2, Multiples, Zenon DEF Round
    <3>. QED
      BY <3>3
  <2>3. SensorTypeOK'
    BY <1>1, <1>3, <2>1, Zenon DEF LoopInv, SensorTypeOK
  <2>4. ReadInv'
    BY <1>1, <1>2, <1>6, <2>1, <2>2, Zenon DEF ReadInv
  <2>. QED
    BY <1>1, <1>4, <2>3, <2>4, Zenon DEF LoopInv
<1>. QED
  BY <1>1, <1>5, <1>6, Zenon DEF LoopInv, ReadInv

\* The application, the radio and the radio's interrupt leave the counts alone.
LEMMA OthersKeep ==
    ASSUME LoopInv, Post \/ Phy \/ RadioInterrupt
    PROVE  LoopInv' /\ tick_count' = tick_count
<1>1. /\ UNCHANGED <<timer_tick_count, ticked, now, next_mac_tick, owed, tick_count>>
      /\ \/ at = "post" /\ at' = "phy"
         \/ at = "phy" /\ at' = "sleep"
         \/ at' = IF at = "asleep" THEN "read" ELSE at
  BY Zenon DEF Post, Phy, RadioInterrupt, At, Wake, mac
<1>2. Lag' = Lag /\ (Round' <=> Round)
  BY <1>1, Zenon DEF Lag, Round
<1>3. SensorTypeOK'
  BY <1>1, Zenon DEF LoopInv, SensorTypeOK
<1>4. LagInv'
  BY <1>1, <1>2, Zenon DEF LoopInv, LagInv
<1>5. OwedInv'
  BY <1>1, <1>2, Zenon DEF LoopInv, OwedInv
<1>6. ReadInv'
  <2>1. at' \in {"rest", "tick"} => at' = at
    BY <1>1, Zenon
  <2>. QED
    BY <1>1, <1>2, <2>1, Zenon DEF LoopInv, ReadInv
<1>. QED
  BY <1>1, <1>3, <1>4, <1>5, <1>6, Zenon DEF LoopInv

\* The loop sleeps, and a new turn begins.
LEMMA SleepKeeps ==
    ASSUME LoopInv, Sleep
    PROVE  LoopInv' /\ tick_count' = tick_count
<1>1. /\ UNCHANGED <<timer_tick_count, now, next_mac_tick, owed, tick_count>>
      /\ at = "sleep" /\ at' \in {"read", "asleep"} /\ ticked' = FALSE
  BY Zenon DEF Sleep, At, mac
<1>2. Lag' = Lag /\ (Round' <=> Round)
  BY <1>1, Zenon DEF Lag, Round
<1>3. SensorTypeOK'
  BY <1>1, Zenon DEF LoopInv, SensorTypeOK
<1>4. LagInv'
  <2>1. Lag \in Int
    BY LagFacts, Zenon DEF LoopInv
  <2>2. Lag <= 1 /\ (Lag = 1 => LOW_MOD # 1 /\ Round)
    BY <1>1, <2>1, Zenon DEF LoopInv, LagInv, SensorTypeOK
  <2>. QED
    BY <1>1, <1>2, <2>2, Zenon DEF LoopInv, LagInv
<1>5. OwedInv' /\ ReadInv'
  BY <1>1, <1>2, Zenon DEF LoopInv, OwedInv, ReadInv
<1>. QED
  BY <1>1, <1>3, <1>4, <1>5, Zenon DEF LoopInv

\* The timer's interrupt, once in a turn of the loop.
LEMMA InterruptKeeps ==
    ASSUME LoopInv, TimerInterrupt
    PROVE  LoopInv' /\ tick_count' = tick_count
<1>1. /\ ~ticked /\ ticked' = TRUE
      /\ timer_tick_count' = (timer_tick_count + 1) % COUNT_MOD
      /\ owed' = IF owed < MaxOwed THEN owed + 1 ELSE owed
      /\ at' = IF at = "asleep" THEN "read" ELSE at
      /\ UNCHANGED <<now, next_mac_tick, tick_count>>
  BY Zenon DEF TimerInterrupt, Wake, mac
<1>2. /\ timer_tick_count \in Counts /\ now \in Counts /\ next_mac_tick \in Counts
      /\ owed \in 0 .. MaxOwed
  BY Zenon DEF LoopInv, SensorTypeOK
<1>3. timer_tick_count' \in Counts /\ Apart(timer_tick_count', timer_tick_count, 1)
  BY <1>1, <1>2, Successor, Zenon
<1>4. /\ Lag \in Int /\ -Half <= Lag /\ Lag <= Half - 1
      /\ Apart(timer_tick_count, next_mac_tick, Lag)
  BY LagFacts, Zenon DEF LoopInv
<1>5. /\ Lag >= -LOW_MOD /\ (Lag >= -1 \/ next_mac_tick % LOW_MOD = 0)
      /\ Lag <= 1 /\ (Lag = 1 => LOW_MOD # 1 /\ Round)
      /\ Lag >= 0 => owed >= 1
      /\ at \in {"post", "phy", "sleep"} => Lag <= -1
  BY <1>1, Zenon DEF LoopInv, LagInv, OwedInv
<1> HIDE DEF Lag
<1>6. Lag' = Lag + 1
  <2>1. Lag + 1 \in Int /\ -Half <= Lag + 1 /\ Lag + 1 <= Half - 1
    BY <1>4, <1>5, SignedRange
  <2>2. Apart(timer_tick_count', next_mac_tick, Lag + 1)
    <3>1. -COUNT_MOD < Lag + 1 /\ Lag + 1 < COUNT_MOD /\ 1 \in Int
      BY <2>1, SignedRange
    <3>. QED
      BY <1>2, <1>3, <1>4, <3>1, ApartPlus, Zenon
  <2>. QED
    BY <1>1, <1>2, <1>3, <2>1, <2>2, ApartSigned, Zenon DEF Lag
<1>7. Lag = 1 => ~Round'
  <2> SUFFICES ASSUME Lag = 1, Round' PROVE FALSE
    BY Zenon
  <2>1. timer_tick_count % LOW_MOD = 0 /\ timer_tick_count' % LOW_MOD = 0 /\ LOW_MOD # 1
    BY <1>5, Zenon DEF Round
  <2>2. timer_tick_count % LOW_MOD = LOW_MOD - 1
    BY <1>2, <1>3, <2>1, LowBefore, Zenon
  <2>. QED
    BY <2>1, <2>2, SignedRange
<1>8. SensorTypeOK'
  BY <1>1, <1>2, <1>3 DEF LoopInv, SensorTypeOK, MaxOwed
<1>9. LagInv'
  <2>1. /\ Lag' >= -LOW_MOD /\ (Lag' >= -1 \/ next_mac_tick' % LOW_MOD = 0)
        /\ Lag' <= 2 /\ (Lag' = 2 => LOW_MOD # 1 /\ ~Round')
    BY <1>1, <1>4, <1>5, <1>6, <1>7, SignedRange
  <2>2. at' \in {"post", "phy", "sleep"} => Lag' <= 0
    BY <1>1, <1>4, <1>5, <1>6
  <2>3. Lag' \in Int
    BY <1>4, <1>6
  <2>. QED
    BY <1>1, <2>1, <2>2, <2>3 DEF LagInv
<1>10. OwedInv'
  BY <1>1, <1>2, <1>4, <1>5, <1>6 DEF OwedInv, MaxOwed
<1>11. ReadInv'
  <2> SUFFICES ASSUME at' \in {"rest", "tick"}
               PROVE  /\ Apart(timer_tick_count', now', 1)
                      /\ Lag' >= 0 \/ (Lag' >= 1 - LOW_MOD /\ next_mac_tick' % LOW_MOD = 0)
    BY <1>1, Zenon DEF ReadInv
  <2>1. now = timer_tick_count
    BY <1>1, Zenon DEF LoopInv, ReadInv
  <2>2. Lag' >= 0 \/ (Lag' >= 1 - LOW_MOD /\ next_mac_tick' % LOW_MOD = 0)
    BY <1>1, <1>4, <1>5, <1>6, SignedRange
  <2>. QED
    BY <1>1, <1>3, <2>1, <2>2, Zenon
<1>. QED
  BY <1>1, <1>8, <1>9, <1>10, <1>11, Zenon DEF LoopInv

\* At the start the MAC's first tick is due.
LEMMA LoopInit == SensorInit => LoopInv
<1> SUFFICES ASSUME SensorInit PROVE LoopInv
  BY Zenon
<1>1. 0 \in Counts /\ 0 \in Int /\ -Half <= 0 /\ 0 <= Half - 1
  BY SignedRange DEF Counts
<1>2. Lag = 0
  <2>1. /\ timer_tick_count \in Counts /\ next_mac_tick \in Counts
        /\ Apart(timer_tick_count, next_mac_tick, 0)
    BY <1>1 DEF SensorInit, Apart
  <2>. QED
    BY <1>1, <2>1, ApartSigned, Zenon DEF Lag
<1>3. SensorTypeOK
  <2>1. owed \in 0 .. MaxOwed
    BY DEF SensorInit, MaxOwed
  <2>. QED
    BY <1>1, <2>1, Zenon DEF SensorInit, SensorTypeOK
<1>4. LagInv
  BY <1>2, SignedRange DEF SensorInit, LagInv
<1>5. OwedInv /\ ReadInv
  BY <1>2 DEF SensorInit, OwedInv, ReadInv
<1>. QED
  BY <1>3, <1>4, <1>5, Zenon DEF LoopInv

\* Every step of the loop and of the interrupts, and no tick without its
\* interrupt.
LEMMA LoopStep ==
    ASSUME LoopInv, [SensorNext]_sensorvars
    PROVE  LoopInv' /\ (tick_count' # tick_count => owed > 0)
<1>1. CASE Read
  BY <1>1, ReadKeeps, Zenon
<1>2. CASE ReadRest
  BY <1>2, ReadRestKeeps, Zenon
<1>3. CASE Tick
  BY <1>3, TickInv, Zenon
<1>4. CASE Post \/ Phy \/ RadioInterrupt
  BY <1>4, OthersKeep, Zenon
<1>5. CASE Sleep
  BY <1>5, SleepKeeps, Zenon
<1>6. CASE TimerInterrupt
  BY <1>6, InterruptKeeps, Zenon
<1>7. CASE UNCHANGED sensorvars
  <2>1. UNCHANGED <<at, timer_tick_count, now, next_mac_tick, ticked, owed, tick_count>>
    BY <1>7, Zenon DEF sensorvars, mac
  <2>2. Lag' = Lag /\ (Round' <=> Round)
    BY <2>1, Zenon DEF Lag, Round
  <2>3. SensorTypeOK'
    BY <2>1, Zenon DEF LoopInv, SensorTypeOK
  <2>4. LagInv'
    BY <2>1, <2>2, Zenon DEF LoopInv, LagInv
  <2>5. OwedInv' /\ ReadInv'
    BY <2>1, <2>2, Zenon DEF LoopInv, OwedInv, ReadInv
  <2>. QED
    BY <2>1, <2>3, <2>4, <2>5, Zenon DEF LoopInv
<1>. QED
  BY <1>1, <1>2, <1>3, <1>4, <1>5, <1>6, <1>7, Zenon DEF SensorNext, Loop

\* MAC time never runs ahead of the timer's interrupts, whatever the width of
\* the count and of the parts that main() reads it in: each call of
\* tinymac_tick_handler has an interrupt of its own.
THEOREM SensorOncePerInterrupt == SensorSpec => OncePerInterrupt
<1>1. SensorSpec => SensorInit /\ [][SensorNext]_sensorvars
  BY PTL DEF SensorSpec
<1>2. SensorInit => LoopInv
  BY LoopInit, Zenon
<1>3. LoopInv /\ [SensorNext]_sensorvars => LoopInv' /\ [tick_count' # tick_count => owed > 0]_sensorvars
  BY LoopStep, Zenon
<1>. QED
  BY <1>1, <1>2, <1>3, PTL DEF OncePerInterrupt

----------------------------------------------------------------------------
(* The MAC's timers are relative timers. *)

\* A timer that tinymac's handlers set has its delay left.
LEMMA SetLeft ==
    ASSUME tick_count \in Counts, NEW d \in Delays
    PROVE  SetTimer(d) \in Timers /\ SetTimer(d).callback /\ Left(SetTimer(d), tick_count) = d
<1>1. d \in 0 .. Half /\ d \in Int /\ -Half <= d /\ d <= Half - 1
  BY SignedRange
<1> DEFINE e == (tick_count + d) % COUNT_MOD
<1>2. e \in Counts /\ Apart(e, tick_count, d)
  BY <1>1, Later, Zenon
<1> HIDE DEF e
<1>3. Signed(e - tick_count) = d
  BY <1>1, <1>2, ApartSigned, Zenon
<1>4. SetTimer(d) = [callback |-> TRUE, expiry |-> e]
  BY Zenon DEF SetTimer, e
<1>. QED
  BY <1>2, <1>3, <1>4 DEF Timers, Left

\* It is despatched when none is left.
LEMMA DueLeft ==
    ASSUME tick_count \in Counts, NEW tm \in Timers, tm.callback => Left(tm, tick_count) >= 0
    PROVE  Due(tm) <=> Left(tm, tick_count) = 0
<1>1. CASE ~tm.callback
  BY <1>1 DEF Due, Left
<1>2. CASE tm.callback
  <2> DEFINE e == tm.expiry
             l == Signed(e - tick_count)
  <2>1. e \in Counts
    BY Zenon DEF Timers
  <2> HIDE DEF e
  <2>2. l \in Int /\ l <= Half - 1 /\ Apart(e, tick_count, l)
    BY <2>1, SignedApart, Zenon
  <2>3. l >= 0
    BY <1>2, Zenon DEF Left, e
  <2>4. Left(tm, tick_count) = l /\ (Due(tm) <=> Signed(tick_count - e) >= 0)
    BY <1>2, Zenon DEF Left, Due, e
  <2> HIDE DEF l
  <2>5. -l \in Int /\ -Half <= -l /\ -l <= Half - 1 /\ Apart(tick_count, e, -l)
    BY <2>1, <2>2, <2>3, SignedRange DEF Apart, Counts
  <2>6. Signed(tick_count - e) = -l
    BY <2>1, <2>5, ApartSigned, Zenon
  <2>. QED
    BY <2>2, <2>3, <2>4, <2>6
<1>. QED
  BY <1>1, <1>2, Zenon

\* A tick leaves one less.
LEMMA LeftAfterTick ==
    ASSUME tick_count \in Counts, NEW tm \in Timers, tm.callback, Left(tm, tick_count) >= 1
    PROVE  Left(tm, (tick_count + 1) % COUNT_MOD) = Left(tm, tick_count) - 1
<1> DEFINE e == tm.expiry
           l == Signed(e - tick_count)
           u == (tick_count + 1) % COUNT_MOD
<1>1. e \in Counts
  BY Zenon DEF Timers
<1>2. u \in Counts /\ Apart(u, tick_count, 1)
  BY Successor, Zenon
<1> HIDE DEF e, u
<1>3. l \in Int /\ l <= Half - 1 /\ Apart(e, tick_count, l)
  BY <1>1, SignedApart, Zenon
<1>4. Left(tm, tick_count) = l /\ Left(tm, u) = Signed(e - u)
  BY Zenon DEF Left, e
<1> HIDE DEF l
<1>5. l - 1 \in Int /\ -Half <= l - 1 /\ l - 1 <= Half - 1 /\ -COUNT_MOD < l - 1 /\ l - 1 < COUNT_MOD
  BY <1>3, <1>4, SignedRange
<1>6. Apart(e, u, l - 1)
  <2>1. 1 \in Int
    OBVIOUS
  <2>. QED
    BY <1>1, <1>2, <1>3, <1>5, <2>1, ApartBoth, Zenon
<1>7. Signed(e - u) = l - 1
  BY <1>1, <1>2, <1>5, <1>6, ApartSigned, Zenon
<1>. QED
  BY <1>4, <1>7, Zenon DEF u

\* The relative timer's view of the MAC's timer is Left.
LEMMA ViewIsLeft ==
    /\ Relative!Rest <=> fired' = FALSE /\ Left(timer, tick_count)' = Left(timer, tick_count)
    /\ Relative!SetOrCancel <=>
          Left(timer, tick_count)' \in Delays \cup {-1} /\ fired' = FALSE
    /\ Relative!Tick <=>
          \E armed \in {Left(timer, tick_count)} \cup (Delays \ {0}) :
             /\ fired' = (armed = 0)
             /\ Left(timer, tick_count)' \in
                   {Relative!Elapse(t) : t \in IF armed = 0 THEN {-1} \cup (Delays \ {0})
                                               ELSE {armed}}
<1>1. Relative!Rest <=> fired' = FALSE /\ Left(timer, tick_count)' = Left(timer, tick_count)
  BY Zenon DEF Relative!Rest, Left
<1>2. Relative!SetOrCancel <=>
          Left(timer, tick_count)' \in Delays \cup {-1} /\ fired' = FALSE
  BY Zenon DEF Relative!SetOrCancel, Relative!Off, Left
<1>3. Relative!Tick <=>
          \E armed \in {Left(timer, tick_count)} \cup (Delays \ {0}) :
             /\ fired' = (armed = 0)
             /\ Left(timer, tick_count)' \in
                   {Relative!Elapse(t) : t \in IF armed = 0 THEN {-1} \cup (Delays \ {0})
                                               ELSE {armed}}
  BY Zenon DEF Relative!Tick, Relative!Off, Left
<1>. QED
  BY <1>1, <1>2, <1>3, Zenon

\* A timer that is off has nothing left, at any tick.
LEMMA ClearedLeft ==
    ASSUME NEW tm \in Timers, NEW t
    PROVE  Cleared(tm) \in Timers /\ ~Cleared(tm).callback /\ Left(Cleared(tm), t) = -1
<1>1. Cleared(tm) \in Timers /\ ~Cleared(tm).callback
  BY Zenon DEF Cleared, Timers
<1>. QED
  BY <1>1, Zenon DEF Left

\* A tick takes a timer that was not due one nearer, and leaves others off.
LEMMA TickElapses ==
    ASSUME tick_count \in Counts, NEW tm \in Timers, tm.callback => Left(tm, tick_count) >= 1
    PROVE  /\ Left(tm, (tick_count + 1) % COUNT_MOD) = Relative!Elapse(Left(tm, tick_count))
           /\ tm.callback => Left(tm, (tick_count + 1) % COUNT_MOD) >= 0
<1>1. CASE ~tm.callback
  BY <1>1 DEF Left, Relative!Elapse
<1>2. CASE tm.callback
  <2> DEFINE l == Left(tm, tick_count)
  <2>1. Left(tm, (tick_count + 1) % COUNT_MOD) = l - 1 /\ l >= 1
    BY <1>2, LeftAfterTick, Zenon
  <2>2. l \in Int
    <3>1. tm.expiry \in Counts
      BY Zenon DEF Timers
    <3>2. Signed(tm.expiry - tick_count) \in Int
      BY <3>1, SignedApart, Zenon
    <3>. QED
      BY <1>2, <3>2, Zenon DEF Left
  <2> HIDE DEF l
  <2>3. Relative!Elapse(l) = l - 1 /\ l - 1 >= 0
    BY <2>1, <2>2 DEF Relative!Elapse
  <2>. QED
    BY <2>1, <2>3, Zenon DEF l
<1>. QED
  BY <1>1, <1>2, Zenon

\* tinymac_tick_handler's timers are the relative timer's tick.
LEMMA MacTickStep ==
    ASSUME TimerInv, MacTick
    PROVE  TimerInv' /\ Relative!Tick
<1> DEFINE u == (tick_count + 1) % COUNT_MOD
<1>1. tick_count \in Counts /\ timer \in Timers /\ (timer.callback => Left(timer, tick_count) >= 0)
  BY Zenon DEF TimerInv
<1>2. PICK armed \in {timer} \cup {SetTimer(d) : d \in Delays \ {0}} :
         fired' = Due(armed) /\ timer' \in Despatched(armed) /\ tick_count' = u
  BY Zenon DEF MacTick
<1>3. u \in Counts
  BY <1>1, Successor, Zenon
<1>4. \A d \in Delays \ {0} : /\ SetTimer(d) \in Timers /\ SetTimer(d).callback
                              /\ Left(SetTimer(d), tick_count) = d /\ d >= 1
  BY <1>1, SetLeft, SignedRange
<1> DEFINE a == Left(armed, tick_count)
<1>5. armed \in Timers /\ (armed.callback => a >= 0) /\ a \in {Left(timer, tick_count)} \cup (Delays \ {0})
  BY <1>1, <1>2, <1>4, SignedRange
<1>6. Due(armed) <=> a = 0
  BY <1>1, <1>5, DueLeft, Zenon
<1> HIDE DEF u
<1>7. CASE Due(armed)
  <2>1. PICK t \in {-1} \cup (Delays \ {0}) :
          /\ timer' \in Timers
          /\ Left(timer', u) = Relative!Elapse(t)
          /\ timer'.callback => Left(timer', u) >= 0
    <3>1. CASE timer' = Cleared(armed)
      <4>1. timer' \in Timers /\ ~timer'.callback /\ Left(timer', u) = -1
        BY <1>5, <3>1, ClearedLeft, Zenon
      <4>2. Relative!Elapse(-1) = -1
        BY DEF Relative!Elapse
      <4>. QED
        BY <4>1, <4>2, Zenon
    <3>2. CASE \E d \in Delays \ {0} : timer' = SetTimer(d)
      <4>1. PICK d \in Delays \ {0} : timer' = SetTimer(d)
        BY <3>2, Zenon
      <4>2. timer' \in Timers /\ timer'.callback /\ Left(timer', tick_count) = d /\ d >= 1
        BY <1>4, <4>1, Zenon
      <4>3. Left(timer', u) = Relative!Elapse(d) /\ Left(timer', u) >= 0
        BY <1>1, <4>2, TickElapses, Zenon DEF u
      <4>. QED
        BY <4>2, <4>3, Zenon
    <3>. QED
      BY <1>2, <1>7, <3>1, <3>2, Zenon DEF Despatched
  <2>2. Left(timer, tick_count)' = Left(timer', u)
    BY <1>2, Zenon DEF Left
  <2>3. TimerInv'
    BY <1>2, <1>3, <2>1, <2>2, Zenon DEF TimerInv
  <2>4. /\ fired' = (a = 0)
        /\ Left(timer, tick_count)' \in {Relative!Elapse(s) : s \in IF a = 0 THEN {-1} \cup (Delays \ {0})
                                                                    ELSE {a}}
    BY <1>2, <1>6, <1>7, <2>1, <2>2, Zenon
  <2>. QED
    BY <1>5, <2>3, <2>4, ViewIsLeft, Zenon
<1>8. CASE ~Due(armed)
  <2>1. timer' = armed
    BY <1>2, <1>8, Zenon DEF Despatched
  <2>2. armed.callback => a >= 1
    <3>1. armed.callback => a \in Int
      <4>1. armed.expiry \in Counts
        BY <1>5, Zenon DEF Timers
      <4>2. Signed(armed.expiry - tick_count) \in Int
        BY <1>1, <4>1, SignedApart, Zenon
      <4>. QED
        BY <4>2, Zenon DEF Left
    <3>2. armed.callback => a >= 0 /\ a # 0
      BY <1>5, <1>6, <1>8, Zenon
    <3> HIDE DEF a
    <3>. QED
      BY <3>1, <3>2
  <2>3. Left(armed, u) = Relative!Elapse(a) /\ (armed.callback => Left(armed, u) >= 0)
    BY <1>1, <1>5, <2>2, TickElapses, Zenon DEF u
  <2>4. Left(timer, tick_count)' = Left(armed, u)
    BY <1>2, <2>1, Zenon DEF Left
  <2>5. TimerInv'
    BY <1>2, <1>3, <1>5, <2>1, <2>3, <2>4, Zenon DEF TimerInv
  <2>6. fired' = (a = 0)
    <3>1. Due(armed) = FALSE
      BY <1>8, Zenon DEF Due
    <3>. QED
      BY <1>2, <1>6, <3>1, Zenon
  <2>7. Left(timer, tick_count)' \in {Relative!Elapse(s) : s \in IF a = 0 THEN {-1} \cup (Delays \ {0})
                                                                 ELSE {a}}
    <3>1. a # 0
      BY <1>6, <1>8, Zenon
    <3> HIDE DEF a
    <3>. QED
      BY <2>3, <2>4, <3>1, Zenon
  <2>. QED
    BY <1>5, <2>5, <2>6, <2>7, ViewIsLeft, Zenon
<1>. QED
  BY <1>7, <1>8, Zenon

\* A packet that phy_event_handler brings may set or cancel the timer.
LEMMA PhyTimer ==
    ASSUME TimerInv, Phy
    PROVE  TimerInv' /\ Relative!Next
<1>1. tick_count \in Counts /\ timer \in Timers /\ (timer.callback => Left(timer, tick_count) >= 0)
  BY Zenon DEF TimerInv
<1>2. fired' = FALSE /\ tick_count' = tick_count
  BY Zenon DEF Phy
<1>3. CASE timer' = timer
  <2>1. Left(timer, tick_count)' = Left(timer, tick_count)
    BY <1>2, <1>3, Zenon DEF Left
  <2>2. TimerInv'
    BY <1>1, <1>2, <1>3, <2>1, Zenon DEF TimerInv
  <2>3. Relative!Rest
    BY <1>2, <2>1, ViewIsLeft, Zenon
  <2>. QED
    BY <2>2, <2>3, Zenon DEF Relative!Next
<1>4. CASE timer' = Cleared(timer)
  <2>1. timer' \in Timers /\ ~timer'.callback /\ Left(timer', tick_count) = -1
    BY <1>1, <1>4, ClearedLeft, Zenon
  <2>2. Left(timer, tick_count)' = -1
    BY <1>2, <2>1, Zenon DEF Left
  <2>3. TimerInv'
    BY <1>1, <1>2, <2>1, <2>2, Zenon DEF TimerInv
  <2>4. Relative!SetOrCancel
    BY <1>2, <2>2, ViewIsLeft, Zenon
  <2>. QED
    BY <2>3, <2>4, Zenon DEF Relative!Next
<1>5. CASE \E d \in Delays : timer' = SetTimer(d)
  <2>1. PICK d \in Delays : timer' = SetTimer(d)
    BY <1>5, Zenon
  <2>2. timer' \in Timers /\ timer'.callback /\ Left(timer', tick_count) = d /\ d >= 0
    BY <1>1, <2>1, SetLeft, SignedRange
  <2>3. Left(timer, tick_count)' = d
    BY <1>2, <2>2, Zenon DEF Left
  <2>4. TimerInv'
    BY <1>1, <1>2, <2>2, <2>3, Zenon DEF TimerInv
  <2>5. Relative!SetOrCancel
    BY <1>2, <2>3, ViewIsLeft, Zenon
  <2>. QED
    BY <2>4, <2>5, Zenon DEF Relative!Next
<1>. QED
  BY <1>3, <1>4, <1>5, Zenon DEF Phy

\* Every step of the loop and of the interrupts is one of the relative timer.
LEMMA TimerStep ==
    ASSUME TimerInv, [SensorNext]_sensorvars
    PROVE  TimerInv' /\ [Relative!Next]_<<Left(timer, tick_count), fired>>
<1>1. CASE Tick /\ Signed(now - next_mac_tick) >= 0
  <2>1. MacTick
    BY <1>1, Zenon DEF Tick
  <2>. QED
    BY <2>1, MacTickStep, Zenon DEF Relative!Next
<1>2. CASE Phy
  BY <1>2, PhyTimer, Zenon
<1>3. CASE fired' = FALSE /\ UNCHANGED mac
  <2>1. tick_count' = tick_count /\ timer' = timer
    BY <1>3, Zenon DEF mac
  <2>2. Left(timer, tick_count)' = Left(timer, tick_count)
    BY <2>1, Zenon DEF Left
  <2>3. TimerInv'
    BY <2>1, <2>2, Zenon DEF TimerInv
  <2>4. Relative!Rest
    BY <1>3, <2>2, ViewIsLeft, Zenon
  <2>. QED
    BY <2>3, <2>4, Zenon DEF Relative!Next
<1>4. CASE UNCHANGED sensorvars
  <2>1. tick_count' = tick_count /\ timer' = timer /\ fired' = fired
    BY <1>4, Zenon DEF sensorvars, mac
  <2>2. Left(timer, tick_count)' = Left(timer, tick_count)
    BY <2>1, Zenon DEF Left
  <2>3. TimerInv'
    BY <2>1, <2>2, Zenon DEF TimerInv
  <2>. QED
    BY <2>1, <2>2, <2>3, Zenon
<1>5. Read \/ ReadRest \/ Post \/ Sleep \/ TimerInterrupt \/ RadioInterrupt
        => fired' = FALSE /\ UNCHANGED mac
  BY Zenon DEF Read, ReadRest, Post, Sleep, TimerInterrupt, RadioInterrupt
<1>6. Tick /\ ~(Signed(now - next_mac_tick) >= 0) => fired' = FALSE /\ UNCHANGED mac
  BY Zenon DEF Tick
<1>. QED
  BY <1>1, <1>2, <1>3, <1>4, <1>5, <1>6, Zenon DEF SensorNext, Loop

\* The absolute timers of tinymac.c, which wrap with the MAC's count, are the
\* relative timers that the MAC's modules model: they fire on the tick they
\* are set for, whatever the width of the count.
THEOREM SensorRelativeTime == SensorSpec => RelativeTime
<1>1. SensorSpec => SensorInit /\ [][SensorNext]_sensorvars
  BY PTL DEF SensorSpec
<1>2. SensorInit => TimerInv /\ Relative!Init
  <2> SUFFICES ASSUME SensorInit PROVE TimerInv /\ Relative!Init
    BY Zenon
  <2>1. timer = [callback |-> FALSE, expiry |-> 0] /\ 0 \in Counts /\ tick_count = 0 /\ fired = FALSE
    BY SignedRange DEF SensorInit, Counts
  <2>2. timer \in Timers /\ ~timer.callback
    BY <2>1, Zenon DEF Timers
  <2>. QED
    BY <2>1, <2>2, Zenon DEF TimerInv, Relative!Init, Relative!Off
<1>3. TimerInv /\ [SensorNext]_sensorvars => TimerInv' /\ [Relative!Next]_<<Left(timer, tick_count), fired>>
  BY TimerStep, Zenon
<1>. QED
  BY <1>1, <1>2, <1>3, PTL DEF RelativeTime, Relative!Spec, Left

----------------------------------------------------------------------------
(* The radio driver. *)

----------------------------------------------------------------------------
(* The inductive invariant. *)

\* phy_send has the transmitter: it has passed its busy check.
Busy ==
    \/ pc \in {"fill", "start", "wait"}
    \/ pc \in {"poll", "apply"} /\ ret \in {"start", "wait"}

\* Raised and not acted upon yet.
Pending == radio.status \cup seen

\* A reception is over, or its receiver will be switched off.
Done == {"PKVALID", "CRCERROR"}

Ends == {"PKVALID", "CRCERROR", "WUT"}

Begun == {"SWDET", "RXFFAFULL"}

TxFlags == {"TXFFAFULL", "TXFFAEM", "PKSENT"}

\* Which flags may be waiting where; the wake-up timer is for sleepy devices.
FlagsInv ==
    /\ seen # {} => pc = "apply"
    /\ "FFERR" \in radio.status => "CRCERROR" \in radio.status
    /\ "FFERR" \in seen => "CRCERROR" \in seen
    /\ pc \in {"begin", "returned"} \/ Busy => "WUT" \notin Pending
    /\ radio.wut \/ "WUT" \in Pending => sleepy

\* What phy_send has still to put into the FIFO fits.
CountInv ==
    /\ pc \in {"begin", "fill"} \/ (pc \in {"poll", "apply"} /\ ret = "begin") => left # 0
    /\ pc = "wait" \/ (pc \in {"poll", "apply"} /\ ret = "wait") => left = 0 /\ tx_started
    /\ Busy => radio.fifo + left <= FIFO_SIZE - 1

\* While phy_send has the transmitter only the end of the packet puts the
\* driver into standby, and nothing is waiting after it.
BusyInv ==
    Busy =>
        /\ IF tx_started THEN radio.mode # "rx" /\ radio.rx = "none" ELSE radio.mode # "tx"
        /\ state = "Standby" \/ "PKSENT" \in Pending =>
              radio.aired /\ left = 0 /\ tx_started /\ radio.mode = "standby"
        /\ state = "Standby" \/ "PKSENT" \in seen => radio.status = {}

\* phy_standby was called between RXFFAFULL and the reading of it.
Overtaken == sleepy /\ state = "RxReady" /\ radio.mode = "standby"

\* At other times the state is the radio's but for the flags waiting.
IdleInv ==
    ~Busy =>
        /\ radio.mode # "tx" /\ state \notin {"Tx", "TxBusy"} /\ Pending \cap TxFlags = {}
        /\ state = "Standby" => /\ radio.mode = "standby" /\ ~radio.wut /\ radio.rx = "none"
                                /\ sleepy /\ (pc = "apply" => radio.status = {})
        /\ state # "Standby" /\ radio.status \cap Begun # {} =>
              radio.status \cap Done # {} \/ radio.rx # "none"
        /\ state # "Standby" /\ seen \cap Begun # {} => Pending \cap Ends # {} \/ radio.rx # "none"
        /\ state \in {"Rx", "RxReady"} =>
              Pending \cap Ends # {} \/ radio.rx # "none" \/ Overtaken
        /\ state = "Listen" => Pending \cap Ends # {} \/ radio.mode = "rx"

\* A packet announced or accepted is in the receive FIFO, or was thrown away
\* before its flag was read.
PacketInv ==
    /\ state = "RxValid" \/ "PKVALID" \in Pending => radio.packet # "none"
    /\ up # "garbage"
    /\ pc = "callback" => state = "Listen"
    /\ pc = "returned" /\ result = 0 => radio.aired /\ state = "Listen"

PhyInv == DriverTypeOK /\ FlagsInv /\ CountInv /\ BusyInv /\ IdleInv /\ PacketInv

----------------------------------------------------------------------------
(* The radio's registers, field by field. *)

\* The fields of a record of Radios that a write to the registers may change.
Fields(r, mode, wut, rx, packet, fifo, whole) ==
    /\ r \in Radios
    /\ r.mode = mode /\ r.wut = wut /\ r.rx = rx
    /\ r.packet = packet /\ r.fifo = fifo /\ r.whole = whole

\* What a write to the registers leaves alone.
SameFlags(r, q) == r.status = q.status /\ r.aired = q.aired

\* What a clear makes of the packet in the receive FIFO.
Flushed(r) == IF "PKVALID" \in r.status THEN "lost" ELSE "none"

\* SI443X_CLEAR_FIFOS.
LEMMA ClearFifosFields ==
    ASSUME NEW r \in Radios
    PROVE  /\ Fields(ClearFifos(r), r.mode, r.wut, IF r.rx = "none" THEN "none" ELSE "cut",
                     Flushed(r), 0, FALSE)
           /\ SameFlags(ClearFifos(r), r)
<1> DEFINE rx == IF r.rx = "none" THEN "none" ELSE "cut"
<1>1. ClearFifos(r) = [r EXCEPT !.packet = Flushed(r), !.rx = rx, !.fifo = 0, !.whole = FALSE]
  BY Zenon DEF ClearFifos, Flushed, Radios
<1>2. rx \in {"none", "sync", "half", "cut"} /\ 0 \in 0 .. FIFO_SIZE
  BY PhyConstants
<1>3. Flushed(r) \in {"none", "held", "lost"}
  BY Zenon DEF Flushed
<1> HIDE DEF rx
<1>4. Fields(ClearFifos(r), r.mode, r.wut, rx, Flushed(r), 0, FALSE) /\ SameFlags(ClearFifos(r), r)
  BY <1>1, <1>2, <1>3, Zenon DEF Fields, SameFlags, Radios
<1>. QED
  BY <1>4, Zenon DEF rx

\* A write to R_OP_CTRL1.
LEMMA ModeFields ==
    ASSUME NEW r \in Radios, NEW mode \in {"standby", "rx", "tx"}, NEW wut \in BOOLEAN
    PROVE  /\ Fields(Mode(r, mode, wut), mode, wut, IF mode = "rx" THEN r.rx ELSE "none",
                     r.packet, r.fifo, r.whole)
           /\ SameFlags(Mode(r, mode, wut), r)
<1> DEFINE rx == IF mode = "rx" THEN r.rx ELSE "none"
<1>1. Mode(r, mode, wut) = [r EXCEPT !.mode = mode, !.wut = wut, !.rx = rx]
  BY Zenon DEF Mode, Radios
<1>2. rx \in {"none", "sync", "half", "cut"}
  BY Zenon DEF Radios
<1> HIDE DEF rx
<1>3. Fields(Mode(r, mode, wut), mode, wut, rx, r.packet, r.fifo, r.whole)
      /\ SameFlags(Mode(r, mode, wut), r)
  BY <1>1, <1>2, Zenon DEF Fields, SameFlags, Radios
<1>. QED
  BY <1>3, Zenon DEF rx

\* phy_listen: the receiver is on, what it was receiving is lost.
LEMMA ListenFields ==
    ASSUME NEW r \in Radios
    PROVE  /\ Fields(Listen(r), "rx", FALSE, IF r.rx = "none" THEN "none" ELSE "cut",
                     Flushed(r), 0, FALSE)
           /\ SameFlags(Listen(r), r)
<1> DEFINE u == ClearFifos(r)
<1>1. u \in Radios /\ u.rx = (IF r.rx = "none" THEN "none" ELSE "cut") /\ u.packet = Flushed(r)
      /\ u.fifo = 0 /\ u.whole = FALSE /\ SameFlags(u, r)
  BY ClearFifosFields, Zenon DEF Fields
<1>2. Listen(r) = Mode(u, "rx", FALSE)
  BY Zenon DEF Listen
<1> HIDE DEF u
<1>3. "rx" \in {"standby", "rx", "tx"} /\ FALSE \in BOOLEAN
  BY Zenon
<1>4. /\ Fields(Listen(r), "rx", FALSE, IF "rx" = "rx" THEN u.rx ELSE "none",
                u.packet, u.fifo, u.whole)
      /\ SameFlags(Listen(r), u)
  BY <1>1, <1>2, <1>3, ModeFields, Zenon
<1>. QED
  BY <1>1, <1>4, Zenon DEF Fields, SameFlags

\* phy_standby: the receiver and its timer are off.
LEMMA StandbyFields ==
    ASSUME NEW r \in Radios
    PROVE  Fields(Standby(r), "standby", FALSE, "none", Flushed(r), 0, FALSE) /\ SameFlags(Standby(r), r)
<1> DEFINE u == ClearFifos(r)
<1>1. u \in Radios /\ u.packet = Flushed(r)
      /\ u.fifo = 0 /\ u.whole = FALSE /\ SameFlags(u, r)
  BY ClearFifosFields, Zenon DEF Fields
<1>2. Standby(r) = Mode(u, "standby", FALSE)
  BY Zenon DEF Standby
<1> HIDE DEF u
<1>3. "standby" \in {"standby", "rx", "tx"} /\ FALSE \in BOOLEAN
  BY Zenon
<1>4. /\ Fields(Standby(r), "standby", FALSE, IF "standby" = "rx" THEN u.rx ELSE "none",
                u.packet, u.fifo, u.whole)
      /\ SameFlags(Standby(r), u)
  BY <1>1, <1>2, <1>3, ModeFields, Zenon
<1>. QED
  BY <1>1, <1>4, Zenon DEF Fields, SameFlags

\* phy_delayed_standby: the receiver is on until the timer runs out.
LEMMA DelayedStandbyFields ==
    ASSUME NEW r \in Radios
    PROVE  /\ Fields(DelayedStandby(r), "rx", TRUE, r.rx, r.packet, r.fifo, r.whole)
           /\ SameFlags(DelayedStandby(r), r)
  BY ModeFields, ZenonT(30) DEF DelayedStandby, Fields, SameFlags

----------------------------------------------------------------------------
(* si443x_event_handler: what the flags make of the state. *)

\* The last of the tests that succeed.
LEMMA LastHit ==
    ASSUME NEW s, NEW flags, NEW i \in 1 .. 8, Effects[i][1] \in flags,
           \A j \in 1 .. 8 : i < j => Effects[j][1] \notin flags
    PROVE  AfterFlags(s, flags) = Effects[i][2]
<1> DEFINE hits == {j \in DOMAIN Effects : Effects[j][1] \in flags}
<1>1. DOMAIN Effects = 1 .. 8
  BY DEF Effects
<1>2. hits = {j \in 1 .. 8 : Effects[j][1] \in flags}
  BY <1>1, Zenon
<1>3. AfterFlags(s, flags) = IF hits # {} THEN Effects[Max(hits)][2]
                             ELSE IF s = "Listen" /\ "SWDET" \in flags THEN "Rx" ELSE s
  BY Zenon DEF AfterFlags
<1> HIDE DEF hits
<1>4. i \in hits /\ \A j \in hits : j \in 1 .. 8 /\ i >= j
  BY <1>2
<1>5. Max(hits) = i
  <2>1. \A x \in hits : (\A y \in hits : x >= y) => x = i
    BY <1>4
  <2>. QED
    BY <1>4, <2>1, Zenon DEF Max
<1>. QED
  BY <1>3, <1>4, <1>5, Zenon

\* Flag by flag, from the last test to the first.
LEMMA AfterFlagsCases ==
    ASSUME NEW s, NEW flags
    PROVE  LET a == AfterFlags(s, flags)
           IN  IF "WUT" \in flags THEN a = "Standby"
               ELSE IF "PKSENT" \in flags THEN a = "Standby"
               ELSE IF "TXFFAEM" \in flags THEN a = "Tx"
               ELSE IF "TXFFAFULL" \in flags THEN a = "TxBusy"
               ELSE IF "FFERR" \in flags THEN a = "FifoError"
               ELSE IF "CRCERROR" \in flags THEN a = "RxInvalid"
               ELSE IF "PKVALID" \in flags THEN a = "RxValid"
               ELSE IF "RXFFAFULL" \in flags THEN a = "RxReady"
               ELSE a = IF s = "Listen" /\ "SWDET" \in flags THEN "Rx" ELSE s
<1>1. /\ Effects[1] = <<"RXFFAFULL", "RxReady">> /\ Effects[2] = <<"PKVALID", "RxValid">>
      /\ Effects[3] = <<"CRCERROR", "RxInvalid">> /\ Effects[4] = <<"FFERR", "FifoError">>
      /\ Effects[5] = <<"TXFFAFULL", "TxBusy">> /\ Effects[6] = <<"TXFFAEM", "Tx">>
      /\ Effects[7] = <<"PKSENT", "Standby">> /\ Effects[8] = <<"WUT", "Standby">>
  BY Zenon DEF Effects
<1>2. /\ Effects[1][1] = "RXFFAFULL" /\ Effects[2][1] = "PKVALID" /\ Effects[3][1] = "CRCERROR"
      /\ Effects[4][1] = "FFERR" /\ Effects[5][1] = "TXFFAFULL" /\ Effects[6][1] = "TXFFAEM"
      /\ Effects[7][1] = "PKSENT" /\ Effects[8][1] = "WUT"
  BY <1>1
<1>3. /\ Effects[1][2] = "RxReady" /\ Effects[2][2] = "RxValid" /\ Effects[3][2] = "RxInvalid"
      /\ Effects[4][2] = "FifoError" /\ Effects[5][2] = "TxBusy" /\ Effects[6][2] = "Tx"
      /\ Effects[7][2] = "Standby" /\ Effects[8][2] = "Standby"
  BY <1>1
<1>4. \A j \in 1 .. 8 : j = 1 \/ j = 2 \/ j = 3 \/ j = 4 \/ j = 5 \/ j = 6 \/ j = 7 \/ j = 8
  OBVIOUS
<1>5. CASE "WUT" \in flags
  BY <1>2, <1>3, <1>5, LastHit
<1>6. CASE "WUT" \notin flags /\ "PKSENT" \in flags
  BY <1>2, <1>3, <1>4, <1>6, LastHit
<1>7. CASE "WUT" \notin flags /\ "PKSENT" \notin flags /\ "TXFFAEM" \in flags
  BY <1>2, <1>3, <1>4, <1>7, LastHit
<1>8. CASE {"WUT", "PKSENT", "TXFFAEM"} \cap flags = {} /\ "TXFFAFULL" \in flags
  BY <1>2, <1>3, <1>4, <1>8, LastHit
<1>9. CASE {"WUT", "PKSENT", "TXFFAEM", "TXFFAFULL"} \cap flags = {} /\ "FFERR" \in flags
  BY <1>2, <1>3, <1>4, <1>9, LastHit
<1>10. CASE {"WUT", "PKSENT", "TXFFAEM", "TXFFAFULL", "FFERR"} \cap flags = {} /\ "CRCERROR" \in flags
  BY <1>2, <1>3, <1>4, <1>10, LastHit
<1>11. CASE /\ {"WUT", "PKSENT", "TXFFAEM", "TXFFAFULL", "FFERR", "CRCERROR"} \cap flags = {}
            /\ "PKVALID" \in flags
  BY <1>2, <1>3, <1>4, <1>11, LastHit
<1>12. CASE /\ {"WUT", "PKSENT", "TXFFAEM", "TXFFAFULL", "FFERR", "CRCERROR", "PKVALID"} \cap flags = {}
            /\ "RXFFAFULL" \in flags
  BY <1>2, <1>3, <1>4, <1>12, LastHit
<1>13. CASE {"WUT", "PKSENT", "TXFFAEM", "TXFFAFULL", "FFERR", "CRCERROR", "PKVALID", "RXFFAFULL"}
              \cap flags = {}
  <2>1. {j \in DOMAIN Effects : Effects[j][1] \in flags} = {}
    <3>1. DOMAIN Effects = 1 .. 8
      BY DEF Effects
    <3>. QED
      BY <1>2, <1>4, <1>13, <3>1, ZenonT(30)
  <2>. QED
    BY <1>13, <2>1, Zenon DEF AfterFlags
<1>. QED
  BY <1>5, <1>6, <1>7, <1>8, <1>9, <1>10, <1>11, <1>12, <1>13, Zenon

----------------------------------------------------------------------------
(* The driver's steps.  Each of them disturbs some of the invariant. *)

\* phy_event_handler begins.
LEMMA EventHandlerInv ==
    ASSUME PhyInv, EventHandler
    PROVE  PhyInv'
<1>1. /\ pc = "main" /\ pc' = "poll" /\ ret' = "despatch"
      /\ UNCHANGED <<state, seen, left, tx_started, result, up, sleepy, radio>>
  BY Zenon DEF EventHandler
<1>2. DriverTypeOK'
  BY <1>1, Zenon DEF PhyInv, DriverTypeOK
<1>3. ~Busy /\ ~Busy' /\ Pending' = Pending
  BY <1>1, Zenon DEF Busy, Pending
<1>4. FlagsInv'
  BY <1>1, <1>3, Zenon DEF PhyInv, FlagsInv
<1>5. CountInv' /\ BusyInv'
  BY <1>1, <1>3, Zenon DEF CountInv, BusyInv
<1>6. IdleInv'
  BY <1>1, <1>3, Zenon DEF PhyInv, IdleInv, Overtaken
<1>7. PacketInv'
  BY <1>1, <1>3, Zenon DEF PhyInv, PacketInv
<1>. QED
  BY <1>2, <1>4, <1>5, <1>6, <1>7, Zenon DEF PhyInv

\* nIRQ is inactive: every flag has been read, as a FIFO error comes with a
\* CRC error.
LEMMA NoIrq ==
    ASSUME PhyInv, nIRQ(radio)
    PROVE  radio.status = {}
<1>1. radio.status \subseteq Enabled \cup {"FFERR"}
  BY Zenon DEF PhyInv, DriverTypeOK, Radios, Flags
<1>2. "CRCERROR" \notin radio.status
  BY Zenon DEF nIRQ, Enabled
<1>3. "FFERR" \notin radio.status
  BY <1>2, Zenon DEF PhyInv, FlagsInv
<1>. QED
  BY <1>1, <1>3, Zenon DEF nIRQ

\* si443x_event_handler returns, or reads the flags.
LEMMA PollInv ==
    ASSUME PhyInv, Poll
    PROVE  PhyInv'
<1>1. pc = "poll" /\ seen = {} /\ UNCHANGED <<ret, state, left, tx_started, result, up, sleepy>>
  BY Zenon DEF PhyInv, FlagsInv, Poll
<1>2. ret \in {"despatch", "begin", "start", "wait"} /\ radio \in Radios /\ radio.status \subseteq Flags
  BY Zenon DEF PhyInv, DriverTypeOK, Radios
<1>3. CASE nIRQ(radio)
  <2>1. pc' = ret /\ radio' = radio /\ seen' = {} /\ radio.status = {}
    BY <1>1, <1>3, NoIrq, Zenon DEF Poll
  <2>2. DriverTypeOK'
    BY <1>1, <1>2, <2>1, Zenon DEF PhyInv, DriverTypeOK
  <2>3. (Busy' <=> Busy) /\ Pending' = {} /\ Pending = {}
    BY <1>1, <1>2, <2>1, Zenon DEF Busy, Pending
  <2>4. FlagsInv'
    BY <1>1, <1>2, <2>1, <2>3, Zenon DEF PhyInv, FlagsInv
  <2>5. CountInv'
    BY <1>1, <1>2, <2>1, <2>3, Zenon DEF PhyInv, CountInv
  <2>6. BusyInv'
    BY <1>1, <2>1, <2>3, Zenon DEF PhyInv, BusyInv
  <2>7. IdleInv'
    BY <1>1, <1>2, <2>1, <2>3, Zenon DEF PhyInv, IdleInv, Overtaken
  <2>8. PacketInv'
    BY <1>1, <1>2, <2>1, <2>3, ZenonT(30) DEF PhyInv, PacketInv
  <2>. QED
    BY <2>2, <2>4, <2>5, <2>6, <2>7, <2>8, Zenon DEF PhyInv
<1>4. CASE ~nIRQ(radio)
  <2>1. pc' = "apply" /\ seen' = radio.status /\ radio' = [radio EXCEPT !.status = {}]
    BY <1>4, Zenon DEF Poll
  <2>2. Fields(radio', radio.mode, radio.wut, radio.rx, radio.packet, radio.fifo, radio.whole)
        /\ radio'.status = {} /\ radio'.aired = radio.aired
    BY <1>2, <2>1, Zenon DEF Radios, Fields
  <2>3. DriverTypeOK'
    BY <1>1, <1>2, <2>1, <2>2, Zenon DEF PhyInv, DriverTypeOK, Fields
  <2>4. (Busy' <=> Busy) /\ Pending' = Pending
    BY <1>1, <2>1, <2>2, Zenon DEF Busy, Pending
  <2>5. FlagsInv'
    BY <1>1, <2>1, <2>2, <2>4, Zenon DEF PhyInv, FlagsInv, Fields
  <2>6. CountInv'
    BY <1>1, <2>1, <2>2, <2>4, Zenon DEF PhyInv, CountInv, Fields
  <2>7. BusyInv'
    BY <1>1, <2>1, <2>2, <2>4, Zenon DEF PhyInv, BusyInv, Fields
  <2>8. IdleInv'
    <3>1. Pending = radio.status /\ Pending' = radio.status /\ radio'.rx = radio.rx
          /\ radio'.mode = radio.mode /\ radio'.wut = radio.wut
      BY <1>1, <2>2, <2>4, Zenon DEF Pending, Fields
    <3>2. radio.status \cap Done # {} => radio.status \cap Ends # {}
      BY Zenon DEF Done, Ends
    <3>. QED
      BY <1>1, <2>1, <2>2, <2>4, <3>1, <3>2, Zenon DEF PhyInv, IdleInv, Overtaken
  <2>9. PacketInv'
    BY <1>1, <2>1, <2>2, <2>4, Zenon DEF PhyInv, PacketInv, Fields
  <2>. QED
    BY <2>3, <2>5, <2>6, <2>7, <2>8, <2>9, Zenon DEF PhyInv
<1>. QED
  BY <1>3, <1>4, Zenon

\* The flags read take effect.
LEMMA ApplyFlagsInv ==
    ASSUME PhyInv, ApplyFlags
    PROVE  PhyInv'
<1>1. /\ pc = "apply" /\ pc' = "poll" /\ state' = AfterFlags(state, seen) /\ seen' = {}
      /\ radio' = (IF "WUT" \in seen THEN Standby(radio) ELSE radio)
      /\ UNCHANGED <<ret, left, tx_started, result, up, sleepy>>
  BY Zenon DEF ApplyFlags
<1>2. radio \in Radios /\ state \in States /\ seen \subseteq Flags
  BY Zenon DEF PhyInv, DriverTypeOK
<1>3. (Busy' <=> Busy) /\ Pending' = radio'.status
  BY <1>1, Zenon DEF Busy, Pending
<1>4. /\ radio' \in Radios /\ radio'.status = radio.status /\ radio'.aired = radio.aired
      /\ radio'.wut => radio.wut
  BY <1>1, <1>2, StandbyFields, Zenon DEF Fields, SameFlags
<1>5. IF "WUT" \in seen THEN state' = "Standby"
      ELSE IF "PKSENT" \in seen THEN state' = "Standby"
      ELSE IF "TXFFAEM" \in seen THEN state' = "Tx"
      ELSE IF "TXFFAFULL" \in seen THEN state' = "TxBusy"
      ELSE IF "FFERR" \in seen THEN state' = "FifoError"
      ELSE IF "CRCERROR" \in seen THEN state' = "RxInvalid"
      ELSE IF "PKVALID" \in seen THEN state' = "RxValid"
      ELSE IF "RXFFAFULL" \in seen THEN state' = "RxReady"
      ELSE state' = IF state = "Listen" /\ "SWDET" \in seen THEN "Rx" ELSE state
  BY <1>1, AfterFlagsCases, Zenon
<1>6. DriverTypeOK'
  <2>1. state' \in States
    BY <1>2, <1>5, Zenon DEF States
  <2>. QED
    BY <1>1, <1>4, <2>1, Zenon DEF PhyInv, DriverTypeOK
<1>7. FlagsInv'
  <2>1. ("WUT" \in Pending' => "WUT" \in Pending) /\ radio'.status = radio.status /\ seen' = {}
    BY <1>1, <1>3, <1>4, Zenon DEF Pending
  <2>. QED
    BY <1>1, <1>3, <1>4, <2>1, Zenon DEF PhyInv, FlagsInv
<1>8. CASE Busy
  <2>2. "WUT" \notin seen /\ radio' = radio
    BY <1>1, <1>8, Zenon DEF PhyInv, FlagsInv, Pending
  <2>3. CountInv'
    BY <1>1, <1>3, <2>2, Zenon DEF PhyInv, CountInv
  <2>4. state' = "Standby" => "PKSENT" \in seen \/ state = "Standby"
    BY <1>5, <2>2, Zenon
  <2>5. BusyInv'
    <3>1. Pending' = radio.status /\ radio.status \subseteq Pending /\ seen \subseteq Pending
      BY <1>3, <2>2, Zenon DEF Pending
    <3>. QED
      BY <1>1, <1>3, <1>8, <2>2, <2>4, <3>1, Zenon DEF PhyInv, BusyInv
  <2>6. IdleInv'
    BY <1>3, <1>8, Zenon DEF IdleInv
  <2>7. PacketInv'
    <3>1. state' = "RxValid" => state = "RxValid" \/ "PKVALID" \in Pending
      BY <1>5, Zenon DEF Pending
    <3>2. "PKVALID" \in Pending' => "PKVALID" \in Pending
      BY <1>3, <2>2, Zenon DEF Pending
    <3>. QED
      BY <1>1, <2>2, <3>1, <3>2, Zenon DEF PhyInv, PacketInv
  <2>. QED
    BY <1>6, <1>7, <2>3, <2>5, <2>6, <2>7, Zenon DEF PhyInv
<1>9. CASE ~Busy
  <2>1. seen \cap TxFlags = {} /\ radio.status \cap TxFlags = {} /\ radio'.status = radio.status
    BY <1>4, <1>9, Zenon DEF PhyInv, IdleInv, Pending
  <2>2. CountInv' /\ BusyInv'
    BY <1>1, <1>3, <1>9, Zenon DEF PhyInv, CountInv, BusyInv
  <2>3. CASE "WUT" \in seen
    <3>1. state' = "Standby" /\ radio' = Standby(radio)
      BY <1>1, <1>5, <2>3, Zenon
    <3>2. radio'.mode = "standby" /\ radio'.wut = FALSE /\ radio'.rx = "none"
          /\ radio'.packet = Flushed(radio)
      BY <1>2, <3>1, StandbyFields, Zenon DEF Fields
    <3>3. IdleInv'
      <4>1. sleepy'
        BY <1>1, <2>3, Zenon DEF PhyInv, FlagsInv, Pending
      <4>. QED
        BY <1>1, <1>3, <2>1, <3>1, <3>2, <4>1, Zenon DEF IdleInv
    <3>4. PacketInv'
      <4>1. "PKVALID" \in Pending' => radio'.packet # "none"
        BY <1>3, <2>1, <3>2, Zenon DEF Flushed
      <4>. QED
        BY <1>1, <3>1, <4>1, Zenon DEF PhyInv, PacketInv
    <3>. QED
      BY <1>6, <1>7, <2>2, <3>3, <3>4, Zenon DEF PhyInv
  <2>4. CASE "WUT" \notin seen
    <3>1. radio' = radio
      BY <1>1, <2>4, Zenon
    <3>2. IF "FFERR" \in seen THEN state' = "FifoError"
          ELSE IF "CRCERROR" \in seen THEN state' = "RxInvalid"
          ELSE IF "PKVALID" \in seen THEN state' = "RxValid"
          ELSE IF "RXFFAFULL" \in seen THEN state' = "RxReady"
          ELSE state' = IF state = "Listen" /\ "SWDET" \in seen THEN "Rx" ELSE state
      BY <1>5, <2>1, <2>4, Zenon DEF TxFlags
    <3>3. seen \cap Ends = {} <=> "CRCERROR" \notin seen /\ "PKVALID" \notin seen
      BY <2>4, Zenon DEF Ends
    <3>4. "FFERR" \in seen => "CRCERROR" \in seen
      BY Zenon DEF PhyInv, FlagsInv
    <3>5. IdleInv'
      <4>1. /\ radio.mode # "tx" /\ state \notin {"Tx", "TxBusy"}
            /\ state = "Standby" => /\ radio.mode = "standby" /\ ~radio.wut /\ radio.rx = "none"
                                    /\ sleepy /\ radio.status = {}
        BY <1>1, <1>9, Zenon DEF PhyInv, IdleInv
      <4>2. state' \notin {"Tx", "TxBusy"} /\ Pending' \cap TxFlags = {}
        BY <1>3, <2>1, <3>1, <3>2, <4>1, Zenon
      <4>3. state' = "Standby" => state = "Standby"
        BY <3>2, Zenon
      <4>4. radio.status \cap Begun # {} => radio.status \cap Done # {} \/ radio.rx # "none"
        BY <1>9, <4>1, Zenon DEF PhyInv, IdleInv
      <4>5. state' \in {"Rx", "RxReady"} => Pending' \cap Ends # {} \/ radio'.rx # "none" \/ Overtaken'
        <5> SUFFICES ASSUME state' \in {"Rx", "RxReady"}, radio.status \cap Ends = {}
                     PROVE  radio.rx # "none" \/ Overtaken'
          BY <1>3, <3>1, Zenon
        <5>1. Pending \cap Ends = {}
          BY <3>2, <3>3, <3>4, Zenon DEF Pending
        <5>2. CASE state \in {"Rx", "RxReady"}
          <6>1. state = "RxReady" => state' = "RxReady"
            BY <3>2, <5>2, Zenon
          <6>. QED
            BY <1>1, <1>9, <3>1, <5>1, <5>2, <6>1, Zenon DEF PhyInv, IdleInv, Overtaken
        <5>3. CASE state \notin {"Rx", "RxReady"}
          <6>1. "RXFFAFULL" \in seen \/ (state = "Listen" /\ "SWDET" \in seen)
            BY <3>2, <5>3, Zenon
          <6>2. seen \cap Begun # {}
            BY <6>1, Zenon DEF Begun
          <6>3. CASE state # "Standby"
            BY <1>9, <5>1, <6>2, <6>3, Zenon DEF PhyInv, IdleInv
          <6>4. CASE state = "Standby"
            <7>1. state' = "RxReady"
              BY <3>2, <5>3, <6>1, <6>4, Zenon
            <7>. QED
              BY <1>1, <3>1, <4>1, <6>4, <7>1, Zenon DEF Overtaken
          <6>. QED
            BY <6>3, <6>4, Zenon
        <5>. QED
          BY <5>2, <5>3, Zenon
      <4>6. state' = "Listen" => Pending' \cap Ends # {} \/ radio'.mode = "rx"
        <5> SUFFICES ASSUME state' = "Listen", radio.status \cap Ends = {}
                     PROVE  radio.mode = "rx"
          BY <1>3, <3>1, Zenon
        <5>1. Pending \cap Ends = {} /\ state = "Listen"
          BY <3>2, <3>3, <3>4, Zenon DEF Pending
        <5>. QED
          BY <1>9, <5>1, Zenon DEF PhyInv, IdleInv
      <4>. QED
        BY <1>1, <3>1, <4>1, <4>2, <4>3, <4>4, <4>5, <4>6, Zenon DEF IdleInv
    <3>6. PacketInv'
      <4>1. state' = "RxValid" => state = "RxValid" \/ "PKVALID" \in Pending
        BY <3>2, Zenon DEF Pending
      <4>2. "PKVALID" \in Pending' => "PKVALID" \in Pending
        BY <1>3, <3>1, Zenon DEF Pending
      <4>. QED
        BY <1>1, <1>3, <2>1, <3>1, <4>1, <4>2, Zenon DEF PhyInv, PacketInv
    <3>. QED
      BY <1>6, <1>7, <2>2, <3>5, <3>6, Zenon DEF PhyInv
  <2>. QED
    BY <2>3, <2>4, Zenon
<1>. QED
  BY <1>8, <1>9, Zenon

\* phy_event_handler: a packet is read and given to the callback, and the
\* receiver is started again.
LEMMA DespatchInv ==
    ASSUME PhyInv, Despatch
    PROVE  PhyInv'
<1>1. pc = "despatch" /\ seen = {} /\ UNCHANGED <<ret, seen, left, tx_started, result, sleepy>>
  BY Zenon DEF PhyInv, FlagsInv, Despatch
<1>2. radio \in Radios /\ ~Busy
  BY <1>1, Zenon DEF PhyInv, DriverTypeOK, Busy
<1>3. /\ pc' \in {"callback", "main"}
      /\ IF state = "RxValid" THEN pc' = "callback" ELSE pc' = "main"
      /\ up' \in {"none", "packet", "lost"}
  <2>1. up \in {"none", "packet", "lost"}
    BY Zenon DEF PhyInv, DriverTypeOK, PacketInv
  <2>2. state = "RxValid" => ReadOut(radio) \in {"packet", "lost"}
    BY <1>2, Zenon DEF PhyInv, PacketInv, Radios, ReadOut
  <2>. QED
    BY <2>1, <2>2, Zenon DEF Despatch
<1>4. ~Busy'
  BY <1>3, Zenon DEF Busy
<1>5. CASE state \notin {"RxValid", "RxInvalid", "FifoError"}
  <2>1. pc' = "main" /\ state' = state /\ radio' = radio
    BY <1>3, <1>5, Zenon DEF Despatch
  <2>2. DriverTypeOK' /\ Pending' = Pending
    BY <1>1, <1>3, <2>1, Zenon DEF PhyInv, DriverTypeOK, Pending
  <2>3. FlagsInv' /\ CountInv' /\ BusyInv'
    BY <1>1, <1>2, <1>4, <2>1, <2>2, Zenon DEF PhyInv, FlagsInv, CountInv, BusyInv
  <2>4. IdleInv'
    BY <1>1, <1>2, <1>4, <2>1, <2>2, Zenon DEF PhyInv, IdleInv, Overtaken
  <2>5. PacketInv'
    BY <1>3, <2>1, <2>2, Zenon DEF PhyInv, PacketInv
  <2>. QED
    BY <2>2, <2>3, <2>4, <2>5, Zenon DEF PhyInv
<1>6. CASE state \in {"RxValid", "RxInvalid", "FifoError"}
  <2>1. state' = "Listen" /\ radio' = Listen(radio)
    BY <1>6, Zenon DEF Despatch
  <2>2. /\ radio' \in Radios /\ radio'.mode = "rx" /\ (radio.rx # "none" => radio'.rx # "none")
        /\ radio'.status = radio.status /\ radio'.wut = FALSE /\ radio'.packet = Flushed(radio)
    BY <1>2, <2>1, ListenFields, Zenon DEF Fields, SameFlags
  <2>3. DriverTypeOK' /\ Pending' = radio.status /\ Pending = radio.status
    BY <1>1, <1>3, <2>1, <2>2, Zenon DEF PhyInv, DriverTypeOK, Pending, States
  <2>4. FlagsInv'
    BY <1>1, <1>2, <1>3, <1>4, <2>2, <2>3, Zenon DEF PhyInv, FlagsInv
  <2>5. CountInv' /\ BusyInv'
    BY <1>3, <1>4, Zenon DEF CountInv, BusyInv
  <2>6. IdleInv'
    BY <1>1, <1>2, <1>4, <1>6, <2>1, <2>2, <2>3, Zenon DEF PhyInv, IdleInv
  <2>7. PacketInv'
    BY <1>3, <2>1, <2>2, <2>3, Zenon DEF PacketInv, Flushed
  <2>. QED
    BY <2>3, <2>4, <2>5, <2>6, <2>7, Zenon DEF PhyInv
<1>. QED
  BY <1>5, <1>6, Zenon

\* The radio is put into standby, as tinymac_recv_cb and tinymac_phy_send do.
LEMMA ToStandbyInv ==
    ASSUME PhyInv, sleepy, pc \in {"callback", "returned"}, pc' = "main", state' = "Standby",
           radio' = Standby(radio), UNCHANGED <<ret, seen, left, tx_started, result, up, sleepy>>
    PROVE  PhyInv'
<1>1. radio \in Radios /\ seen = {} /\ seen' = {} /\ ~Busy
  BY Zenon DEF PhyInv, DriverTypeOK, FlagsInv, Busy
<1>2. /\ radio' \in Radios /\ radio'.mode = "standby" /\ radio'.wut = FALSE /\ radio'.rx = "none"
      /\ radio'.status = radio.status /\ radio'.packet = Flushed(radio)
  BY <1>1, StandbyFields, Zenon DEF Fields, SameFlags
<1>3. ~Busy' /\ Pending' = radio.status /\ Pending = radio.status
  BY <1>1, <1>2, Zenon DEF Busy, Pending
<1>4. DriverTypeOK'
  BY <1>1, <1>2, Zenon DEF PhyInv, DriverTypeOK, States
<1>5. FlagsInv' /\ CountInv' /\ BusyInv'
  BY <1>1, <1>2, <1>3, Zenon DEF PhyInv, FlagsInv, CountInv, BusyInv
<1>6. IdleInv'
  BY <1>1, <1>2, <1>3, Zenon DEF PhyInv, IdleInv
<1>7. PacketInv'
  BY <1>2, <1>3, Zenon DEF PhyInv, PacketInv, Flushed
<1>. QED
  BY <1>4, <1>5, <1>6, <1>7, Zenon DEF PhyInv

\* The receiver is left on for a while.
LEMMA ToDelayedInv ==
    ASSUME PhyInv, sleepy, pc \in {"callback", "returned"}, pc' = "main", state = "Listen", state' = state,
           radio' = DelayedStandby(radio),
           UNCHANGED <<ret, seen, left, tx_started, result, up, sleepy>>
    PROVE  PhyInv'
<1>1. radio \in Radios /\ seen = {} /\ seen' = {} /\ ~Busy
  BY Zenon DEF PhyInv, DriverTypeOK, FlagsInv, Busy
<1>2. /\ radio' \in Radios /\ radio'.mode = "rx" /\ radio'.rx = radio.rx
      /\ radio'.packet = radio.packet /\ radio'.status = radio.status
  BY <1>1, DelayedStandbyFields, Zenon DEF Fields, SameFlags
<1>3. ~Busy' /\ Pending' = radio.status /\ Pending = radio.status
  BY <1>1, <1>2, Zenon DEF Busy, Pending
<1>4. DriverTypeOK'
  BY <1>1, <1>2, Zenon DEF PhyInv, DriverTypeOK
<1>5. FlagsInv' /\ CountInv' /\ BusyInv'
  BY <1>1, <1>2, <1>3, Zenon DEF PhyInv, FlagsInv, CountInv, BusyInv
<1>6. IdleInv'
  BY <1>1, <1>2, <1>3, Zenon DEF PhyInv, IdleInv
<1>7. PacketInv'
  BY <1>1, <1>2, <1>3, Zenon DEF PhyInv, PacketInv
<1>. QED
  BY <1>4, <1>5, <1>6, <1>7, Zenon DEF PhyInv

\* The driver is done and nothing of it changes.
LEMMA ToMainInv ==
    ASSUME PhyInv, pc \in {"callback", "returned"}, pc' = "main",
           UNCHANGED <<ret, state, seen, left, tx_started, result, up, sleepy, radio>>
    PROVE  PhyInv'
<1>1. ~Busy /\ ~Busy' /\ Pending' = Pending
  BY Zenon DEF Busy, Pending
<1>2. DriverTypeOK' /\ FlagsInv' /\ CountInv' /\ BusyInv'
  BY <1>1, ZenonT(30) DEF PhyInv, DriverTypeOK, FlagsInv, CountInv, BusyInv
<1>3. IdleInv' /\ PacketInv'
  BY <1>1, Zenon DEF PhyInv, IdleInv, Overtaken, PacketInv
<1>. QED
  BY <1>2, <1>3, Zenon DEF PhyInv

\* tinymac_recv_cb.
LEMMA CallbackInv ==
    ASSUME PhyInv, Callback
    PROVE  PhyInv'
<1>1. /\ pc = "callback" /\ pc' = "main"
      /\ UNCHANGED <<ret, seen, left, tx_started, result, up, sleepy>>
      /\ state = "Listen"
  BY Zenon DEF Callback, PhyInv, PacketInv
<1>2. CASE UNCHANGED <<state, radio>>
  BY <1>1, <1>2, ToMainInv, Zenon
<1>3. CASE sleepy /\ state' = "Standby" /\ radio' = Standby(radio)
  BY <1>1, <1>3, ToStandbyInv, Zenon
<1>4. CASE sleepy /\ radio' = DelayedStandby(radio) /\ UNCHANGED state
  BY <1>1, <1>4, ToDelayedInv, Zenon
<1>. QED
  BY <1>2, <1>3, <1>4, Zenon DEF Callback

\* tinymac_phy_send after phy_send.
LEMMA ReturnedInv ==
    ASSUME PhyInv, Returned
    PROVE  PhyInv'
<1>1. /\ pc = "returned" /\ pc' = "main"
      /\ UNCHANGED <<ret, seen, left, tx_started, result, up, sleepy>>
      /\ result = 0 => state = "Listen"
  BY Zenon DEF Returned, PhyInv, PacketInv
<1>2. \/ UNCHANGED <<state, radio>>
      \/ sleepy /\ result = 0 /\ radio' = DelayedStandby(radio) /\ UNCHANGED state
      \/ sleepy /\ state' = "Standby" /\ radio' = Standby(radio)
  BY Zenon DEF Returned
<1>3. CASE UNCHANGED <<state, radio>>
  BY <1>1, <1>3, ToMainInv, Zenon
<1>4. CASE sleepy /\ result = 0 /\ radio' = DelayedStandby(radio) /\ UNCHANGED state
  BY <1>1, <1>4, ToDelayedInv, Zenon
<1>5. CASE sleepy /\ state' = "Standby" /\ radio' = Standby(radio)
  BY <1>1, <1>5, ToStandbyInv, Zenon
<1>. QED
  BY <1>2, <1>3, <1>4, <1>5, Zenon

\* phy_send is called.
LEMMA SendInv ==
    ASSUME PhyInv, NEW size \in Sizes, Send(size)
    PROVE  PhyInv'
<1>1. /\ pc = "main" /\ pc' = "poll" /\ ret' = "begin" /\ left' = size
      /\ radio' = [radio EXCEPT !.aired = FALSE]
      /\ UNCHANGED <<state, seen, tx_started, result, up, sleepy>>
  BY Zenon DEF Send
<1>2. radio \in Radios
  BY Zenon DEF PhyInv, DriverTypeOK
<1>3. Fields(radio', radio.mode, radio.wut, radio.rx, radio.packet, radio.fifo, radio.whole)
      /\ radio'.status = radio.status
  BY <1>1, <1>2, Zenon DEF Fields, Radios
<1>4. ~Busy /\ ~Busy' /\ Pending' = Pending
  BY <1>1, <1>3, Zenon DEF Busy, Pending
<1>5. left' \in 0 .. FIFO_SIZE - 1 /\ left' # 0
  BY <1>1 DEF Sizes
<1>6. DriverTypeOK'
  BY <1>1, <1>3, <1>5, Zenon DEF PhyInv, DriverTypeOK, Fields
<1>7. FlagsInv'
  BY <1>1, <1>3, <1>4, Zenon DEF PhyInv, FlagsInv, Fields
<1>8. CountInv' /\ BusyInv'
  BY <1>1, <1>4, <1>5, Zenon DEF CountInv, BusyInv
<1>9. IdleInv'
  BY <1>1, <1>3, <1>4, Zenon DEF PhyInv, IdleInv, Overtaken, Fields
<1>10. PacketInv'
  BY <1>1, <1>3, <1>4, Zenon DEF PhyInv, PacketInv, Fields
<1>. QED
  BY <1>6, <1>7, <1>8, <1>9, <1>10, Zenon DEF PhyInv

\* Its busy check.
LEMMA SendBeginInv ==
    ASSUME PhyInv, SendBegin
    PROVE  PhyInv'
<1>1. pc = "begin" /\ seen = {} /\ UNCHANGED <<ret, seen, up, sleepy>>
  BY Zenon DEF PhyInv, FlagsInv, SendBegin
<1>2. /\ radio \in Radios /\ "WUT" \notin radio.status /\ ~Busy
      /\ left \in 0 .. FIFO_SIZE - 1 /\ left # 0
  BY <1>1, Zenon DEF PhyInv, DriverTypeOK, FlagsInv, CountInv, Busy, Pending
<1>3. CASE state \in {"Standby", "Listen"}
  <2>1. /\ pc' = "fill" /\ state' = "Tx" /\ tx_started' = FALSE /\ UNCHANGED <<left, result>>
        /\ radio' = [radio EXCEPT !.fifo = 0, !.whole = TRUE]
    BY <1>3, Zenon DEF SendBegin
  <2>2. 0 \in 0 .. FIFO_SIZE
    BY PhyConstants
  <2>3. Fields(radio', radio.mode, radio.wut, radio.rx, radio.packet, 0, TRUE)
        /\ radio'.status = radio.status
    BY <1>2, <2>1, <2>2, Zenon DEF Fields, Radios
  <2>4. Busy' /\ Pending' = radio.status
    BY <1>1, <2>1, <2>3, Zenon DEF Busy, Pending
  <2>5. DriverTypeOK'
    BY <1>1, <2>1, <2>3, Zenon DEF PhyInv, DriverTypeOK, States, Fields
  <2>6. FlagsInv'
    BY <1>1, <1>2, <2>1, <2>3, <2>4, Zenon DEF PhyInv, FlagsInv, Fields
  <2>7. CountInv'
    BY <1>2, <2>1, <2>3, PhyConstants DEF CountInv, Fields
  <2>8. radio.mode # "tx" /\ "PKSENT" \notin radio.status
    BY <1>2, Zenon DEF PhyInv, IdleInv, Pending, TxFlags
  <2>9. BusyInv' /\ IdleInv'
    BY <1>1, <1>2, <2>1, <2>3, <2>4, <2>8, Zenon DEF BusyInv, IdleInv, Fields
  <2>10. PacketInv'
    BY <1>1, <2>1, <2>3, <2>4, Zenon DEF PhyInv, PacketInv, Pending, Fields
  <2>. QED
    BY <2>5, <2>6, <2>7, <2>9, <2>10, Zenon DEF PhyInv
<1>4. CASE state \notin {"Standby", "Listen"}
  <2>1. /\ pc' = "returned" /\ result' = -1 /\ left' = 0 /\ UNCHANGED <<state, tx_started, radio>>
    BY <1>4, Zenon DEF SendBegin
  <2>2. ~Busy' /\ Pending' = Pending
    BY <1>1, <2>1, Zenon DEF Busy, Pending
  <2>3. DriverTypeOK'
    <3>1. left' \in 0 .. FIFO_SIZE - 1 /\ result' \in {0, -1}
      BY <2>1, PhyConstants
    <3>. QED
      BY <1>1, <2>1, <3>1, Zenon DEF PhyInv, DriverTypeOK
  <2>4. FlagsInv'
    BY <1>1, <1>2, <2>1, <2>2, Zenon DEF PhyInv, FlagsInv
  <2>5. CountInv' /\ BusyInv'
    BY <2>1, <2>2, Zenon DEF CountInv, BusyInv
  <2>6. IdleInv'
    BY <1>1, <1>2, <2>1, <2>2, Zenon DEF PhyInv, IdleInv, Overtaken
  <2>7. PacketInv'
    <3>1. result' # 0
      BY <2>1
    <3>. QED
      BY <1>1, <2>1, <2>2, <3>1, Zenon DEF PhyInv, PacketInv
  <2>. QED
    BY <2>3, <2>4, <2>5, <2>6, <2>7, Zenon DEF PhyInv
<1>. QED
  BY <1>3, <1>4, Zenon

\* A block is put into the FIFO, or an event waited for.
LEMMA FillInv ==
    ASSUME PhyInv, Fill
    PROVE  PhyInv'
<1>1. pc = "fill" /\ seen = {} /\ UNCHANGED <<state, seen, tx_started, result, up, sleepy>>
  BY Zenon DEF PhyInv, FlagsInv, Fill
<1>2. /\ radio \in Radios /\ Busy /\ left \in 0 .. FIFO_SIZE - 1 /\ left # 0
      /\ radio.fifo + left <= FIFO_SIZE - 1 /\ radio.fifo \in 0 .. FIFO_SIZE
      /\ ret \in {"despatch", "begin", "start", "wait"}
  BY <1>1, Zenon DEF PhyInv, DriverTypeOK, CountInv, Busy, Radios
<1>3. CASE state # "Tx"
  <2>1. pc' = "poll" /\ ret' = "start" /\ UNCHANGED <<left, radio>>
    BY <1>3, Zenon DEF Fill
  <2>2. Busy' /\ Pending' = Pending
    BY <1>1, <2>1, Zenon DEF Busy, Pending
  <2>3. DriverTypeOK' /\ FlagsInv' /\ CountInv'
    BY <1>1, <1>2, <2>1, <2>2, Zenon DEF PhyInv, DriverTypeOK, FlagsInv, CountInv
  <2>4. BusyInv' /\ IdleInv'
    BY <1>1, <1>2, <2>1, <2>2, Zenon DEF PhyInv, BusyInv, IdleInv
  <2>5. PacketInv'
    BY <1>1, <2>1, <2>2, Zenon DEF PhyInv, PacketInv
  <2>. QED
    BY <2>3, <2>4, <2>5, Zenon DEF PhyInv
<1>4. CASE state = "Tx"
  <2> DEFINE flags == IF radio.fifo + 1 = TX_WAIT_THRESH THEN radio.status \cup {"TXFFAFULL"}
                      ELSE radio.status
  <2>1. /\ left' = left - 1 /\ radio' = Pushed(radio)
        /\ \/ pc' = "poll" /\ ret' = "start"
           \/ pc' = "fill" /\ ret' = ret /\ left' # 0
    BY <1>1, <1>4, Zenon DEF Fill
  <2>2. radio' = [radio EXCEPT !.fifo = radio.fifo + 1, !.status = flags]
    BY <1>2, <2>1, Zenon DEF Pushed, Radios
  <2>3. /\ flags \subseteq radio.status \cup {"TXFFAFULL"} /\ radio.status \subseteq flags
        /\ radio.status \subseteq Flags /\ "TXFFAFULL" \in Flags
    BY <1>2, Zenon DEF Radios, Flags, Enabled
  <2> HIDE DEF flags
  <2>4. radio.fifo + 1 \in 0 .. FIFO_SIZE /\ left' \in 0 .. FIFO_SIZE - 1
    BY <1>2, <2>1, PhyConstants
  <2>5. Fields(radio', radio.mode, radio.wut, radio.rx, radio.packet, radio.fifo + 1, radio.whole)
        /\ radio'.status = flags /\ radio'.aired = radio.aired
    BY <1>2, <2>2, <2>3, <2>4, Zenon DEF Fields, Radios
  <2>6. Busy' /\ Pending' = flags /\ Pending = radio.status
    BY <1>1, <2>1, <2>5, Zenon DEF Busy, Pending
  <2>7. DriverTypeOK'
    BY <1>1, <1>2, <2>1, <2>4, <2>5, Zenon DEF PhyInv, DriverTypeOK, Fields
  <2>8. FlagsInv'
    BY <1>1, <1>2, <2>1, <2>3, <2>5, <2>6, Zenon DEF PhyInv, FlagsInv, Fields
  <2>9. CountInv'
    BY <1>2, <2>1, <2>5, PhyConstants DEF CountInv, Fields
  <2>10. BusyInv' /\ IdleInv'
    BY <1>1, <1>2, <1>4, <2>3, <2>5, <2>6, Zenon DEF PhyInv, BusyInv, IdleInv, Fields, TxFlags
  <2>11. PacketInv'
    BY <1>1, <2>1, <2>3, <2>5, <2>6, Zenon DEF PhyInv, PacketInv, Fields
  <2>. QED
    BY <2>7, <2>8, <2>9, <2>10, <2>11, Zenon DEF PhyInv
<1>. QED
  BY <1>3, <1>4, Zenon

\* Transmission starts when the FIFO is almost full or holds everything.
LEMMA StartInv ==
    ASSUME PhyInv, Start
    PROVE  PhyInv'
<1>1. /\ pc = "start" /\ seen = {} /\ pc' = (IF left # 0 THEN "fill" ELSE "wait")
      /\ UNCHANGED <<ret, state, seen, left, result, up, sleepy>>
  BY Zenon DEF PhyInv, FlagsInv, Start
<1>2. radio \in Radios /\ Busy /\ Busy'
  BY <1>1, Zenon DEF PhyInv, DriverTypeOK, Busy
<1>3. CASE ~(~tx_started /\ (state = "TxBusy" \/ left = 0))
  <2>1. UNCHANGED <<tx_started, radio>>
    BY <1>3, Zenon DEF Start
  <2>2. Pending' = Pending
    BY <1>1, <2>1, Zenon DEF Pending
  <2>3. DriverTypeOK' /\ FlagsInv'
    BY <1>1, <1>2, <2>1, <2>2, Zenon DEF PhyInv, DriverTypeOK, FlagsInv
  <2>4. CountInv'
    BY <1>1, <1>2, <1>3, <2>1, Zenon DEF PhyInv, CountInv
  <2>5. BusyInv' /\ IdleInv'
    BY <1>1, <1>2, <2>1, <2>2, Zenon DEF PhyInv, BusyInv, IdleInv
  <2>6. PacketInv'
    BY <1>1, <2>1, <2>2, Zenon DEF PhyInv, PacketInv
  <2>. QED
    BY <2>3, <2>4, <2>5, <2>6, Zenon DEF PhyInv
<1>4. CASE ~tx_started /\ (state = "TxBusy" \/ left = 0)
  <2>1. tx_started' = TRUE /\ radio' = Mode(radio, "tx", FALSE)
    BY <1>4, Zenon DEF Start
  <2>2. "tx" \in {"standby", "rx", "tx"} /\ FALSE \in BOOLEAN
    BY Zenon
  <2>3. /\ Fields(radio', "tx", FALSE, IF "tx" = "rx" THEN radio.rx ELSE "none",
                  radio.packet, radio.fifo, radio.whole)
        /\ SameFlags(radio', radio)
    BY <1>2, <2>1, <2>2, ModeFields, Zenon
  <2>4. /\ radio' \in Radios /\ radio'.wut = FALSE /\ radio'.mode = "tx" /\ radio'.rx = "none" /\ radio'.packet = radio.packet
        /\ radio'.fifo = radio.fifo /\ radio'.status = radio.status /\ radio'.aired = radio.aired
    BY <2>3, Zenon DEF Fields, SameFlags
  <2>5. Pending' = Pending
    BY <1>1, <2>4, Zenon DEF Pending
  <2>6. DriverTypeOK' /\ FlagsInv'
    BY <1>1, <1>2, <2>1, <2>4, <2>5, Zenon DEF PhyInv, DriverTypeOK, FlagsInv
  <2>7. CountInv'
    BY <1>1, <1>2, <2>1, <2>4, Zenon DEF PhyInv, CountInv
  <2>8. BusyInv' /\ IdleInv'
    BY <1>1, <1>2, <1>4, <2>1, <2>4, <2>5, ZenonT(30) DEF PhyInv, BusyInv, IdleInv
  <2>9. PacketInv'
    BY <1>1, <2>4, <2>5, Zenon DEF PhyInv, PacketInv
  <2>. QED
    BY <2>6, <2>7, <2>8, <2>9, Zenon DEF PhyInv
<1>. QED
  BY <1>3, <1>4, Zenon

\* Standby ends the wait: the packet is out and no flag is left behind.
LEMMA WaitInv ==
    ASSUME PhyInv, Wait
    PROVE  PhyInv'
<1>1. pc = "wait" /\ seen = {} /\ UNCHANGED <<seen, left, tx_started, up, sleepy>>
  BY Zenon DEF PhyInv, FlagsInv, Wait
<1>2. radio \in Radios /\ Busy /\ left = 0 /\ tx_started
  BY <1>1, Zenon DEF PhyInv, DriverTypeOK, CountInv, Busy
<1>3. CASE state # "Standby"
  <2>1. pc' = "poll" /\ ret' = "wait" /\ UNCHANGED <<state, result, radio>>
    BY <1>3, Zenon DEF Wait
  <2>2. Busy' /\ Pending' = Pending
    BY <1>1, <2>1, Zenon DEF Busy, Pending
  <2>3. DriverTypeOK' /\ FlagsInv'
    BY <1>1, <1>2, <2>1, <2>2, Zenon DEF PhyInv, DriverTypeOK, FlagsInv
  <2>4. CountInv'
    BY <1>1, <1>2, <2>1, Zenon DEF PhyInv, CountInv
  <2>5. BusyInv' /\ IdleInv'
    BY <1>1, <1>2, <2>1, <2>2, Zenon DEF PhyInv, BusyInv, IdleInv
  <2>6. PacketInv'
    BY <1>1, <2>1, <2>2, Zenon DEF PhyInv, PacketInv
  <2>. QED
    BY <2>3, <2>4, <2>5, <2>6, Zenon DEF PhyInv
<1>4. CASE state = "Standby"
  <2>1. pc' = "returned" /\ result' = 0 /\ state' = "Listen" /\ radio' = Listen(radio) /\ UNCHANGED ret
    BY <1>4, Zenon DEF Wait
  <2>2. /\ radio' \in Radios /\ radio'.mode = "rx" /\ radio'.status = radio.status
        /\ radio'.aired = radio.aired /\ radio'.wut = FALSE
    BY <1>2, <2>1, ListenFields, Zenon DEF Fields, SameFlags
  <2>3. radio.status = {} /\ radio.aired
    BY <1>2, <1>4, Zenon DEF PhyInv, BusyInv
  <2>4. ~Busy' /\ Pending' = {}
    BY <1>1, <2>1, <2>2, <2>3, Zenon DEF Busy, Pending
  <2>5. DriverTypeOK'
    BY <1>1, <2>1, <2>2, Zenon DEF PhyInv, DriverTypeOK, States
  <2>6. FlagsInv' /\ CountInv' /\ BusyInv'
    BY <1>1, <2>1, <2>2, <2>3, <2>4, Zenon DEF FlagsInv, CountInv, BusyInv
  <2>7. IdleInv'
    BY <1>1, <2>1, <2>2, <2>3, <2>4, Zenon DEF IdleInv
  <2>8. PacketInv'
    BY <1>1, <2>1, <2>2, <2>3, <2>4, Zenon DEF PhyInv, PacketInv
  <2>. QED
    BY <2>5, <2>6, <2>7, <2>8, Zenon DEF PhyInv
<1>. QED
  BY <1>3, <1>4, Zenon

----------------------------------------------------------------------------
(* The radio's steps. *)

\* The receiver's part of a step that raises flags: the reception goes on or is
\* over, and a valid packet switches the receiver off.
Receives(r, q, new) ==
    /\ q \in Radios /\ q.status = r.status \cup new
    /\ q.wut = r.wut /\ q.aired = r.aired /\ q.fifo = r.fifo
    /\ q.rx # "none" \/ new \cap Done # {}
    /\ q.mode = r.mode \/ ("PKVALID" \in new /\ q.mode = "standby")
    /\ q.packet = r.packet \/ q.packet = "held"
    /\ "PKVALID" \in new => q.packet = "held"

\* Flags that the receiver raises by itself.
RxFlags(new) ==
    /\ new \subseteq Flags /\ new \cap TxFlags = {} /\ "WUT" \notin new
    /\ "FFERR" \in new => "CRCERROR" \in new

\* The receiver raises a flag: what has to be shown of it, whether phy_send is
\* filling the FIFO or not.
LEMMA RaiseInv ==
    ASSUME PhyInv, UNCHANGED driver, radio.mode = "rx" \/ radio.rx # "none",
           NEW new, RxFlags(new), Receives(radio, radio', new)
    PROVE  PhyInv'
<1>1. UNCHANGED <<pc, ret, state, seen, left, tx_started, result, up, sleepy>>
  BY Zenon DEF driver
<1>2. (Busy' <=> Busy) /\ Pending' = Pending \cup new
  BY <1>1, Zenon DEF Busy, Pending, Receives
<1>3. DriverTypeOK'
  BY <1>1, ZenonT(30) DEF PhyInv, DriverTypeOK, Receives
<1>4. FlagsInv'
  BY <1>1, <1>2, Zenon DEF PhyInv, FlagsInv, Receives, RxFlags
<1>5. CountInv'
  BY <1>1, <1>2, Zenon DEF PhyInv, CountInv, Receives
<1>6. "PKSENT" \notin new /\ "WUT" \notin new
  BY Zenon DEF RxFlags, TxFlags
<1>7. BusyInv'
  <2> SUFFICES ASSUME Busy PROVE BusyInv'
    BY <1>2, Zenon DEF BusyInv
  <2>1. ~tx_started /\ radio.mode # "tx" /\ state # "Standby" /\ "PKSENT" \notin Pending
    BY Zenon DEF PhyInv, BusyInv
  <2>2. "PKSENT" \notin seen
    BY <2>1, Zenon DEF Pending
  <2>3. radio'.mode # "tx"
    BY <2>1, Zenon DEF Receives
  <2>. QED
    BY <1>1, <1>2, <1>6, <2>1, <2>2, <2>3, Zenon DEF BusyInv
<1>8. IdleInv'
  <2> SUFFICES ASSUME ~Busy PROVE IdleInv'
    BY <1>2, Zenon DEF IdleInv
  <2>1. /\ radio.mode # "tx" /\ state \notin {"Tx", "TxBusy"} /\ Pending \cap TxFlags = {}
        /\ state # "Standby"
    BY Zenon DEF PhyInv, IdleInv
  <2>2. radio'.mode # "tx" /\ Pending' \cap TxFlags = {}
    BY <1>2, <2>1, Zenon DEF Receives, RxFlags
  <2>3. radio'.status \cap Done # {} \/ radio'.rx # "none"
    BY Zenon DEF Receives
  <2>4. Pending' \cap Ends # {} \/ radio'.rx # "none"
    BY <1>2, Zenon DEF Receives, Done, Ends
  <2>5. state = "Listen" => Pending' \cap Ends # {} \/ radio'.mode = "rx"
    <3>1. state = "Listen" => Pending \cap Ends # {} \/ radio.mode = "rx"
      BY Zenon DEF PhyInv, IdleInv
    <3>2. radio'.mode = radio.mode \/ "PKVALID" \in new
      BY Zenon DEF Receives
    <3>. QED
      BY <1>2, <3>1, <3>2, Zenon DEF Ends
  <2>. QED
    BY <1>1, <2>1, <2>2, <2>3, <2>4, <2>5, Zenon DEF IdleInv
<1>9. PacketInv'
  <2>1. "PKVALID" \in Pending' => "PKVALID" \in Pending \/ radio'.packet = "held"
    BY <1>2, Zenon DEF Receives
  <2>2. radio.packet # "none" => radio'.packet # "none"
    BY Zenon DEF Receives
  <2>3. "held" # "none" /\ radio'.aired = radio.aired
    BY Zenon DEF Receives
  <2>. QED
    BY <1>1, <2>1, <2>2, <2>3, Zenon DEF PhyInv, PacketInv
<1>. QED
  BY <1>3, <1>4, <1>5, <1>7, <1>8, <1>9, Zenon DEF PhyInv

\* A sync word is found; phy_send may already have the transmitter.
LEMMA SyncDetectedInv ==
    ASSUME PhyInv, SyncDetected, UNCHANGED driver
    PROVE  PhyInv'
<1>1. radio.mode = "rx" /\ radio \in Radios /\ "SWDET" \in Flags
  BY Zenon DEF SyncDetected, PhyInv, DriverTypeOK, Flags, Enabled
<1>2. radio' = [radio EXCEPT !.status = radio.status \cup {"SWDET"}, !.rx = "sync"]
  BY <1>1, Zenon DEF SyncDetected, Raise, Radios
<1>3. Receives(radio, radio', {"SWDET"})
  BY <1>1, <1>2, Zenon DEF Receives, Radios
<1>4. RxFlags({"SWDET"})
  BY <1>1, Zenon DEF RxFlags, TxFlags
<1>. QED
  BY <1>1, <1>3, <1>4, RaiseInv, Zenon

\* The receive FIFO fills.
LEMMA RxHalfFullInv ==
    ASSUME PhyInv, RxHalfFull, UNCHANGED driver
    PROVE  PhyInv'
<1>1. radio \in Radios /\ radio.rx # "none" /\ "RXFFAFULL" \in Flags
  BY Zenon DEF RxHalfFull, PhyInv, DriverTypeOK, Flags, Enabled
<1>2. radio' = [radio EXCEPT !.status = radio.status \cup {"RXFFAFULL"}, !.rx = "half"]
  BY <1>1, Zenon DEF RxHalfFull, Raise, Radios
<1>3. Receives(radio, radio', {"RXFFAFULL"})
  BY <1>1, <1>2, Zenon DEF Receives, Radios
<1>4. RxFlags({"RXFFAFULL"})
  BY <1>1, Zenon DEF RxFlags, TxFlags
<1>. QED
  BY <1>1, <1>3, <1>4, RaiseInv, Zenon

\* A reception ends, well or badly.
LEMMA ReceptionEndsInv ==
    ASSUME PhyInv, ReceptionEnds, UNCHANGED driver
    PROVE  PhyInv'
<1>1. radio \in Radios /\ radio.rx # "none"
  BY Zenon DEF ReceptionEnds, PhyInv, DriverTypeOK
<1>2. CASE radio' = [Raise(radio, {"PKVALID"}) EXCEPT !.rx = "none", !.packet = "held", !.mode = "standby"]
  <2>1. radio' = [radio EXCEPT !.status = radio.status \cup {"PKVALID"}, !.rx = "none",
                               !.packet = "held", !.mode = "standby"]
    BY <1>1, <1>2, Zenon DEF Raise, Radios
  <2>2. "PKVALID" \in Flags /\ {"PKVALID"} \cap Done # {}
    BY Zenon DEF Flags, Enabled, Done
  <2>3. Receives(radio, radio', {"PKVALID"})
    BY <1>1, <2>1, <2>2, Zenon DEF Receives, Radios
  <2>4. RxFlags({"PKVALID"})
    BY <2>2, Zenon DEF RxFlags, TxFlags
  <2>. QED
    BY <1>1, <2>3, <2>4, RaiseInv, Zenon
<1>3. ASSUME NEW extra \in {{}, {"FFERR"}},
             radio' = [Raise(radio, {"CRCERROR"} \cup extra) EXCEPT !.rx = "none"]
      PROVE  PhyInv'
  <2> DEFINE new == {"CRCERROR"} \cup extra
  <2>1. radio' = [radio EXCEPT !.status = radio.status \cup new, !.rx = "none"]
    BY <1>1, <1>3, Zenon DEF Raise, Radios
  <2>2. RxFlags(new) /\ "PKVALID" \notin new
    BY <1>3, Zenon DEF RxFlags, Flags, Enabled, TxFlags
  <2>3. new \cap Done # {} /\ new \subseteq Flags
    BY <2>2, Zenon DEF Done, RxFlags
  <2> HIDE DEF new
  <2>4. Receives(radio, radio', new)
    BY <1>1, <2>1, <2>2, <2>3, Zenon DEF Receives, Radios
  <2>. QED
    BY <1>1, <2>2, <2>4, RaiseInv, Zenon
<1>. QED
  BY <1>2, <1>3, Zenon DEF ReceptionEnds

\* The transmitter sends what is in its FIFO.
LEMMA DrainInv ==
    ASSUME PhyInv, Drain, UNCHANGED driver
    PROVE  PhyInv'
<1>1. UNCHANGED <<pc, ret, state, seen, left, tx_started, result, up, sleepy>>
  BY Zenon DEF driver
<1>2. radio \in Radios /\ radio.mode = "tx" /\ radio.fifo > 0 /\ radio.fifo \in 0 .. FIFO_SIZE
  BY Zenon DEF Drain, PhyInv, DriverTypeOK, Radios
<1>3. Busy /\ Busy'
  BY <1>1, <1>2, Zenon DEF PhyInv, IdleInv, Busy
<1> DEFINE new == IF radio.fifo - 1 = TX_RESUME_THRESH THEN {"TXFFAEM"} ELSE {}
<1>4. radio' = [radio EXCEPT !.status = radio.status \cup new, !.fifo = radio.fifo - 1]
  BY <1>2, Zenon DEF Drain, Raise, Radios
<1>5. new \subseteq {"TXFFAEM"} /\ "TXFFAEM" \in Flags /\ "TXFFAEM" \in TxFlags
  BY Zenon DEF Flags, Enabled, TxFlags
<1> HIDE DEF new
<1>6. radio.fifo - 1 \in 0 .. FIFO_SIZE
  BY <1>2, PhyConstants
<1>7. /\ Fields(radio', "tx", radio.wut, radio.rx, radio.packet, radio.fifo - 1, radio.whole)
      /\ radio'.status = radio.status \cup new /\ radio'.aired = radio.aired
  BY <1>2, <1>4, <1>5, <1>6, Zenon DEF Radios, Fields
<1>8. Pending' = Pending \cup new
  BY <1>1, <1>7, Zenon DEF Pending
<1>9. state # "Standby" /\ "PKSENT" \notin Pending
  BY <1>2, <1>3, Zenon DEF PhyInv, BusyInv
<1>10. DriverTypeOK'
  BY <1>1, <1>7, Zenon DEF PhyInv, DriverTypeOK, Fields
<1>11. FlagsInv'
  BY <1>1, <1>3, <1>5, <1>7, <1>8, Zenon DEF PhyInv, FlagsInv, Fields
<1>12. CountInv'
  <2>1. left \in 0 .. FIFO_SIZE - 1 /\ radio.fifo + left <= FIFO_SIZE - 1
    BY <1>3, Zenon DEF PhyInv, CountInv, DriverTypeOK
  <2>2. radio'.fifo + left' <= FIFO_SIZE - 1
    BY <1>1, <1>2, <1>7, <2>1, PhyConstants DEF Fields
  <2>. QED
    BY <1>1, <2>2, Zenon DEF PhyInv, CountInv
<1>13. BusyInv' /\ IdleInv'
  BY <1>1, <1>2, <1>3, <1>5, <1>7, <1>8, <1>9, Zenon DEF PhyInv, BusyInv, IdleInv, Fields, Pending
<1>14. PacketInv'
  BY <1>1, <1>5, <1>7, <1>8, Zenon DEF PhyInv, PacketInv, Fields
<1>. QED
  BY <1>10, <1>11, <1>12, <1>13, <1>14, Zenon DEF PhyInv

\* The last of it is out.
LEMMA PacketSentInv ==
    ASSUME PhyInv, PacketSent, UNCHANGED driver
    PROVE  PhyInv'
<1>1. UNCHANGED <<pc, ret, state, seen, left, tx_started, result, up, sleepy>>
  BY Zenon DEF driver
<1>2. radio \in Radios /\ radio.mode = "tx" /\ left = 0 /\ "PKSENT" \in Flags
  BY Zenon DEF PacketSent, PhyInv, DriverTypeOK, Flags, Enabled
<1>3. Busy /\ Busy'
  BY <1>1, <1>2, Zenon DEF PhyInv, IdleInv, Busy
<1>4. radio' = [radio EXCEPT !.status = radio.status \cup {"PKSENT"}, !.mode = "standby", !.aired = TRUE]
  BY <1>2, Zenon DEF PacketSent, Raise, Radios
<1>5. /\ Fields(radio', "standby", radio.wut, radio.rx, radio.packet, radio.fifo, radio.whole)
      /\ radio'.status = radio.status \cup {"PKSENT"} /\ radio'.aired = TRUE
  BY <1>2, <1>4, Zenon DEF Radios, Fields
<1>6. Pending' = Pending \cup {"PKSENT"} /\ "PKSENT" \in TxFlags
  BY <1>1, <1>5, Zenon DEF Pending, TxFlags
<1>7. state # "Standby" /\ "PKSENT" \notin Pending /\ tx_started
  BY <1>2, <1>3, Zenon DEF PhyInv, BusyInv
<1>8. DriverTypeOK'
  BY <1>1, <1>5, Zenon DEF PhyInv, DriverTypeOK, Fields
<1>9. FlagsInv'
  BY <1>1, <1>3, <1>5, <1>6, Zenon DEF PhyInv, FlagsInv, Fields
<1>10. CountInv'
  BY <1>1, <1>3, <1>5, Zenon DEF PhyInv, CountInv, Fields
<1>11. BusyInv' /\ IdleInv'
  BY <1>1, <1>2, <1>3, <1>5, <1>6, <1>7, Zenon DEF PhyInv, BusyInv, IdleInv, Fields, Pending
<1>12. PacketInv'
  BY <1>1, <1>5, <1>6, Zenon DEF PhyInv, PacketInv, Fields
<1>. QED
  BY <1>8, <1>9, <1>10, <1>11, <1>12, Zenon DEF PhyInv

\* The wake-up timer runs out, phy_send not running.
LEMMA WakeUpInv ==
    ASSUME PhyInv, ~Sending, WakeUp, UNCHANGED driver
    PROVE  PhyInv'
<1>1. UNCHANGED <<pc, ret, state, seen, left, tx_started, result, up, sleepy>>
  BY Zenon DEF driver
<1>2. radio \in Radios /\ radio.wut /\ "WUT" \in Flags
  BY Zenon DEF WakeUp, PhyInv, DriverTypeOK, Flags, Enabled
<1>3. ~Busy /\ ~Busy' /\ pc \notin {"begin", "returned"}
  BY <1>1, Zenon DEF Sending, Busy
<1>4. radio' = [radio EXCEPT !.status = radio.status \cup {"WUT"}]
  BY <1>2, Zenon DEF WakeUp, Raise, Radios
<1>5. /\ Fields(radio', radio.mode, radio.wut, radio.rx, radio.packet, radio.fifo, radio.whole)
      /\ radio'.status = radio.status \cup {"WUT"} /\ radio'.aired = radio.aired
  BY <1>2, <1>4, Zenon DEF Radios, Fields
<1>6. Pending' = Pending \cup {"WUT"}
  BY <1>1, <1>5, Zenon DEF Pending
<1>7. DriverTypeOK'
  BY <1>1, <1>5, Zenon DEF PhyInv, DriverTypeOK, Fields
<1>8. FlagsInv'
  BY <1>1, <1>2, <1>3, <1>5, <1>6, Zenon DEF PhyInv, FlagsInv, Fields
<1>9. CountInv' /\ BusyInv'
  BY <1>1, <1>3, Zenon DEF PhyInv, CountInv, BusyInv
<1>10. IdleInv'
  <2>1. state # "Standby"
    BY <1>2, <1>3, Zenon DEF PhyInv, IdleInv
  <2>2. radio'.mode = radio.mode /\ radio'.rx = radio.rx
    BY <1>5, Zenon DEF Fields
  <2>3. radio'.status \cap Begun # {} => radio.status \cap Begun # {}
    BY <1>5, Zenon DEF Begun
  <2>4. radio.status \cap Done # {} => radio'.status \cap Done # {}
    BY <1>5, Zenon
  <2>5. Pending' \cap Ends # {} /\ (Pending \cap TxFlags = {} => Pending' \cap TxFlags = {})
    BY <1>6, Zenon DEF Ends, TxFlags
  <2>. QED
    BY <1>1, <1>3, <2>1, <2>2, <2>3, <2>4, <2>5, Zenon DEF PhyInv, IdleInv
<1>11. PacketInv'
  BY <1>1, <1>5, <1>6, Zenon DEF PhyInv, PacketInv, Fields
<1>. QED
  BY <1>7, <1>8, <1>9, <1>10, <1>11, Zenon DEF PhyInv

----------------------------------------------------------------------------
(* The theorems. *)

\* phy_init and the phy_listen of tinymac_init establish the invariant.
LEMMA PhyInitInv == Init => PhyInv
<1> SUFFICES ASSUME Init PROVE PhyInv
  BY Zenon
<1>1. /\ pc = "main" /\ ret = "despatch" /\ seen = {} /\ left = 0 /\ tx_started = FALSE
      /\ result = 0 /\ up = "none" /\ sleepy \in BOOLEAN
      /\ state = IF sleepy THEN "Standby" ELSE "Listen"
  BY Zenon DEF Init
<1>2. /\ radio \in Radios /\ radio.mode = (IF sleepy THEN "standby" ELSE "rx") /\ radio.wut = FALSE
      /\ radio.status = {} /\ radio.rx = "none"
  <2> DEFINE mode == IF sleepy THEN "standby" ELSE "rx"
  <2>1. radio = [mode |-> mode, wut |-> FALSE, status |-> {}, fifo |-> 0, whole |-> FALSE,
                 rx |-> "none", packet |-> "none", aired |-> FALSE]
    BY Zenon DEF Init
  <2>2. mode \in {"standby", "rx", "tx"} /\ 0 \in 0 .. FIFO_SIZE
    BY PhyConstants
  <2> HIDE DEF mode
  <2>3. radio \in Radios /\ radio.mode = mode /\ radio.wut = FALSE /\ radio.status = {} /\ radio.rx = "none"
    BY <2>1, <2>2, Zenon DEF Radios
  <2>. QED
    BY <2>3, Zenon DEF mode
<1>3. ~Busy /\ Pending = {}
  BY <1>1, <1>2, Zenon DEF Busy, Pending
<1>4. DriverTypeOK
  <2>1. left \in 0 .. FIFO_SIZE - 1 /\ result \in {0, -1}
    BY <1>1, PhyConstants
  <2>. QED
    BY <1>1, <1>2, <2>1, Zenon DEF DriverTypeOK, States
<1>5. FlagsInv /\ CountInv /\ BusyInv
  BY <1>1, <1>2, <1>3, Zenon DEF FlagsInv, CountInv, BusyInv
<1>6. IdleInv
  BY <1>1, <1>2, <1>3, Zenon DEF IdleInv
<1>7. PacketInv
  BY <1>1, <1>3, Zenon DEF PacketInv
<1>. QED
  BY <1>4, <1>5, <1>6, <1>7, Zenon DEF PhyInv

\* Every step of the driver and of the radio preserves it.
LEMMA PhyNextInv == PhyInv /\ [QuietNext]_vars => PhyInv'
<1> SUFFICES ASSUME PhyInv, [QuietNext]_vars PROVE PhyInv'
  BY Zenon
<1>1. CASE EventHandler
  BY <1>1, EventHandlerInv, Zenon
<1>2. ASSUME NEW size \in Sizes, Send(size) PROVE PhyInv'
  BY <1>2, SendInv, Zenon
<1>3. CASE DriverStep
  BY <1>3, PollInv, ApplyFlagsInv, DespatchInv, CallbackInv, SendBeginInv, FillInv, StartInv,
     WaitInv, ReturnedInv, Zenon DEF DriverStep
<1>4. CASE RadioStep /\ UNCHANGED driver
  BY <1>4, SyncDetectedInv, RxHalfFullInv, ReceptionEndsInv, DrainInv, PacketSentInv, Zenon
     DEF RadioStep, Transmission
<1>5. CASE ~Sending /\ WakeUp /\ UNCHANGED driver
  BY <1>5, WakeUpInv, Zenon
<1>6. CASE UNCHANGED vars
  <2>1. UNCHANGED <<pc, ret, state, seen, left, tx_started, result, up, sleepy, radio>>
    BY <1>6, Zenon DEF vars, driver
  <2>2. (Busy' <=> Busy) /\ Pending' = Pending
    BY <2>1, Zenon DEF Busy, Pending
  <2>3. DriverTypeOK' /\ PacketInv'
    BY <2>1, <2>2 DEF PhyInv, DriverTypeOK, PacketInv
  <2>4. FlagsInv' /\ CountInv'
    BY <2>1, <2>2, Zenon DEF PhyInv, FlagsInv, CountInv
  <2>5. BusyInv'
    BY <2>1, <2>2, Zenon DEF PhyInv, BusyInv
  <2>6. IdleInv'
    BY <2>1, <2>2, Zenon DEF PhyInv, IdleInv, Overtaken
  <2>. QED
    BY <2>3, <2>4, <2>5, <2>6, Zenon DEF PhyInv
<1>. QED
  BY <1>1, <1>2, <1>3, <1>4, <1>5, <1>6, Zenon DEF QuietNext, Step

\* The invariant holds of every behaviour, fair or not.
LEMMA PhyInvariant == QuietSpec => []PhyInv
<1>1. QuietSpec => Init /\ [][QuietNext]_vars
  BY Zenon DEF QuietSpec
<1>. QED
  BY <1>1, PhyInitInv, PhyNextInv, PTL

\* The driver's variables and the radio's FIFO keep their ranges: phy_send
\* never writes past the transmit FIFO, for every size that phy_get_mtu allows
\* and any thresholds, nor goes on filling when nothing is left.
THEOREM PhyTypeCorrect == QuietSpec => []DriverTypeOK
<1>1. PhyInv => DriverTypeOK
  BY Zenon DEF PhyInv
<1>. QED
  BY <1>1, PhyInvariant, PTL

\* When phy_send returns 0 the whole packet has been sent, whatever is received
\* while the FIFO is being filled, provided the wake-up timer does not run out
\* meanwhile.
THEOREM PhySuccessMeansSent == QuietSpec => []SuccessMeansSent
<1>1. PhyInv => SuccessMeansSent
  BY Zenon DEF PhyInv, PacketInv, SuccessMeansSent
<1>. QED
  BY <1>1, PhyInvariant, PTL

\* phy_event_handler never reads a FIFO that has been cleared since PKVALID was
\* read, nor one that has not been given a packet.
THEOREM PhyCallbackGetsPacket == QuietSpec => []CallbackGetsPacket
<1>1. PhyInv => CallbackGetsPacket
  BY Zenon DEF PhyInv, PacketInv, CallbackGetsPacket
<1>. QED
  BY <1>1, PhyInvariant, PTL

\* Between two events phy_si443x_state is what the radio is doing, however the
\* flags of a reception, a sync word and the timer came together.
THEOREM PhyStateMatchesRadio == QuietSpec => []StateMatchesRadio
<1>1. PhyInv => StateMatchesRadio
  <2> SUFFICES ASSUME PhyInv, pc = "main", radio.status = {}
               PROVE  /\ state \in {"Rx", "RxReady"} => radio.rx # "none" \/ Overtaken
                      /\ state = "Listen" => radio.mode = "rx"
                      /\ state = "Standby" => radio.mode = "standby" /\ ~radio.wut
    BY Zenon DEF StateMatchesRadio, Overtaken
  <2>1. ~Busy /\ Pending = {}
    BY Zenon DEF PhyInv, FlagsInv, Busy, Pending
  <2>. QED
    BY <2>1, Zenon DEF PhyInv, IdleInv
<1>. QED
  BY <1>1, PhyInvariant, PTL

=============================================================================
