--------------------------- MODULE Schedule_proofs --------------------------
(***************************************************************************)
(* The transmit schedule, for every length of the windows, every width of  *)
(* the counters and every guard.                                           *)
(*                                                                         *)
(* The argument: what the functions of sync.c compute in unsigned          *)
(* arithmetic from two numbers is a function of one integer, the Place of  *)
(* a clock, modulo a cycle of the window counter.  Two clocks whose places *)
(* differ by less than the guard are in slots that the sender has looked   *)
(* at.                                                                     *)
(***************************************************************************)
EXTENDS Schedule, TLAPS

\* EAWs in a cycle of the window counter, and its length.
EawsPerCycle == U16 \div Presence
CycleUs == EawUs * EawsPerCycle

LEMMA Widths ==
  /\ TU \in Nat \ {0} /\ AwPeriod \in Nat \ {0} /\ Presence \in Nat \ {0}
  /\ U16 \in Nat \ {0} /\ U64 \in Nat \ {0}
  /\ EawTu \in Nat \ {0} /\ EawUs \in Nat \ {0}
  /\ EawsPerCycle \in Nat \ {0} /\ U16 = Presence * EawsPerCycle
  /\ CycleUs \in Nat \ {0}
  /\ U64 = CycleUs * (U64 \div CycleUs) /\ U64 \div CycleUs \in Nat
<1>1. /\ TU \in Nat \ {0} /\ AwPeriod \in Nat \ {0} /\ Presence \in Nat \ {0}
      /\ U16 \in Nat \ {0} /\ U64 \in Nat \ {0} /\ U16 % Presence = 0
  BY WidthAssumption
<1>2. EawTu \in Nat \ {0}
  BY <1>1 DEF EawTu
<1>3. EawUs \in Nat \ {0}
  BY <1>1, <1>2 DEF EawUs
<1>4. U16 \div Presence \in Nat /\ U16 = Presence * (U16 \div Presence)
  BY <1>1
<1>5. EawsPerCycle \in Nat \ {0} /\ U16 = Presence * EawsPerCycle
  <2> DEFINE c == U16 \div Presence
  <2>1. c \in Nat /\ U16 = Presence * c
    BY <1>4
  <2> HIDE DEF c
  <2>2. c # 0
    BY <1>1, <2>1
  <2> QED BY <2>1, <2>2 DEF EawsPerCycle, c
<1>6. CycleUs \in Nat \ {0}
  BY <1>3, <1>5 DEF CycleUs
<1>7. U64 % CycleUs = 0
  BY WidthAssumption DEF CycleUs, EawsPerCycle
<1>8. U64 = CycleUs * (U64 \div CycleUs) /\ U64 \div CycleUs \in Nat
  <2> HIDE DEF CycleUs
  <2> QED BY <1>1, <1>6, <1>7
<1> QED BY <1>1, <1>2, <1>3, <1>5, <1>6, <1>8

-----------------------------------------------------------------------------
(* Division, for a dividend of either sign. *)

LEMMA DivMod ==
  ASSUME NEW a \in Int, NEW n \in Nat \ {0}
  PROVE  /\ a \div n \in Int /\ a % n \in Int
         /\ a % n >= 0 /\ a % n < n
         /\ a = n * (a \div n) + (a % n)
OBVIOUS

LEMMA DivModUnique ==
  ASSUME NEW a \in Int, NEW n \in Nat \ {0}, NEW q \in Int, NEW r \in Int,
         0 <= r, r < n, a = n * q + r
  PROVE  a \div n = q /\ a % n = r
OBVIOUS

LEMMA DivExact ==
  ASSUME NEW a \in Nat, NEW n \in Nat \ {0}
  PROVE  /\ a \div n \in Nat
         /\ a % n = 0 => a = n * (a \div n)
OBVIOUS

\* Adding multiples of the divisor.
LEMMA DivModShift ==
  ASSUME NEW a \in Int, NEW n \in Nat \ {0}, NEW k \in Int
  PROVE  /\ (a + n * k) \div n = (a \div n) + k
         /\ (a + n * k) % n = a % n
<1> DEFINE q == a \div n
           r == a % n
<1>1. q \in Int /\ r \in Int /\ r >= 0 /\ r < n /\ a = n * q + r
  BY DivMod
<1> HIDE DEF q, r
<1>2. n * (q + k) = n * q + n * k /\ n * q \in Int /\ n * k \in Int
  BY <1>1
<1>3. a + n * k = n * (q + k) + r
  BY <1>1, <1>2
<1>4. a + n * k \in Int /\ q + k \in Int
  BY <1>1, <1>2
<1>5. (a + n * k) \div n = q + k /\ (a + n * k) % n = r
  BY <1>1, <1>3, <1>4, DivModUnique
<1> QED BY <1>5 DEF q, r

\* Dividing in two steps.
LEMMA DivDiv ==
  ASSUME NEW a \in Int, NEW m \in Nat \ {0}, NEW n \in Nat \ {0}
  PROVE  /\ a \div (m * n) = (a \div m) \div n
         /\ a % (m * n) = m * ((a \div m) % n) + (a % m)
<1> DEFINE q == a \div m
           r == a % m
           x == q \div n
           y == q % n
<1>1. q \in Int /\ r \in Int /\ r >= 0 /\ r < m /\ a = m * q + r
  BY DivMod
<1> HIDE DEF q, r
<1>2. x \in Int /\ y \in Int /\ y >= 0 /\ y < n /\ q = n * x + y
  BY <1>1, DivMod
<1> HIDE DEF x, y
<1>3. m * n \in Nat \ {0} /\ m * y \in Int /\ m * y >= 0
  BY <1>2
<1>4. m * y + r < m * n
  <2>1. y + 1 <= n
    BY <1>2
  <2>2. m * (y + 1) <= m * n
    BY <1>2, <2>1
  <2>3. m * (y + 1) = m * y + m
    BY <1>2
  <2> QED BY <1>1, <1>3, <2>2, <2>3
<1>5. a = (m * n) * x + (m * y + r)
  <2>1. m * q = m * (n * x) + m * y
    BY <1>1, <1>2
  <2>2. m * (n * x) = (m * n) * x
    BY <1>2
  <2>3. (m * n) * x \in Int
    BY <1>2, <1>3
  <2>4. \A u, v, w \in Int : (u + v) + w = u + (v + w)
    OBVIOUS
  <2>5. a = ((m * n) * x + m * y) + r
    BY <1>1, <2>1, <2>2, Zenon
  <2> QED BY <1>1, <1>3, <2>3, <2>4, <2>5, Zenon
<1>6. a \div (m * n) = x /\ a % (m * n) = m * y + r
  <2> DEFINE d == m * n
             s == m * y + r
  <2>1. d \in Nat \ {0} /\ s \in Int /\ 0 <= s /\ s < d /\ a = d * x + s
    BY <1>1, <1>3, <1>4, <1>5
  <2> HIDE DEF d, s
  <2>2. a \div d = x /\ a % d = s
    BY <1>2, <2>1, DivModUnique
  <2> QED BY <2>2 DEF d, s
<1> QED BY <1>6 DEF q, r, x, y

-----------------------------------------------------------------------------
(* The place of a clock. *)

IsClock(s) ==
  /\ s.last_update \in Int
  /\ s.aw_counter \in Nat
  /\ s.aw_counter % Presence = 0

Place(t, s) == (s.aw_counter \div Presence) * EawUs + (t - s.last_update)

Congruent(a, b) == \E k \in Int : a = b + CycleUs * k

LEMMA CongruentAdd ==
  ASSUME NEW a \in Int, NEW b \in Int, NEW c \in Int, NEW d \in Int,
         Congruent(a, b)
  PROVE  /\ Congruent(b, a)
         /\ Congruent(a + d, b + d)
         /\ Congruent(b, c) => Congruent(a, c)
<1>0. CycleUs \in Nat \ {0}
  BY Widths
<1>1. PICK k \in Int : a = b + CycleUs * k
  BY DEF Congruent
<1>2. CycleUs * k \in Int /\ CycleUs * (-k) = -(CycleUs * k) /\ -k \in Int
  BY <1>0
<1>3. b = a + CycleUs * (-k) /\ a + d = (b + d) + CycleUs * k
  BY <1>1, <1>2
<1>4. ASSUME NEW l \in Int, b = c + CycleUs * l
      PROVE  a = c + CycleUs * (l + k) /\ l + k \in Int
  <2>1. CycleUs * (l + k) = CycleUs * l + CycleUs * k /\ CycleUs * l \in Int
    BY <1>0
  <2> QED BY <1>1, <1>2, <1>4, <2>1
<1> QED BY <1>2, <1>3, <1>1, <1>4 DEF Congruent

LEMMA PlaceType ==
  ASSUME NEW t \in Int, NEW s, IsClock(s)
  PROVE  /\ Place(t, s) \in Int
         /\ \A d \in Int : Place(t + d, s) = Place(t, s) + d
<1> DEFINE x == (s.aw_counter \div Presence) * EawUs
<1>1. s.aw_counter \div Presence \in Int /\ EawUs \in Int
  BY Widths, DivMod DEF IsClock
<1>2. x \in Int
  BY <1>1
<1> HIDE DEF x
<1>3. \A u \in Int : x + (u - s.last_update) \in Int
  BY <1>2 DEF IsClock
<1>4. Place(t, s) = x + (t - s.last_update)
  BY DEF Place, x
<1>5. ASSUME NEW d \in Int
      PROVE  Place(t + d, s) = Place(t, s) + d
  <2>1. Place(t + d, s) = x + ((t + d) - s.last_update)
    BY DEF Place, x
  <2>2. x + ((t + d) - s.last_update) = x + (t - s.last_update) + d
    BY <1>2 DEF IsClock
  <2> QED BY <1>4, <2>1, <2>2
<1> QED BY <1>2, <1>3, <1>4, <1>5

\* What the time since the last update, in uint64_t, has to do with the place.
LEMMA SincePlace ==
  ASSUME NEW t \in Int, NEW s, IsClock(s)
  PROVE  /\ Since(t, s) \in Nat
         /\ s.aw_counter \div Presence \in Nat
         /\ s.aw_counter = Presence * (s.aw_counter \div Presence)
         /\ Place(t, s) % EawUs = Since(t, s) % EawUs
         /\ (Place(t, s) \div EawUs) % EawsPerCycle
              = ((Since(t, s) \div EawUs) + (s.aw_counter \div Presence)) % EawsPerCycle
<1> DEFINE d == t - s.last_update
           D == Since(t, s)
           x == s.aw_counter \div Presence
           k == d \div U64
           w == U64 \div CycleUs
           E == EawUs
           C == EawsPerCycle
<1>1. /\ E \in Nat \ {0} /\ C \in Nat \ {0} /\ Presence \in Nat \ {0}
      /\ U64 \in Nat \ {0}
      /\ CycleUs = E * C /\ U64 = CycleUs * w /\ w \in Nat
  BY Widths DEF CycleUs
<1>2. x \in Nat /\ s.aw_counter = Presence * x
  <2>1. s.aw_counter \in Nat /\ s.aw_counter % Presence = 0
    BY DEF IsClock
  <2> QED BY <1>1, <2>1, DivExact, Zenon
<1>3. d \in Int
  BY DEF IsClock
<1>4. D \in Nat /\ k \in Int /\ d = U64 * k + D
  <2> HIDE DEF d
  <2>1. k \in Int /\ d % U64 \in Nat /\ d = U64 * k + (d % U64)
    BY <1>1, <1>3, DivMod
  <2> QED BY <2>1 DEF Since, d
<1>5. Place(t, s) = x * E + d
  BY DEF Place
<1> HIDE DEF d, D, x, k, w, E, C
<1> DEFINE j == x + C * (w * k)
<1>6. w * k \in Int /\ C * (w * k) \in Int /\ j \in Int
  BY <1>1, <1>2, <1>4
<1>7. Place(t, s) = D + E * j
  <2> DEFINE v == w * k
  <2>1. U64 * k = ((E * C) * w) * k
    BY <1>1
  <2>2. ((E * C) * w) * k = (E * C) * v
    BY <1>1, <1>4
  <2> HIDE DEF v
  <2>3. v \in Int
    BY <1>6 DEF v
  <2>4. (E * C) * v = E * (C * v) /\ C * v \in Int
    BY <1>1, <2>3
  <2>5. E * (x + C * v) = E * x + E * (C * v) /\ x * E = E * x
        /\ E * x \in Int /\ E * (C * v) \in Int
    BY <1>1, <1>2, <2>4
  <2>6. x * E + d = D + E * (x + C * v)
    BY <1>4, <2>1, <2>2, <2>4, <2>5
  <2> QED BY <1>5, <2>6 DEF v
<1>8. /\ Place(t, s) \div E = (D \div E) + j
      /\ Place(t, s) % E = D % E
  <2> HIDE DEF j
  <2>1. D \in Int /\ E \in Nat \ {0} /\ j \in Int
    BY <1>1, <1>4, <1>6
  <2>2. (D + E * j) \div E = (D \div E) + j /\ (D + E * j) % E = D % E
    BY <2>1, DivModShift, Zenon
  <2> QED BY <1>7, <2>2
<1>9. ((D \div E) + j) % C = ((D \div E) + x) % C
  <2> DEFINE v == w * k
             e == D \div E
  <2>1. e \in Int /\ v \in Int /\ C * v \in Int
    BY <1>1, <1>4, <1>6, DivMod
  <2> HIDE DEF v, e
  <2>2. e + x \in Int /\ e + (x + C * v) = (e + x) + C * v
    BY <1>2, <2>1
  <2>3. ((e + x) + C * v) % C = (e + x) % C
    BY <1>1, <2>1, <2>2, DivModShift, Zenon
  <2> QED BY <2>2, <2>3 DEF v, e
<1> QED BY <1>2, <1>4, <1>8, <1>9 DEF D, x, E, C

\* awdl_sync_next_aw_us, awdl_sync_current_aw, awdl_sync_current_eaw and
\* awdl_sync_next_aw_tu read the place of the clock modulo a cycle.
LEMMA ClockReads ==
  ASSUME NEW t \in Int, NEW s, IsClock(s)
  PROVE  /\ NextAwUs(t, s) = EawUs - (Place(t, s) % EawUs)
         /\ CurrentAw(t, s) \in 0 .. U16 - 1
         /\ CurrentEaw(t, s) = (Place(t, s) \div EawUs) % EawsPerCycle
         /\ NextAwTu(t, s) = EawTu - ((Place(t, s) % EawUs) \div TU)
         /\ NextAwTu(t, s) \in 1 .. EawTu
<1> DEFINE D == Since(t, s)
           x == s.aw_counter \div Presence
           tu == D \div TU
           v == tu % EawTu
           r == v \div AwPeriod
           e == D \div EawUs
<1>1. /\ TU \in Nat \ {0} /\ AwPeriod \in Nat \ {0} /\ Presence \in Nat \ {0}
      /\ U16 \in Nat \ {0} /\ EawTu \in Nat \ {0} /\ EawUs \in Nat \ {0}
      /\ EawsPerCycle \in Nat \ {0} /\ U16 = Presence * EawsPerCycle
      /\ EawUs = TU * EawTu /\ EawTu = Presence * AwPeriod /\ EawTu < U16
  BY Widths, ScheduleAssumption DEF EawUs, EawTu
<1>2. /\ D \in Nat /\ x \in Nat /\ s.aw_counter = Presence * x
      /\ Place(t, s) % EawUs = D % EawUs
      /\ (Place(t, s) \div EawUs) % EawsPerCycle = (e + x) % EawsPerCycle
  BY SincePlace
<1>3. NextAwUs(t, s) = EawUs - (Place(t, s) % EawUs)
  BY <1>2 DEF NextAwUs
<1>4. /\ NextAwTu(t, s) = (EawTu - v) % U16
      /\ CurrentAw(t, s) = (s.aw_counter + r + Presence * (tu \div EawTu)) % U16
  BY DEF NextAwTu, CurrentAw
<1> HIDE DEF D, x
<1>5. tu \in Nat /\ e \in Nat
  BY <1>1, <1>2, DivExact, Zenon
<1>6. tu \div EawTu = e /\ D % EawUs = TU * v + (D % TU)
  <2>1. D \in Int /\ TU \in Nat \ {0} /\ EawTu \in Nat \ {0}
    BY <1>1, <1>2
  <2>2. /\ D \div (TU * EawTu) = (D \div TU) \div EawTu
        /\ D % (TU * EawTu) = TU * ((D \div TU) % EawTu) + (D % TU)
    BY <2>1, DivDiv, Zenon
  <2> QED BY <1>1, <2>2
<1> HIDE DEF tu, e
<1>7. v \in Int /\ v >= 0 /\ v < EawTu
  BY <1>1, <1>5, DivMod
<1> HIDE DEF v
<1>8. NextAwTu(t, s) = EawTu - v /\ NextAwTu(t, s) \in 1 .. EawTu
  <2>1. EawTu - v \in Int /\ 0 <= EawTu - v /\ EawTu - v < U16
        /\ EawTu - v = U16 * 0 + (EawTu - v)
    BY <1>1, <1>7
  <2>2. (EawTu - v) % U16 = EawTu - v
    BY <1>1, <2>1, DivModUnique
  <2> QED BY <1>1, <1>4, <1>7, <2>2
<1>9. (D % EawUs) \div TU = v
  <2> DEFINE a == D % EawUs
             b == D % TU
  <2>1. a \in Int /\ b \in Int /\ b >= 0 /\ b < TU
    BY <1>1, <1>2, DivMod
  <2>2. a = TU * v + b
    BY <1>6
  <2> HIDE DEF a, b
  <2>3. a \div TU = v
    BY <1>1, <1>7, <2>1, <2>2, DivModUnique
  <2> QED BY <2>3 DEF a
<1>10. r \in Int /\ r >= 0 /\ r < Presence
  <2>1. r \in Int /\ v = AwPeriod * r + (v % AwPeriod)
        /\ v % AwPeriod \in Int /\ v % AwPeriod >= 0 /\ v % AwPeriod < AwPeriod
    BY <1>1, <1>7, DivMod
  <2> DEFINE u == v % AwPeriod
  <2> HIDE DEF r, u
  <2>2. AwPeriod * r + u < Presence * AwPeriod /\ AwPeriod * r + u >= 0
        /\ u \in Int /\ u >= 0 /\ u < AwPeriod /\ r \in Int
    BY <1>1, <1>7, <2>1 DEF u
  <2>3. r >= 0
    <3> SUFFICES ASSUME r <= -1 PROVE FALSE
      BY <2>2
    <3>1. AwPeriod * r <= AwPeriod * (-1)
      BY <1>1, <2>2
    <3> QED BY <1>1, <2>2, <3>1
  <2>4. r < Presence
    <3> SUFFICES ASSUME r >= Presence PROVE FALSE
      BY <1>1, <2>2
    <3>1. AwPeriod * r >= AwPeriod * Presence
      BY <1>1, <2>2
    <3>2. AwPeriod * Presence = Presence * AwPeriod
      BY <1>1
    <3> QED BY <1>1, <2>2, <3>1, <3>2
  <2> QED BY <2>2, <2>3, <2>4
<1> HIDE DEF r
<1>11. /\ CurrentAw(t, s) = Presence * ((x + e) % EawsPerCycle) + r
       /\ (x + e) % EawsPerCycle \in 0 .. EawsPerCycle - 1
  <2> DEFINE a == Presence * (x + e) + r
             C == EawsPerCycle
  <2>1. x + e \in Int /\ a \in Int
    BY <1>1, <1>2, <1>5, <1>10
  <2>2. a \div Presence = x + e /\ a % Presence = r
    <3> HIDE DEF a
    <3>1. a = Presence * (x + e) + r
      BY DEF a
    <3> QED BY <1>1, <1>10, <2>1, <3>1, DivModUnique
  <2>3. s.aw_counter + r + Presence * e = a
    <3>1. Presence * (x + e) = Presence * x + Presence * e
          /\ Presence * x \in Int /\ Presence * e \in Int
      BY <1>1, <1>2, <1>5
    <3> QED BY <1>2, <1>10, <3>1
  <2> HIDE DEF a
  <2>4. a % (Presence * C) = Presence * ((a \div Presence) % C) + (a % Presence)
    BY <1>1, <2>1, DivDiv, Zenon
  <2>5. (x + e) % C \in 0 .. C - 1
    BY <1>1, <2>1, DivMod
  <2> QED BY <1>1, <1>4, <1>6, <2>2, <2>3, <2>4, <2>5
<1>12. CurrentAw(t, s) \in 0 .. U16 - 1 /\ CurrentEaw(t, s) = (x + e) % EawsPerCycle
  <2> DEFINE y == (x + e) % EawsPerCycle
  <2>1. y \in 0 .. EawsPerCycle - 1 /\ CurrentAw(t, s) = Presence * y + r
    BY <1>11
  <2> HIDE DEF y
  <2>2. Presence * y \in Int /\ Presence * y >= 0
        /\ Presence * (y + 1) <= Presence * EawsPerCycle
        /\ Presence * (y + 1) = Presence * y + Presence
    BY <1>1, <2>1
  <2>3. CurrentAw(t, s) \in 0 .. U16 - 1
    BY <1>1, <1>10, <2>1, <2>2
  <2>4. CurrentAw(t, s) \div Presence = y
    BY <1>1, <1>10, <2>1, <2>3, DivModUnique
  <2> QED BY <2>3, <2>4 DEF CurrentEaw, y
<1>13. (e + x) = (x + e)
  BY <1>2, <1>5
<1> QED BY <1>2, <1>3, <1>8, <1>9, <1>12, <1>13

LEMMA SamePlace ==
  ASSUME NEW p \in Int, NEW q \in Int, Congruent(p, q)
  PROVE  /\ p % EawUs = q % EawUs
         /\ (p \div EawUs) % EawsPerCycle = (q \div EawUs) % EawsPerCycle
<1> DEFINE E == EawUs
           C == EawsPerCycle
<1>1. E \in Nat \ {0} /\ C \in Nat \ {0} /\ CycleUs = E * C
  BY Widths DEF CycleUs
<1>2. PICK k \in Int : p = q + CycleUs * k
  BY DEF Congruent
<1> HIDE DEF E, C
<1>3. (E * C) * k = E * (C * k) /\ C * k \in Int
  BY <1>1
<1>4. (q + E * (C * k)) \div E = (q \div E) + C * k /\ (q + E * (C * k)) % E = q % E
  BY <1>1, <1>3, DivModShift, Zenon
<1>5. p \div E = (q \div E) + C * k /\ p % E = q % E
  BY <1>1, <1>2, <1>3, <1>4
<1>6. ((q \div E) + C * k) % C = (q \div E) % C
  <2>1. q \div E \in Int
    BY <1>1, DivMod
  <2> QED BY <1>1, <2>1, DivModShift, Zenon
<1> QED BY <1>5, <1>6 DEF E, C

-----------------------------------------------------------------------------
(* The guards. *)

SlotOf(p) == ((p \div EawUs) % EawsPerCycle) % Slots

LEMMA SlotRead ==
  ASSUME NEW t \in Int, NEW s, IsClock(s), NEW p \in Int,
         Congruent(p, Place(t, s))
  PROVE  Slot(t, s) = SlotOf(p)
<1>1. Place(t, s) \in Int
  BY PlaceType
<1>2. (p \div EawUs) % EawsPerCycle = (Place(t, s) \div EawUs) % EawsPerCycle
  BY <1>1, SamePlace
<1> QED BY <1>2, ClockReads DEF Slot, SlotOf

\* A clock that is off by less than an EAW is in the same EAW or in the one
\* next to it.
LEMMA NextSlot ==
  ASSUME NEW p \in Int, NEW e \in Int, -EawUs < e, e < EawUs
  PROVE  LET r == p % EawUs
         IN  /\ 0 <= r + e /\ r + e < EawUs => SlotOf(p + e) = SlotOf(p)
             /\ r + e >= EawUs => SlotOf(p + e) = SlotOf(p + EawUs)
             /\ r + e < 0 => SlotOf(p + e) = SlotOf(p - EawUs)
<1> DEFINE E == EawUs
           q == p \div E
           r == p % E
<1>1. E \in Nat \ {0} /\ -E < e /\ e < E
  BY Widths
<1> HIDE DEF E
<1>2. q \in Int /\ r \in Int /\ r >= 0 /\ r < E /\ p = E * q + r
  BY <1>1, DivMod
<1> HIDE DEF q, r
<1>3. E * (q + 1) = E * q + E /\ E * (q - 1) = E * q - E /\ E * q \in Int
      /\ q + 1 \in Int /\ q - 1 \in Int
  BY <1>1, <1>2
<1>4. ASSUME NEW d \in Int, NEW j \in Int, NEW u \in Int, 0 <= u, u < E,
             p + d = E * j + u
      PROVE  (p + d) \div E = j
  <2>1. p + d \in Int
    OBVIOUS
  <2> QED BY <1>1, <1>4, <2>1, DivModUnique
<1>5. (p + E) \div E = q + 1
  <2>1. p + E = E * (q + 1) + r
    BY <1>1, <1>2, <1>3
  <2>2. E \in Int /\ r \in Int /\ 0 <= r /\ r < E
    BY <1>1, <1>2
  <2> QED BY <1>3, <1>4, <2>1, <2>2, Zenon
<1>6. (p - E) \div E = q - 1
  <2>1. p - E = E * (q - 1) + r /\ p - E \in Int
    BY <1>1, <1>2, <1>3
  <2> QED BY <1>1, <1>2, <1>3, <2>1, DivModUnique
<1>7. 0 <= r + e /\ r + e < E => (p + e) \div E = q
  <2> SUFFICES ASSUME 0 <= r + e, r + e < E PROVE (p + e) \div E = q
    OBVIOUS
  <2>1. p + e = E * q + (r + e) /\ r + e \in Int
    BY <1>1, <1>2, <1>3
  <2> QED BY <1>2, <1>4, <2>1
<1>8. r + e >= E => (p + e) \div E = q + 1
  <2> SUFFICES ASSUME r + e >= E PROVE (p + e) \div E = q + 1
    OBVIOUS
  <2>1. p + e = E * (q + 1) + (r + e - E) /\ r + e - E \in Int
        /\ 0 <= r + e - E /\ r + e - E < E
    BY <1>1, <1>2, <1>3
  <2> QED BY <1>3, <1>4, <2>1
<1>9. r + e < 0 => (p + e) \div E = q - 1
  <2> SUFFICES ASSUME r + e < 0 PROVE (p + e) \div E = q - 1
    OBVIOUS
  <2>1. p + e = E * (q - 1) + (r + e + E) /\ r + e + E \in Int
        /\ 0 <= r + e + E /\ r + e + E < E
    BY <1>1, <1>2, <1>3
  <2> QED BY <1>3, <1>4, <2>1
<1> QED BY <1>5, <1>6, <1>7, <1>8, <1>9 DEF SlotOf, E, q, r

LEMMA GuardWidths ==
  /\ \A guard \in {UnicastGuard, MulticastGuard} :
       TU * guard \in Nat /\ 2 * (TU * guard) < EawUs
  /\ EawUs \in Nat \ {0}
<1>1. TU \in Nat \ {0} /\ EawTu \in Nat \ {0} /\ EawUs \in Nat \ {0}
  BY Widths
<1>2. SUFFICES ASSUME NEW guard \in Nat, 2 * guard < EawTu
               PROVE  TU * guard \in Nat /\ 2 * (TU * guard) < EawUs
  BY <1>1, GuardAssumption
<1>3. TU * (2 * guard) < TU * EawTu
  BY <1>1, <1>2
<1>4. TU * (2 * guard) = 2 * (TU * guard) /\ TU * guard \in Nat
  BY <1>1
<1> QED BY <1>3, <1>4 DEF EawUs

\* When awdl_can_send_unicast_in lets us send, a clock that is off by less
\* than the guard is in a common slot, too.
LEMMA UnicastGuarded ==
  ASSUME NEW t \in Int, NEW s, IsClock(s), NEW u \in Int, NEW z, IsClock(z),
         NEW c, NEW e \in Int,
         Congruent(Place(u, z), Place(t, s) + e),
         -(TU * UnicastGuard) < e, e < TU * UnicastGuard,
         CanSendUnicastIn(t, s, c, UnicastGuard) = 0
  PROVE  SameChannel(u, z, c)
<1> DEFINE p == Place(t, s)
           E == EawUs
           wide == TU * UnicastGuard
           next == NextAwUs(t, s)
           r == p % E
<1>1. E \in Nat \ {0} /\ wide \in Nat /\ 2 * wide < E
  BY GuardWidths
<1>2. p \in Int /\ next = E - r
  BY PlaceType, ClockReads
<1>3. r \in Int /\ r >= 0 /\ r < E
  <2> HIDE DEF p, E
  <2> QED BY <1>1, <1>2, DivMod
<1>4. /\ IF ~SameChannel(t, s, c) THEN next = 0
         ELSE IF next < wide /\ ~SameChannel(t + E, s, c) THEN -(wide - next) = 0
         ELSE IF ~(next < wide) /\ E - next < wide /\ ~SameChannel(t - E, s, c)
              THEN wide - (E - next) = 0
         ELSE TRUE
  BY DEF CanSendUnicastIn
<1>5. Slot(u, z) = SlotOf(p + e)
  <2>1. p + e \in Int /\ Place(u, z) \in Int
    BY <1>2, PlaceType
  <2>2. Congruent(p + e, Place(u, z))
    BY <2>1, CongruentAdd
  <2> QED BY <2>1, <2>2, SlotRead
<1>6. /\ Slot(t, s) = SlotOf(p) /\ Slot(t + E, s) = SlotOf(p + E)
      /\ Slot(t - E, s) = SlotOf(p - E)
  <2>1. \A a \in Int : Congruent(a, a)
    BY Widths DEF Congruent
  <2>2. Place(t + E, s) = p + E /\ p + E \in Int /\ t + E \in Int
    BY <1>1, <1>2, PlaceType
  <2>3. Place(t - E, s) = p - E /\ p - E \in Int /\ t - E \in Int
    <3>1. -E \in Int /\ t + (-E) = t - E /\ p + (-E) = p - E
      BY <1>1, <1>2
    <3>2. Place(t + (-E), s) = p + (-E)
      BY <3>1, PlaceType
    <3> QED BY <1>1, <1>2, <3>1, <3>2
  <2> QED BY <1>2, <2>1, <2>2, <2>3, SlotRead
<1> HIDE DEF p, wide, next
<1>7. /\ 0 <= r + e /\ r + e < E => SlotOf(p + e) = SlotOf(p)
      /\ r + e >= E => SlotOf(p + e) = SlotOf(p + E)
      /\ r + e < 0 => SlotOf(p + e) = SlotOf(p - E)
  <2>1. -E < e /\ e < E
    BY <1>1 DEF wide
  <2> QED BY <1>2, <2>1, NextSlot
<1> HIDE DEF r, E
<1>8. -wide < e /\ e < wide
  BY DEF wide
<1>9. SameChannel(t, s, c)
  BY <1>1, <1>2, <1>3, <1>4
<1>10. CASE r + e >= E
  <2>1. next < wide
    BY <1>1, <1>2, <1>3, <1>8, <1>10
  <2>2. SameChannel(t + E, s, c)
    BY <1>1, <1>2, <1>3, <1>4, <1>9, <2>1
  <2> QED BY <1>5, <1>6, <1>7, <1>10, <2>2 DEF SameChannel
<1>11. CASE r + e < 0
  <2>1. ~(next < wide) /\ E - next < wide
    BY <1>1, <1>2, <1>3, <1>8, <1>11
  <2>2. SameChannel(t - E, s, c)
    BY <1>1, <1>2, <1>3, <1>4, <1>9, <2>1
  <2> QED BY <1>5, <1>6, <1>7, <1>11, <2>2 DEF SameChannel
<1>12. CASE 0 <= r + e /\ r + e < E
  BY <1>5, <1>6, <1>7, <1>9, <1>12 DEF SameChannel
<1> QED BY <1>1, <1>3, <1>10, <1>11, <1>12

\* When awdl_send_multicast sends, a clock that is off by less than the guard
\* is in a multicast slot, too.
LEMMA MulticastGuarded ==
  ASSUME NEW t \in Int, NEW s, IsClock(s), NEW u \in Int, NEW z, IsClock(z),
         NEW e \in Int,
         Congruent(Place(u, z), Place(t, s) + e),
         -(TU * MulticastGuard) < e, e < TU * MulticastGuard,
         MulticastDelay(t, s) = 0
  PROVE  IsMulticastEaw(u, z)
<1> DEFINE p == Place(t, s)
           E == EawUs
           wide == TU * MulticastGuard
           next == NextAwUs(t, s)
           in == CanSendIn(t, s, MulticastGuard)
           r == p % E
<1>1. E \in Nat \ {0} /\ wide \in Nat /\ 2 * wide < E
  BY GuardWidths
<1>2. p \in Int /\ next = E - r
  BY PlaceType, ClockReads
<1>3. r \in Int /\ r >= 0 /\ r < E
  <2> HIDE DEF p, E
  <2> QED BY <1>1, <1>2, DivMod
<1>4. in = IF next < wide THEN -(wide - next)
           ELSE IF E - next < wide THEN wide - (E - next) ELSE 0
  BY DEF CanSendIn
<1>5. IF in = 0 THEN IsMulticastEaw(t, s)
      ELSE IF in < 0 THEN -in + wide = 0 ELSE in = 0
  BY <1>1 DEF MulticastDelay, Retry
<1>6. Slot(u, z) = SlotOf(p + e)
  <2>1. p + e \in Int /\ Place(u, z) \in Int
    BY <1>2, PlaceType
  <2>2. Congruent(p + e, Place(u, z))
    BY <2>1, CongruentAdd
  <2> QED BY <2>1, <2>2, SlotRead
<1>7. Slot(t, s) = SlotOf(p)
  <2>1. Congruent(p, p)
    <3> HIDE DEF p
    <3> QED BY <1>2, Widths DEF Congruent
  <2> QED BY <1>2, <2>1, SlotRead
<1>8. -wide < e /\ e < wide
  OBVIOUS
<1> HIDE DEF p, wide, next, in
<1>9. 0 <= r + e /\ r + e < E => SlotOf(p + e) = SlotOf(p)
  <2>1. -E < e /\ e < E
    BY <1>1, <1>8
  <2> QED BY <1>2, <2>1, NextSlot
<1> HIDE DEF r, E
<1>10. ~(next < wide) /\ ~(E - next < wide) /\ in = 0
  BY <1>1, <1>2, <1>3, <1>4, <1>5
<1>11. 0 <= r + e /\ r + e < E
  BY <1>1, <1>2, <1>3, <1>8, <1>10
<1> QED BY <1>5, <1>6, <1>7, <1>9, <1>10, <1>11 DEF IsMulticastEaw

-----------------------------------------------------------------------------
(* A frame and its timer. *)

TimerInv ==
  /\ clock \in Int
  /\ sent \in BOOLEAN
  /\ sent => Delay = 0

LEMMA StartIsClock == IsClock(start)
<1>1. 0 % Presence = 0
  BY Widths
<1> QED BY <1>1 DEF IsClock, start

\* The frame was sent at a moment at which its delay was 0, and the clock of
\* the model stays at that moment.
LEMMA TimerInvariant == TimerSpec => []TimerInv
<1>1. TimerInit => TimerInv
  <2>1. Cycle \in Int
    BY Widths, GuardAssumption DEF Cycle
  <2>2. TimerInit => clock \in Int
    BY <2>1 DEF TimerInit
  <2> QED BY <2>2, Zenon DEF TimerInit, TimerInv
<1>2. TimerInv /\ [TimerNext]_timerVars => TimerInv'
  <2> SUFFICES ASSUME TimerInv, [TimerNext]_timerVars PROVE TimerInv'
    OBVIOUS
  <2> USE DEF TimerInv
  <2>1. CASE Send
    <3>1. sent' = TRUE /\ clock' \in Int /\ Delay' = Delay /\ Delay = 0
      BY <2>1 DEF Send, Delay, UnicastDelay, MulticastDelay
    <3> QED BY <3>1
  <2>2. ASSUME NEW late \in 0 .. Late, TryLater(late) PROVE TimerInv'
    <3> DEFINE d == Delay
    <3>1. ~sent' /\ sent' \in BOOLEAN /\ d > 0 /\ clock' = (clock + d + late) % Cycle
      BY <2>2 DEF TryLater
    <3>2. d \in Int
      <4>1. EawUs \in Int /\ TU * UnicastGuard \in Int /\ TU * MulticastGuard \in Int
        BY GuardWidths
      <4>2. NextAwUs(clock, start) \in Int
        <5>1. Place(clock, start) \in Int
          BY PlaceType, StartIsClock
        <5>2. Place(clock, start) % EawUs \in Int
          BY <5>1, Widths, DivMod
        <5> QED BY <4>1, <5>2, ClockReads, StartIsClock
      <4>3. CanSendUnicastIn(clock, start, common, UnicastGuard) \in Int
        BY <4>1, <4>2 DEF CanSendUnicastIn
      <4>4. CanSendIn(clock, start, MulticastGuard) \in Int
        BY <4>1, <4>2 DEF CanSendIn
      <4>5. UnicastDelay(clock, start, common) \in Int
        BY <4>1, <4>3 DEF UnicastDelay, Retry
      <4>6. MulticastDelay(clock, start) \in Int
        BY <4>1, <4>4 DEF MulticastDelay, Retry
      <4> QED BY <4>5, <4>6 DEF Delay
    <3> HIDE DEF d
    <3>3. Cycle \in Nat \ {0}
      BY Widths, GuardAssumption DEF Cycle
    <3>4. clock + d + late \in Int
      BY <3>2, ScheduleAssumption
    <3>5. clock' \in Int
      BY <3>1, <3>3, <3>4, DivMod
    <3> QED BY <3>1, <3>5
  <2>3. CASE UNCHANGED timerVars
    BY <2>3 DEF timerVars, Delay, UnicastDelay, MulticastDelay
  <2> QED BY <2>1, <2>2, <2>3 DEF TimerNext
<1> QED BY <1>1, <1>2, PTL DEF TimerSpec

\* Every point that is off by less than the guard, by its place.
LEMMA NearPlace ==
  ASSUME clock \in Int, NEW guard \in {UnicastGuard, MulticastGuard},
         NEW t \in Near(guard)
  PROVE  \E e \in Int :
           /\ -(TU * guard) < e /\ e < TU * guard
           /\ t \in Int
           /\ Congruent(Place(t, start), Place(clock, start) + e)
<1>1. TU * guard \in Nat
  BY GuardWidths, Zenon
<1>2. PICK e \in -(TU * guard - 1) .. TU * guard - 1 : t = clock + e
  BY DEF Near
<1>3. e \in Int /\ -(TU * guard) < e /\ e < TU * guard /\ t \in Int
  BY <1>1, <1>2
<1>4. Place(clock, start) \in Int /\ Place(t, start) = Place(clock, start) + e
  BY <1>2, <1>3, PlaceType, StartIsClock
<1>5. Congruent(Place(t, start), Place(clock, start) + e)
  <2> DEFINE p == Place(clock, start)
  <2>1. p + e \in Int /\ p + e = p + e + CycleUs * 0
    <3> HIDE DEF p
    <3>1. p \in Int
      BY <1>4 DEF p
    <3> QED BY <1>3, <3>1, Widths
  <2> QED BY <1>4, <2>1 DEF Congruent
<1> QED BY <1>3, <1>5

\* awdl_send_unicast sends a frame only while a peer whose clock is off by
\* less than the guard, in either direction, listens on our channel.
THEOREM UnicastHeardTheorem == TimerSpec => []UnicastHeard
<1>1. TimerInv => UnicastHeard
  <2> SUFFICES ASSUME TimerInv, sent, kind = "unicast",
                      NEW t \in Near(UnicastGuard)
               PROVE  SameChannel(t, start, common)
    BY DEF UnicastHeard
  <2>1. clock \in Int /\ Delay = 0
    BY DEF TimerInv
  <2>2. CanSendUnicastIn(clock, start, common, UnicastGuard) = 0
    <3> DEFINE in == CanSendUnicastIn(clock, start, common, UnicastGuard)
               wide == TU * UnicastGuard
    <3>1. wide \in Nat
      BY GuardWidths
    <3>2. IF in < 0 THEN -in + wide = 0 ELSE in = 0
      BY <2>1 DEF Delay, UnicastDelay, Retry
    <3>3. in \in Int
      <4>1. EawUs \in Int
        BY Widths
      <4>2. Place(clock, start) % EawUs \in Int
        BY <2>1, PlaceType, StartIsClock, Widths, DivMod
      <4>3. NextAwUs(clock, start) \in Int
        BY <2>1, <4>1, <4>2, ClockReads, StartIsClock
      <4> QED BY <3>1, <4>1, <4>3 DEF CanSendUnicastIn
    <3> HIDE DEF in, wide
    <3>4. in = 0
      BY <3>1, <3>2, <3>3
    <3> QED BY <3>4 DEF in
  <2>3. PICK e \in Int :
           /\ -(TU * UnicastGuard) < e /\ e < TU * UnicastGuard
           /\ t \in Int
           /\ Congruent(Place(t, start), Place(clock, start) + e)
    BY <2>1, NearPlace
  <2> QED BY <2>1, <2>2, <2>3, StartIsClock, UnicastGuarded
<1> QED BY <1>1, TimerInvariant, PTL

\* awdl_send_multicast sends a frame only while every node whose clock is off
\* by less than the guard is in a multicast slot.
THEOREM MulticastHeardTheorem == TimerSpec => []MulticastHeard
<1>1. TimerInv => MulticastHeard
  <2> SUFFICES ASSUME TimerInv, sent, kind = "multicast",
                      NEW t \in Near(MulticastGuard)
               PROVE  IsMulticastEaw(t, start)
    BY DEF MulticastHeard
  <2>1. clock \in Int /\ MulticastDelay(clock, start) = 0
    BY DEF TimerInv, Delay
  <2>2. PICK e \in Int :
           /\ -(TU * MulticastGuard) < e /\ e < TU * MulticastGuard
           /\ t \in Int
           /\ Congruent(Place(t, start), Place(clock, start) + e)
    BY <2>1, NearPlace
  <2> QED BY <2>1, <2>2, StartIsClock, MulticastGuarded
<1> QED BY <1>1, TimerInvariant, PTL

-----------------------------------------------------------------------------
(* A frame that waits is sent after a bounded number of timers.            *)
(*                                                                         *)
(* The timer leads the frame from slot to slot.  It can leave a slot that  *)
(* the frame might be sent in only through the guard at the end, and once  *)
(* it has begun a slot before that guard, it meets the next such slot      *)
(* before the guard, too, because little is added on the way.              *)

LEMMA ModSum ==
  ASSUME NEW a \in Int, NEW b \in Int, NEW n \in Nat \ {0}
  PROVE  ((a % n) + b) % n = (a + b) % n
<1> DEFINE q == a \div n
           r == a % n
<1>1. q \in Int /\ r \in Int /\ a = n * q + r
  BY DivMod
<1> HIDE DEF q, r
<1>2. -q \in Int /\ n * (-q) = -(n * q) /\ n * q \in Int
  BY <1>1
<1>3. r + b = (a + b) + n * (-q) /\ a + b \in Int
  BY <1>1, <1>2
<1>4. ((a + b) + n * (-q)) % n = (a + b) % n
  BY <1>2, <1>3, DivModShift, Zenon
<1> QED BY <1>3, <1>4 DEF r

LEMMA SmallMod ==
  ASSUME NEW n \in Nat \ {0}, NEW a \in 0 .. n - 1
  PROVE  a % n = a
OBVIOUS

\* A remainder of a remainder.
LEMMA ModMod ==
  ASSUME NEW a \in Int, NEW n \in Nat \ {0}, NEW c \in Nat \ {0}, c % n = 0
  PROVE  (a % c) % n = a % n
<1> DEFINE q == a \div c
           r == a % c
           d == c \div n
<1>1. q \in Int /\ r \in Int /\ a = c * q + r
  BY DivMod
<1>2. d \in Int /\ c = n * d
  BY DivExact
<1> HIDE DEF q, r, d
<1>3. (n * d) * q = n * (d * q) /\ d * q \in Int
  BY <1>1, <1>2
<1>4. a = r + n * (d * q)
  BY <1>1, <1>2, <1>3
<1>5. (r + n * (d * q)) % n = r % n
  BY <1>1, <1>3, DivModShift, Zenon
<1> QED BY <1>4, <1>5 DEF r

-----------------------------------------------------------------------------
\* The slot the timer fires in, and how long ago the slot began.
Q == clock \div EawUs
R == clock % EawUs

LEMMA ClockIs ==
  ASSUME clock \in 0 .. Cycle - 1
  PROVE  /\ Slots \in Nat \ {0} /\ EawUs \in Nat \ {0} /\ Cycle = EawUs * Slots
         /\ clock \in Int /\ clock = EawUs * Q + R
         /\ Q \in 0 .. Slots - 1 /\ R \in 0 .. EawUs - 1
<1>1. Slots \in Nat \ {0} /\ EawUs \in Nat \ {0}
  BY GuardAssumption, Widths
<1>2. Cycle = EawUs * Slots /\ Cycle \in Nat
  BY <1>1 DEF Cycle
<1>3. clock \in Int /\ 0 <= clock /\ clock < Cycle
  BY <1>2
<1>4. Q \in Int /\ R \in 0 .. EawUs - 1 /\ clock = EawUs * Q + R
  BY <1>1, <1>3, DivMod DEF Q, R
<1> DEFINE E == EawUs
<1> HIDE DEF Q, R, E
<1>5. Q >= 0
  <2> SUFFICES ASSUME Q <= -1 PROVE FALSE
    BY <1>4
  <2>1. E * Q <= E * (-1)
    BY <1>1, <1>4 DEF E
  <2> QED BY <1>1, <1>3, <1>4, <2>1 DEF E
<1>6. Q < Slots
  <2> SUFFICES ASSUME Q >= Slots PROVE FALSE
    BY <1>1, <1>4
  <2>1. E * Q >= E * Slots
    BY <1>1, <1>4 DEF E
  <2> QED BY <1>1, <1>2, <1>3, <1>4, <2>1 DEF E
<1> QED BY <1>1, <1>2, <1>3, <1>4, <1>5, <1>6

\* What the node reads off its clock.
LEMMA SlotIs ==
  ASSUME clock \in 0 .. Cycle - 1
  PROVE  /\ Slot(clock, start) = Q
         /\ Slot(clock + EawUs, start) = (Q + 1) % Slots
         /\ NextAwUs(clock, start) = EawUs - R
<1>1. /\ Slots \in Nat \ {0} /\ EawUs \in Nat \ {0} /\ clock \in Int
      /\ Q \in 0 .. Slots - 1
  BY ClockIs
<1>2. ASSUME NEW t \in Int
      PROVE  Place(t, start) = t /\ Slot(t, start) = (t \div EawUs) % Slots
  <2>1. Place(t, start) = t
    <3>1. 0 \div Presence = 0
      BY Widths
    <3> QED BY <1>1, <3>1 DEF Place, start
  <2>2. Slot(t, start) = ((t \div EawUs) % EawsPerCycle) % Slots
    <3>1. CurrentEaw(t, start) = (Place(t, start) \div EawUs) % EawsPerCycle
      BY StartIsClock, ClockReads, Zenon
    <3> QED BY <2>1, <3>1 DEF Slot
  <2>3. t \div EawUs \in Int
    BY <1>1, DivMod
  <2>4. EawsPerCycle \in Nat \ {0} /\ EawsPerCycle % Slots = 0
    BY Widths, LatenessAssumption DEF EawsPerCycle
  <2>5. ((t \div EawUs) % EawsPerCycle) % Slots = (t \div EawUs) % Slots
    BY <1>1, <2>3, <2>4, ModMod, Zenon
  <2> QED BY <2>1, <2>2, <2>5
<1>3. (clock + EawUs) \div EawUs = Q + 1 /\ clock + EawUs \in Int
  <2>1. 1 \in Int /\ EawUs * 1 = EawUs
    BY <1>1
  <2>2. (clock + EawUs * 1) \div EawUs = Q + 1
    BY <1>1, <2>1, DivModShift, Zenon DEF Q
  <2> QED BY <1>1, <2>1, <2>2
<1>4. Q % Slots = Q
  BY <1>1, SmallMod, Zenon
<1>5. NextAwUs(clock, start) = EawUs - (Place(clock, start) % EawUs)
  BY <1>1, StartIsClock, ClockReads, Zenon
<1> QED BY <1>1, <1>2, <1>3, <1>4, <1>5 DEF Q, R

\* Where the timer leads.
LEMMA Advance ==
  ASSUME clock \in 0 .. Cycle - 1, NEW d \in Int, NEW j \in Int, NEW u \in Int,
         0 <= u, u < EawUs, R + d = EawUs * j + u,
         clock' = (clock + d) % Cycle
  PROVE  /\ clock' \in 0 .. Cycle - 1
         /\ Q' = (Q + j) % Slots /\ R' = u
<1> DEFINE E == EawUs
           a == clock + d
           h == (Q + j) % Slots
<1>1. /\ Slots \in Nat \ {0} /\ E \in Nat \ {0} /\ Cycle = E * Slots
      /\ clock \in Int /\ clock = E * Q + R /\ Q \in Int /\ R \in Int
  BY ClockIs
<1>2. a \in Int /\ a = E * (Q + j) + u /\ Q + j \in Int
  <2>1. E * (Q + j) = E * Q + E * j /\ E * Q \in Int /\ E * j \in Int
    BY <1>1
  <2> HIDE DEF E, Q, R
  <2> QED BY <1>1, <2>1 DEF E
<1> HIDE DEF E, a
<1>3. a \div E = Q + j /\ a % E = u
  BY <1>1, <1>2, DivModUnique DEF E
<1>4. a % (E * Slots) = E * h + u
  <2>1. a % (E * Slots) = E * ((a \div E) % Slots) + (a % E)
    BY <1>1, <1>2, DivDiv, Zenon
  <2> QED BY <1>3, <2>1
<1>5. h \in Int /\ 0 <= h /\ h < Slots
  BY <1>1, <1>2, DivMod
<1> HIDE DEF h
<1>6. clock' = E * h + u
  BY <1>1, <1>4 DEF a
<1>7. clock' \in Int /\ clock' \div E = h /\ clock' % E = u
  <2>1. E * h + u \in Int
    BY <1>1, <1>5
  <2>2. u < E
    BY DEF E
  <2>3. (E * h + u) \div E = h /\ (E * h + u) % E = u
    BY <1>1, <1>5, <2>1, <2>2, DivModUnique, Zenon
  <2> QED BY <1>6, <2>1, <2>3, Zenon
<1>8. 0 <= clock' /\ clock' < Cycle
  <2>1. Cycle \in Nat \ {0}
    BY <1>1
  <2> QED BY <1>1, <1>2, <2>1, DivMod DEF a
<1>9. Cycle \in Int
  BY <1>1
<1> QED BY <1>7, <1>8, <1>9 DEF Q, R, E, h

\* How long awdl_send_unicast waits.
LEMMA UnicastDelayIs ==
  ASSUME clock \in 0 .. Cycle - 1
  PROVE  LET w == TU * UnicastGuard
             d == UnicastDelay(clock, start, common)
         IN  /\ Q \notin common => d = EawUs - R
             /\ Q \in common /\ EawUs - R < w =>
                  \/ d = 0
                  \/ (Q + 1) % Slots \notin common /\ d = 2 * w - (EawUs - R)
             /\ Q \in common /\ R < w => d \in {0, w - R}
             /\ Q \in common /\ w <= R /\ w <= EawUs - R => d = 0
<1> DEFINE E == EawUs
           w == TU * UnicastGuard
           in == CanSendUnicastIn(clock, start, common, UnicastGuard)
           d == UnicastDelay(clock, start, common)
           next == NextAwUs(clock, start)
           back == SameChannel(clock - E, start, common)
<1>1. E \in Nat \ {0} /\ w \in Nat /\ 2 * w < E
  BY GuardWidths
<1>2. R \in 0 .. E - 1 /\ next = E - R
  BY ClockIs, SlotIs
<1>3. /\ SameChannel(clock, start, common) <=> Q \in common
      /\ SameChannel(clock + E, start, common) <=> (Q + 1) % Slots \in common
  BY SlotIs DEF SameChannel
<1>4. in = IF ~SameChannel(clock, start, common) THEN next
           ELSE IF next < w /\ ~SameChannel(clock + E, start, common)
                THEN -(w - next)
           ELSE IF ~(next < w) /\ E - next < w /\ ~back THEN w - (E - next)
           ELSE 0
  BY DEF CanSendUnicastIn
<1>5. d = IF in < 0 THEN -in + w ELSE in
  BY DEF UnicastDelay, Retry
<1> HIDE DEF E, w, in, d, next, back, Q, R
<1>6. Q \notin common => d = E - R
  BY <1>1, <1>2, <1>3, <1>4, <1>5
<1>7. Q \in common /\ E - R < w =>
        d = 0 \/ ((Q + 1) % Slots \notin common /\ d = 2 * w - (E - R))
  <2> SUFFICES ASSUME Q \in common, E - R < w
               PROVE  d = 0 \/ ((Q + 1) % Slots \notin common /\ d = 2 * w - (E - R))
    OBVIOUS
  <2>1. CASE (Q + 1) % Slots \in common
    <3>1. in = 0
      BY <1>2, <1>3, <1>4, <2>1, Zenon
    <3>2. d = 0
      BY <1>1, <1>5, <3>1
    <3> QED BY <3>2
  <2>2. CASE (Q + 1) % Slots \notin common
    <3>1. in = -(w - next)
      BY <1>2, <1>3, <1>4, <2>2, Zenon
    <3>2. d = 2 * w - (E - R)
      BY <1>1, <1>2, <1>5, <3>1
    <3> QED BY <2>2, <3>2
  <2> QED BY <2>1, <2>2
<1>8. Q \in common /\ R < w => d \in {0, w - R}
  <2> SUFFICES ASSUME Q \in common, R < w PROVE d \in {0, w - R}
    OBVIOUS
  <2>1. ~(next < w) /\ E - next = R
    BY <1>1, <1>2
  <2>2. in \in {0, w - R}
    BY <1>3, <1>4, <2>1
  <2>3. w - R > 0 /\ w - R \in Int
    BY <1>1, <1>2
  <2> QED BY <1>5, <2>2, <2>3
<1>9. Q \in common /\ w <= R /\ w <= E - R => d = 0
  BY <1>1, <1>2, <1>3, <1>4, <1>5
<1> QED BY <1>6, <1>7, <1>8, <1>9 DEF E, w, d

\* How long awdl_send_multicast waits.
LEMMA MulticastDelayIs ==
  ASSUME clock \in 0 .. Cycle - 1
  PROVE  LET w == TU * MulticastGuard
             d == MulticastDelay(clock, start)
         IN  /\ EawUs - R < w => d = 2 * w - (EawUs - R)
             /\ R < w => d = w - R
             /\ w <= R /\ w <= EawUs - R =>
                  d = IF Q \in MulticastSlots THEN 0 ELSE EawUs
<1> DEFINE E == EawUs
           w == TU * MulticastGuard
           in == CanSendIn(clock, start, MulticastGuard)
           d == MulticastDelay(clock, start)
           next == NextAwUs(clock, start)
<1>1. E \in Nat \ {0} /\ w \in Nat /\ 2 * w < E
  BY GuardWidths
<1>2. R \in 0 .. E - 1 /\ next = E - R
  BY ClockIs, SlotIs
<1>3. IsMulticastEaw(clock, start) <=> Q \in MulticastSlots
  BY SlotIs DEF IsMulticastEaw
<1>4. in = IF next < w THEN -(w - next)
           ELSE IF E - next < w THEN w - (E - next) ELSE 0
  BY DEF CanSendIn
<1>5. d = IF in = 0 THEN IF IsMulticastEaw(clock, start) THEN 0 ELSE E
          ELSE IF in < 0 THEN -in + w ELSE in
  BY DEF MulticastDelay, Retry
<1> HIDE DEF E, w, in, d, next, Q, R
<1>6. E - R < w => d = 2 * w - (E - R)
  BY <1>1, <1>2, <1>4, <1>5
<1>7. R < w => d = w - R
  BY <1>1, <1>2, <1>4, <1>5
<1>8. w <= R /\ w <= E - R => d = IF Q \in MulticastSlots THEN 0 ELSE E
  BY <1>1, <1>2, <1>3, <1>4, <1>5
<1> QED BY <1>6, <1>7, <1>8 DEF E, w, d

-----------------------------------------------------------------------------
\* The n slots before slot q are not in S.
Passed(q, n, S) == \A k \in 1 .. n : (q - k) % Slots \notin S

\* Any gap slots in a row have one of S.
Within(gap, S) ==
  \A q \in 0 .. Slots - 1 : \E k \in 0 .. gap - 1 : (q + k) % Slots \in S

LEMMA PassOne ==
  ASSUME NEW q \in 0 .. Slots - 1, NEW n \in Nat, NEW S,
         Passed(q, n, S), q \notin S
  PROVE  Passed((q + 1) % Slots, n + 1, S)
<1>1. Slots \in Nat \ {0}
  BY GuardAssumption
<1> SUFFICES ASSUME NEW k \in 1 .. n + 1
             PROVE  (((q + 1) % Slots) - k) % Slots \notin S
  BY DEF Passed
<1>2. q + 1 \in Int /\ -k \in Int /\ (q + 1) + (-k) = q - (k - 1)
      /\ \A x \in Int : x + (-k) = x - k
  BY <1>1
<1>3. (q + 1) % Slots \in Int
  BY <1>1, <1>2, DivMod
<1>4. (((q + 1) % Slots) + (-k)) % Slots = ((q + 1) + (-k)) % Slots
  BY <1>1, <1>2, ModSum, Zenon
<1>5. (((q + 1) % Slots) - k) % Slots = (q - (k - 1)) % Slots
  BY <1>2, <1>3, <1>4, Zenon
<1>6. CASE k = 1
  <2>1. q - (k - 1) = q
    BY <1>1, <1>6
  <2>2. q % Slots = q
    BY <1>1, SmallMod, Zenon
  <2> QED BY <1>5, <2>1, <2>2
<1>7. CASE k # 1
  <2>1. k - 1 \in 1 .. n
    BY <1>7
  <2> QED BY <1>5, <2>1, Zenon DEF Passed
<1> QED BY <1>6, <1>7

LEMMA PassedFew ==
  ASSUME NEW q \in 0 .. Slots - 1, NEW n \in Nat, NEW S, NEW gap \in 1 .. Slots,
         Passed(q, n, S), Within(gap, S)
  PROVE  n < gap
<1>1. Slots \in Nat \ {0} /\ gap \in Nat
  BY GuardAssumption
<1> SUFFICES ASSUME n >= gap PROVE FALSE
  BY <1>1
<1> DEFINE b == (q - gap) % Slots
<1>2. q - gap \in Int
  BY <1>1
<1>3. b \in 0 .. Slots - 1
  BY <1>1, <1>2, DivMod
<1>4. PICK k \in 0 .. gap - 1 : (b + k) % Slots \in S
  BY <1>3, Zenon DEF Within
<1>5. k \in Int /\ gap - k \in 1 .. n /\ (q - gap) + k = q - (gap - k)
  BY <1>1
<1>6. (b + k) % Slots = ((q - gap) + k) % Slots
  BY <1>1, <1>2, <1>5, ModSum, Zenon
<1>7. (q - (gap - k)) % Slots \notin S
  BY <1>5, Zenon DEF Passed
<1> QED BY <1>4, <1>5, <1>6, <1>7, Zenon

\* In a whole channel sequence there is one of any slots.
LEMMA WithinAll ==
  ASSUME NEW S, NEW c \in S, c \in 0 .. Slots - 1
  PROVE  Within(Slots, S)
<1>1. Slots \in Nat \ {0}
  BY GuardAssumption
<1> SUFFICES ASSUME NEW q \in 0 .. Slots - 1
             PROVE  \E k \in 0 .. Slots - 1 : (q + k) % Slots \in S
  BY DEF Within
<1> DEFINE k == (c - q) % Slots
<1>2. c - q \in Int /\ q \in Int /\ (c - q) + q = c
  BY <1>1
<1>3. k \in 0 .. Slots - 1 /\ k + q = q + k
  BY <1>1, <1>2, DivMod
<1>4. (k + q) % Slots = ((c - q) + q) % Slots
  BY <1>1, <1>2, ModSum, Zenon
<1>5. c % Slots = c
  BY <1>1, SmallMod, Zenon
<1>6. (q + k) % Slots = c
  BY <1>2, <1>3, <1>4, <1>5, Zenon
<1> QED BY <1>3, <1>6

-----------------------------------------------------------------------------
\* A unicast frame for a peer with the common slots c, after t timers, in slot
\* q and r after its beginning.  From a slot that is not common the timer
\* leads to the beginning of the next one; a common slot is left only by the
\* first timer, and in a common slot the second one finds the guard over.
UnicastWaits(q, r, t, c) ==
  \E n \in Nat :
    /\ Passed(q, n, c)
    /\ \/ t <= n + 1 /\ (t = 0 \/ q \notin c \/ r <= Late)
       \/ /\ t <= n + 2 /\ q \in c
          /\ TU * UnicastGuard <= r /\ r <= TU * UnicastGuard + Late

\* The gap of LatenessAssumption.
Gap ==
  CHOOSE gap \in 1 .. Slots :
    /\ Within(gap, MulticastSlots)
    /\ 3 * (TU * MulticastGuard) + gap * Late <= EawUs + 1
    /\ MaxTries >= 2 * gap + 1

\* A multicast frame.  Up to the first slot that it leaves through the guard
\* at the end, it has met a slot with every timer; after that it is so early
\* in its slots that it does not get to the guard again, and spends one timer
\* at most on the guard at the beginning.
MulticastWaits(q, r, t) ==
  \E n \in Nat :
    /\ Passed(q, n, MulticastSlots)
    /\ \/ t <= n
       \/ /\ r <= 2 * (TU * MulticastGuard) - 1 + (n + 1) * Late
          /\ t <= Gap + n + 1
          /\ r < TU * MulticastGuard => t <= Gap + n

WaitInv ==
  /\ clock \in 0 .. Cycle - 1 /\ tries \in Nat
  /\ kind \in {"unicast", "multicast"} /\ common \in Common
  /\ ~sent /\ kind = "unicast" => UnicastWaits(Q, R, tries, common)
  /\ ~sent /\ kind = "multicast" => MulticastWaits(Q, R, tries)

LEMMA GapIs ==
  /\ Gap \in 1 .. Slots /\ Within(Gap, MulticastSlots)
  /\ 3 * (TU * MulticastGuard) + Gap * Late <= EawUs + 1
  /\ MaxTries >= 2 * Gap + 1
<1>1. \E gap \in 1 .. Slots :
        /\ Within(gap, MulticastSlots)
        /\ 3 * (TU * MulticastGuard) + gap * Late <= EawUs + 1
        /\ MaxTries >= 2 * gap + 1
  BY LatenessAssumption, Zenon DEF Within
<1> QED BY <1>1, Zenon DEF Gap

\* What a timer that is set again does to the model's variables.
LEMMA Rearmed ==
  ASSUME WaitInv, NEW late \in 0 .. Late, TryLater(late)
  PROVE  /\ Delay > 0 /\ ~sent /\ sent' = sent /\ kind' = kind /\ common' = common
         /\ tries' \in Nat /\ tries' <= tries + 1
         /\ late \in Nat /\ late <= Late /\ Late \in Nat
         /\ Delay \in Int => clock' = (clock + (Delay + late)) % Cycle
<1>1. late \in Nat /\ late <= Late /\ Late \in Nat
  BY ScheduleAssumption
<1>2. tries' \in Nat /\ tries' <= tries + 1
  BY DEF WaitInv, TryLater, Counted
<1>3. /\ Delay > 0 /\ ~sent /\ sent' = sent /\ kind' = kind /\ common' = common
      /\ clock' = (clock + Delay + late) % Cycle
  BY Zenon DEF TryLater
<1>4. clock \in Int
  BY ClockIs DEF WaitInv
<1>5. \A d \in Int : clock + d + late = clock + (d + late)
  BY <1>1, <1>4
<1> QED BY <1>1, <1>2, <1>3, <1>5, Zenon

LEMMA UnicastStep ==
  ASSUME WaitInv, kind = "unicast", NEW late \in 0 .. Late, TryLater(late)
  PROVE  /\ clock' \in 0 .. Cycle - 1
         /\ UnicastWaits(Q', R', tries', common)
<1> DEFINE E == EawUs
           w == TU * UnicastGuard
           d == UnicastDelay(clock, start, common)
<1>1. /\ E \in Nat \ {0} /\ w \in Nat /\ 2 * w < E /\ 2 * w + Late <= E
      /\ Late < E
  BY GuardWidths, ScheduleAssumption, LatenessAssumption
<1>2. /\ clock \in 0 .. Cycle - 1 /\ Slots \in Nat \ {0}
      /\ Q \in 0 .. Slots - 1 /\ R \in 0 .. E - 1
  BY ClockIs DEF WaitInv
<1>3. /\ d > 0 /\ tries' \in Nat /\ tries' <= tries + 1 /\ tries \in Nat
      /\ late \in Nat /\ late <= Late /\ Late \in Nat
      /\ d \in Int => clock' = (clock + (d + late)) % Cycle
  BY Rearmed DEF Delay, WaitInv
<1>4. /\ Q \notin common => d = E - R
      /\ Q \in common /\ E - R < w =>
           d = 0 \/ ((Q + 1) % Slots \notin common /\ d = 2 * w - (E - R))
      /\ Q \in common /\ R < w => d \in {0, w - R}
      /\ Q \in common /\ w <= R /\ w <= E - R => d = 0
  BY <1>2, UnicastDelayIs
<1>5. PICK n \in Nat :
        /\ Passed(Q, n, common)
        /\ \/ tries <= n + 1 /\ (tries = 0 \/ Q \notin common \/ R <= Late)
           \/ tries <= n + 2 /\ Q \in common /\ w <= R /\ R <= w + Late
  BY Rearmed DEF WaitInv, UnicastWaits
<1>6. ASSUME NEW j \in Int, NEW u \in Int, 0 <= u, u < E, d \in Int,
             R + (d + late) = E * j + u
      PROVE  clock' \in 0 .. Cycle - 1 /\ Q' = (Q + j) % Slots /\ R' = u
  <2>1. d + late \in Int
    BY <1>3, <1>6
  <2> QED BY <1>2, <1>3, <1>6, <2>1, Advance, Zenon
<1> HIDE DEF E, w, d, Q, R
<1>7. CASE Q \notin common
  <2>1. d \in Int /\ R + (d + late) = E * 1 + late /\ late < E
    BY <1>1, <1>2, <1>3, <1>4, <1>7
  <2>2. 1 \in Int /\ late \in Int /\ 0 <= late
    BY <1>3
  <2>3. clock' \in 0 .. Cycle - 1 /\ Q' = (Q + 1) % Slots /\ R' = late
    BY <1>6, <2>1, <2>2, Zenon
  <2>4. Passed(Q', n + 1, common)
    BY <1>2, <1>5, <1>7, <2>3, PassOne, Zenon
  <2>5. n + 1 \in Nat /\ tries' <= (n + 1) + 1 /\ R' <= Late
    BY <1>3, <1>5, <1>7, <2>3
  <2> QED BY <2>3, <2>4, <2>5, Zenon DEF UnicastWaits
<1>8. CASE Q \in common /\ E - R < w
  <2> DEFINE u == 2 * (w - (E - R)) + late
  <2>1. (Q + 1) % Slots \notin common /\ d = 2 * w - (E - R)
    BY <1>3, <1>4, <1>8
  <2>2. /\ d \in Int /\ R + (d + late) = E * 1 + u
        /\ u \in Int /\ 0 <= u /\ u < E /\ 1 \in Int
    BY <1>1, <1>2, <1>3, <1>8, <2>1
  <2> HIDE DEF u
  <2>3. clock' \in 0 .. Cycle - 1 /\ Q' = (Q + 1) % Slots
    BY <1>6, <2>2, Zenon
  <2>4. tries = 0
    BY <1>1, <1>2, <1>3, <1>5, <1>8
  <2>5. Passed(Q', 0, common)
    BY DEF Passed
  <2>6. 0 \in Nat /\ tries' <= 0 + 1
    BY <1>3, <2>4
  <2> QED BY <2>1, <2>3, <2>5, <2>6, Zenon DEF UnicastWaits
<1>9. CASE Q \in common /\ R < w
  <2> DEFINE u == w + late
  <2>1. d = w - R
    BY <1>3, <1>4, <1>9
  <2>2. /\ d \in Int /\ R + (d + late) = E * 0 + u
        /\ u \in Int /\ 0 <= u /\ u < E /\ 0 \in Int
    BY <1>1, <1>2, <1>3, <1>9, <2>1
  <2>3. clock' \in 0 .. Cycle - 1 /\ Q' = (Q + 0) % Slots /\ R' = u
    BY <1>6, <2>2, Zenon
  <2>4. Q' = Q
    <3>1. Q + 0 = Q
      BY <1>2
    <3> QED BY <1>2, <2>3, <3>1, SmallMod
  <2>5. w <= R' /\ R' <= w + Late /\ tries' <= n + 2
    BY <1>1, <1>2, <1>3, <1>5, <1>9, <2>3
  <2> QED BY <1>5, <1>9, <2>3, <2>4, <2>5, Zenon DEF UnicastWaits, w
<1>10. CASE Q \in common /\ w <= R /\ w <= E - R
  BY <1>3, <1>4, <1>10
<1> QED BY <1>1, <1>2, <1>7, <1>8, <1>9, <1>10

LEMMA MulticastStep ==
  ASSUME WaitInv, kind = "multicast", NEW late \in 0 .. Late, TryLater(late)
  PROVE  /\ clock' \in 0 .. Cycle - 1
         /\ MulticastWaits(Q', R', tries')
<1> DEFINE E == EawUs
           w == TU * MulticastGuard
           d == MulticastDelay(clock, start)
           g == Gap
<1>1. E \in Nat \ {0} /\ w \in Nat /\ 2 * w < E /\ Late < w
  BY GuardWidths, LatenessAssumption
<1>2. /\ clock \in 0 .. Cycle - 1 /\ Slots \in Nat \ {0}
      /\ Q \in 0 .. Slots - 1 /\ R \in 0 .. E - 1
  BY ClockIs DEF WaitInv
<1>3. /\ d > 0 /\ tries' \in Nat /\ tries' <= tries + 1 /\ tries \in Nat
      /\ late \in Nat /\ late <= Late /\ Late \in Nat
      /\ d \in Int => clock' = (clock + (d + late)) % Cycle
  BY Rearmed DEF Delay, WaitInv
<1>4. /\ E - R < w => d = 2 * w - (E - R)
      /\ R < w => d = w - R
      /\ w <= R /\ w <= E - R => d = IF Q \in MulticastSlots THEN 0 ELSE E
  BY <1>2, MulticastDelayIs
<1>5. PICK n \in Nat :
        /\ Passed(Q, n, MulticastSlots)
        /\ \/ tries <= n
           \/ /\ R <= 2 * w - 1 + (n + 1) * Late
              /\ tries <= g + n + 1
              /\ R < w => tries <= g + n
  BY Rearmed DEF WaitInv, MulticastWaits
<1>6. ASSUME NEW j \in Int, NEW u \in Int, 0 <= u, u < E, d \in Int,
             R + (d + late) = E * j + u
      PROVE  clock' \in 0 .. Cycle - 1 /\ Q' = (Q + j) % Slots /\ R' = u
  <2>1. d + late \in Int
    BY <1>3, <1>6
  <2> QED BY <1>2, <1>3, <1>6, <2>1, Advance, Zenon
<1>7. g \in Nat /\ n < g /\ 3 * w + g * Late <= E + 1
  <2>1. g \in 1 .. Slots /\ Within(g, MulticastSlots) /\ 3 * w + g * Late <= E + 1
    BY GapIs
  <2>2. n < g
    BY <1>2, <1>5, <2>1, PassedFew, Zenon
  <2> QED BY <1>2, <2>1, <2>2
<1> DEFINE m == (n + 1) * Late
           a == g * Late
<1>8. /\ m \in Nat /\ Late <= m /\ m <= a /\ a \in Nat
      /\ ((n + 1) + 1) * Late = m + Late
  <2>1. n * Late \in Nat /\ m = n * Late + Late
    BY <1>3
  <2>2. (n + 1) * Late <= g * Late /\ g * Late \in Nat
    BY <1>3, <1>7
  <2>3. ((n + 1) + 1) * Late = (n + 1) * Late + Late
    BY <1>3
  <2> QED BY <1>3, <2>1, <2>2, <2>3
<1> HIDE DEF E, w, d, g, Q, R
<1>9. CASE E - R < w
  <2> DEFINE u == 2 * (w - (E - R)) + late
  <2>1. /\ d \in Int /\ R + (d + late) = E * 1 + u
        /\ u \in Int /\ 0 <= u /\ u < E /\ 1 \in Int
    BY <1>1, <1>2, <1>3, <1>4, <1>7, <1>8, <1>9
  <2> HIDE DEF u
  <2>2. clock' \in 0 .. Cycle - 1 /\ Q' = (Q + 1) % Slots /\ R' = u
    BY <1>6, <2>1, Zenon
  <2>3. tries <= n
    <3> HIDE DEF m, a
    <3>1. R <= 2 * w - 1 + m => FALSE
      BY <1>1, <1>2, <1>7, <1>8, <1>9 DEF a
    <3> QED BY <1>5, <3>1 DEF m
  <2>4. Passed(Q', 0, MulticastSlots)
    BY DEF Passed
  <2>5. R' <= 2 * w - 1 + (0 + 1) * Late
    BY <1>1, <1>2, <1>3, <2>2 DEF u
  <2>6. 0 \in Nat /\ tries' <= g + 0 + 1 /\ tries' <= g + 0
    BY <1>3, <1>7, <2>3
  <2> QED BY <2>2, <2>4, <2>5, <2>6, Zenon DEF MulticastWaits, w, g
<1>10. CASE R < w
  <2> DEFINE u == w + late
  <2>1. /\ d \in Int /\ R + (d + late) = E * 0 + u
        /\ u \in Int /\ 0 <= u /\ u < E /\ 0 \in Int
    BY <1>1, <1>2, <1>3, <1>4, <1>10
  <2>2. clock' \in 0 .. Cycle - 1 /\ Q' = (Q + 0) % Slots /\ R' = u
    BY <1>6, <2>1, Zenon
  <2>3. Q' = Q
    <3>1. Q + 0 = Q
      BY <1>2
    <3> QED BY <1>2, <2>2, <3>1, SmallMod
  <2>4. R' <= 2 * w - 1 + m /\ ~(R' < w)
    <3> HIDE DEF m
    <3> QED BY <1>1, <1>3, <1>8, <2>2
  <2>5. tries' <= g + n + 1
    BY <1>3, <1>5, <1>7, <1>10
  <2> QED BY <1>5, <2>2, <2>3, <2>4, <2>5, Zenon DEF MulticastWaits, w, g
<1>11. CASE w <= R /\ w <= E - R
  <2> DEFINE u == R + late
  <2>1. Q \notin MulticastSlots /\ d = E
    BY <1>3, <1>4, <1>11
  <2>2. /\ d \in Int /\ R + (d + late) = E * 1 + u
        /\ u \in Int /\ 0 <= u /\ u < E /\ 1 \in Int
    BY <1>1, <1>2, <1>3, <1>11, <2>1
  <2>3. clock' \in 0 .. Cycle - 1 /\ Q' = (Q + 1) % Slots /\ R' = u
    BY <1>6, <2>2, Zenon
  <2>4. Passed(Q', n + 1, MulticastSlots) /\ n + 1 \in Nat
    <3>1. n + 1 \in Nat
      OBVIOUS
    <3> QED BY <1>2, <1>5, <2>1, <2>3, <3>1, PassOne, Zenon
  <2>5. CASE tries <= n
    <3>1. tries' <= n + 1
      BY <1>3, <2>5
    <3> QED BY <2>3, <2>4, <3>1, Zenon DEF MulticastWaits
  <2>6. CASE R <= 2 * w - 1 + m /\ tries <= g + n + 1
    <3>1. R' <= 2 * w - 1 + ((n + 1) + 1) * Late /\ ~(R' < w)
      <4> HIDE DEF m
      <4>1. R' <= 2 * w - 1 + (m + Late) /\ ~(R' < w)
        BY <1>1, <1>2, <1>3, <1>8, <1>11, <2>3, <2>6
      <4> QED BY <1>8, <4>1
    <3>2. tries' <= g + (n + 1) + 1
      BY <1>3, <1>7, <2>6
    <3> QED BY <2>3, <2>4, <3>1, <3>2, Zenon DEF MulticastWaits, w, g
  <2> QED BY <1>5, <2>5, <2>6
<1> QED BY <1>1, <1>2, <1>9, <1>10, <1>11

LEMMA WaitInvariant == TimerSpec => []WaitInv
<1>1. TimerInit => WaitInv
  <2> SUFFICES ASSUME TimerInit PROVE WaitInv
    OBVIOUS
  <2>1. /\ clock \in 0 .. Cycle - 1 /\ tries = 0 /\ common \in Common
        /\ kind \in {"unicast", "multicast"}
    BY Zenon DEF TimerInit
  <2>2. /\ \A S : Passed(Q, 0, S)
        /\ 0 \in Nat /\ 0 <= 0 + 1 /\ 0 <= 0
    BY DEF Passed
  <2>3. UnicastWaits(Q, R, tries, common)
    BY <2>1, <2>2, Zenon DEF UnicastWaits
  <2>4. MulticastWaits(Q, R, tries)
    BY <2>1, <2>2, Zenon DEF MulticastWaits
  <2> QED BY <2>1, <2>2, <2>3, <2>4, Zenon DEF WaitInv
<1>2. WaitInv /\ [TimerNext]_timerVars => WaitInv'
  <2> SUFFICES ASSUME WaitInv, [TimerNext]_timerVars PROVE WaitInv'
    OBVIOUS
  <2>1. CASE Send
    <3>1. /\ sent' /\ clock' = clock /\ kind' = kind /\ common' = common
          /\ tries' = Counted
      BY <2>1 DEF Send
    <3>2. tries' \in Nat
      BY <3>1 DEF WaitInv, Counted
    <3> QED BY <3>1, <3>2 DEF WaitInv, Cycle
  <2>2. ASSUME NEW late \in 0 .. Late, TryLater(late) PROVE WaitInv'
    <3>1. sent' = sent /\ kind' = kind /\ common' = common /\ tries' \in Nat
      BY <2>2, Rearmed, Zenon
    <3>2. kind \in {"unicast", "multicast"} /\ common \in Common /\ ~sent
      BY <2>2, Rearmed DEF WaitInv
    <3>3. clock' \in 0 .. Cycle - 1
      BY <2>2, <3>2, UnicastStep, MulticastStep, Zenon
    <3>4. CASE kind = "unicast"
      <4>1. UnicastWaits(Q', R', tries', common)
        BY <2>2, <3>4, UnicastStep, Zenon
      <4> QED BY <3>1, <3>2, <3>3, <3>4, <4>1 DEF WaitInv
    <3>5. CASE kind = "multicast"
      <4>1. MulticastWaits(Q', R', tries')
        BY <2>2, <3>5, MulticastStep, Zenon
      <4> QED BY <3>1, <3>2, <3>3, <3>5, <4>1 DEF WaitInv
    <3> QED BY <3>2, <3>4, <3>5
  <2>3. CASE UNCHANGED timerVars
    BY <2>3 DEF timerVars, WaitInv, Q, R
  <2> QED BY <2>1, <2>2, <2>3 DEF TimerNext
<1> QED BY <1>1, <1>2, PTL DEF TimerSpec

\* A unicast frame whose peer shares a slot with us, and every multicast
\* frame, is sent by the timer with number MaxTries at the latest, for every
\* lateness of the timers on the way.
THEOREM SentSoonTheorem == TimerSpec => []SentSoon
<1>1. WaitInv => SentSoon
  <2> SUFFICES ASSUME WaitInv, kind = "multicast" \/ common # {},
                      tries = MaxTries, ~sent
               PROVE  FALSE
    BY DEF SentSoon
  <2>1. Slots \in Nat \ {0} /\ Q \in 0 .. Slots - 1 /\ tries \in Nat
    BY ClockIs DEF WaitInv
  <2>2. CASE kind = "unicast"
    <3>1. PICK c \in common : c \in 0 .. Slots - 1
      BY <2>2, GuardAssumption DEF WaitInv
    <3>2. Within(Slots, common) /\ Slots \in 1 .. Slots
      BY <2>1, <3>1, WithinAll
    <3>3. PICK n \in Nat : Passed(Q, n, common) /\ (tries <= n + 1 \/ tries <= n + 2)
      BY <2>2, Zenon DEF WaitInv, UnicastWaits
    <3>4. n < Slots
      BY <2>1, <3>2, <3>3, PassedFew, Zenon
    <3> QED BY <2>1, <3>3, <3>4, LatenessAssumption
  <2>3. CASE kind = "multicast"
    <3>1. PICK n \in Nat : /\ Passed(Q, n, MulticastSlots)
                           /\ tries <= n \/ tries <= Gap + n + 1
      BY <2>3, Zenon DEF WaitInv, MulticastWaits
    <3>2. n < Gap /\ Gap \in Nat
      BY <2>1, <3>1, GapIs, PassedFew
    <3> QED BY <2>1, <3>1, <3>2, GapIs
  <2> QED BY <2>2, <2>3 DEF WaitInv
<1> QED BY <1>1, WaitInvariant, PTL
=============================================================================
