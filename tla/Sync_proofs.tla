----------------------------- MODULE Sync_proofs -----------------------------
(***************************************************************************)
(* Clocks that are handed down a chain of nodes, for every length of the   *)
(* windows, every width of the counters and every length of the chain.     *)
(*                                                                         *)
(* The argument: a frame hands the place of a clock (Schedule_proofs) down *)
(* the tree with a lag; lags add up along the chain, and what two clocks   *)
(* read depends on the distance of their places alone.                     *)
(***************************************************************************)
EXTENDS Sync, Schedule_proofs, TLAPS

ClockPlace(i) == Place(Clock(i), sync[i])

\* The place a frame hands down: the beginning of the EAW after the one it
\* names, less the time left.
FramePlace(f) == (f.aw \div Presence) * EawUs + (EawUs - TU * f.next)

\* How far a frame for node i can be behind node 0.
FrameLag(i) == (i - 1) * MaxLag + (TU - 1) + air[i].age

\* Node i is where node 0 was at most i lags ago.
Follows(i) ==
  \E lag \in 0 .. i * MaxLag : Congruent(ClockPlace(i), ClockPlace(0) - lag)

\* The frame for node i hands down where node 0 was not long ago.
Carries(i) ==
  /\ i > 0 /\ air[i].age >= 0
  /\ \E lag \in 0 .. FrameLag(i) :
       Congruent(FramePlace(air[i]), ClockPlace(0) - lag)

SyncInv ==
  /\ TypeOK
  /\ \A i \in Node : sync[i].aw_counter % Presence = 0
  /\ air[0] = NoFrame
  /\ \A i \in Node : synced[i] => Follows(i)
  /\ \A i \in Node : air[i].fresh => Carries(i)

LEMMA FramePlaceType ==
  ASSUME NEW f, f.aw \in Nat, f.next \in Int
  PROVE  FramePlace(f) \in Int
<1> DEFINE x == f.aw \div Presence
<1>1. x \in Nat
  BY Widths, DivExact
<1> HIDE DEF x
<1>2. x * EawUs \in Int /\ TU * f.next \in Int /\ EawUs \in Int
  BY <1>1, Widths
<1>3. x * EawUs + (EawUs - TU * f.next) \in Int
  BY <1>2
<1> QED BY <1>3 DEF FramePlace, x

\* A frame hands down the place of its sender, less the fraction of a TU that
\* awdl_sync_next_aw_tu cuts off.
LEMMA SentPlace ==
  ASSUME NEW t \in Int, NEW s, IsClock(s), NEW f,
         f.next = NextAwTu(t, s), f.aw = CurrentAw(t, s)
  PROVE  \E cut \in 0 .. TU - 1 : Congruent(FramePlace(f), Place(t, s) - cut)
<1> DEFINE p == Place(t, s)
           E == EawUs
           C == EawsPerCycle
           q == p \div E
           r == p % E
           y == q % C
           k == q \div C
           v == r \div TU
           cut == r % TU
<1>1. E \in Nat \ {0} /\ C \in Nat \ {0} /\ TU \in Nat \ {0} /\ CycleUs = E * C
      /\ EawUs = TU * EawTu /\ EawTu \in Nat \ {0}
  BY Widths DEF CycleUs, EawUs
<1>2. p \in Int /\ f.next = EawTu - v /\ f.aw \div Presence = y
  BY PlaceType, ClockReads DEF CurrentEaw
<1> HIDE DEF p, E, C
<1>3. q \in Int /\ r \in Int /\ r >= 0 /\ p = E * q + r
  BY <1>1, <1>2, DivMod
<1> HIDE DEF q, r
<1>4. y \in Int /\ k \in Int /\ q = C * k + y
  BY <1>1, <1>3, DivMod
<1>5. v \in Int /\ cut \in 0 .. TU - 1 /\ r = TU * v + cut
  BY <1>1, <1>3, DivMod
<1> HIDE DEF y, k, v, cut
<1>6. FramePlace(f) = y * E + TU * v
  <2>1. TU * (EawTu - v) = TU * EawTu - TU * v
    BY <1>1, <1>5
  <2>2. TU * v \in Int /\ TU * EawTu \in Int /\ y * E \in Int
    BY <1>1, <1>4, <1>5
  <2>3. y * E + (TU * EawTu - (TU * EawTu - TU * v)) = y * E + TU * v
    BY <2>2
  <2>4. FramePlace(f) = y * E + (TU * EawTu - TU * (EawTu - v))
    BY <1>1, <1>2 DEF FramePlace, E
  <2> QED BY <2>1, <2>3, <2>4
<1>7. FramePlace(f) = (p - cut) + CycleUs * (-k) /\ -k \in Int
  <2>1. E * q = E * (C * k) + E * y
    BY <1>1, <1>4
  <2>2. (E * C) * (-k) = -(E * (C * k)) /\ E * (C * k) \in Int
    BY <1>1, <1>4
  <2>3. y * E = E * y /\ E * y \in Int /\ TU * v \in Int
    BY <1>1, <1>4, <1>5
  <2>4. cut \in Int
    BY <1>1, <1>5
  <2>5. y * E + TU * v = (p - cut) + (E * C) * (-k)
    BY <1>3, <1>5, <2>1, <2>2, <2>3, <2>4
  <2> QED BY <1>1, <1>4, <1>6, <2>5
<1> QED BY <1>5, <1>7 DEF Congruent, p

\* awdl_sync_update_last sets the clock to the place of the frame, also where
\* last_update underflows.
LEMMA UpdatedPlace ==
  ASSUME NEW t \in Int, NEW f, f.next \in Int, f.aw \in 0 .. U16 - 1
  PROVE  LET s == UpdateLast(t, f.next, f.aw)
         IN  /\ s \in SyncState /\ IsClock(s)
             /\ Congruent(Place(t, s), FramePlace(f))
<1> DEFINE s == UpdateLast(t, f.next, f.aw)
           x == f.aw \div Presence
           m == f.aw % Presence
           d == t - TU * (EawTu - f.next)
           l == d % U64
           k == d \div U64
           w == U64 \div CycleUs
           c == f.aw - m
           n == f.next
           E == EawUs
<1>1. /\ TU \in Nat \ {0} /\ EawTu \in Nat \ {0} /\ E \in Nat \ {0} /\ U16 \in Nat \ {0}
      /\ E = TU * EawTu /\ Presence \in Nat \ {0} /\ U64 \in Nat \ {0}
      /\ CycleUs \in Nat \ {0} /\ U64 = CycleUs * w /\ w \in Nat
  BY Widths DEF EawUs
<1>2. f.aw \in Nat /\ n \in Int
  BY <1>1
<1>3. x \in Nat /\ m \in Int /\ m >= 0 /\ m < Presence /\ f.aw = Presence * x + m
  <2>1. f.aw \in Int /\ f.aw \in Nat /\ Presence \in Nat \ {0}
    BY <1>1, <1>2
  <2>2. x \in Nat
    BY <2>1, DivExact
  <2> QED BY <2>1, <2>2, DivMod, Zenon
<1>4. s.last_update = l /\ s.aw_counter = c /\ s = [last_update |-> l, aw_counter |-> c]
  BY DEF UpdateLast
<1> HIDE DEF x, m, E, w, n
<1>5. TU * (EawTu - n) = E - TU * n /\ TU * n \in Int
  BY <1>1, <1>2
<1>6. d \in Int /\ d = t - (E - TU * n)
  BY <1>1, <1>5 DEF n
<1> HIDE DEF d
<1>7. k \in Int /\ l \in 0 .. U64 - 1 /\ d = U64 * k + l
  <2>1. d \in Int /\ U64 \in Nat \ {0}
    BY <1>1, <1>6
  <2>2. k \in Int /\ l \in Int /\ l >= 0 /\ l < U64 /\ d = U64 * k + l
    BY <2>1, DivMod, Zenon
  <2> HIDE DEF k, l
  <2>3. l \in 0 .. U64 - 1
    BY <2>1, <2>2
  <2> QED BY <2>2, <2>3
<1> HIDE DEF k, l
<1>8. c = Presence * x /\ c \in 0 .. U16 - 1
  <2>1. Presence * x \in Nat
    BY <1>1, <1>3
  <2> QED BY <1>1, <1>2, <1>3, <2>1
<1> HIDE DEF c
<1>9. c \div Presence = x /\ c % Presence = 0
  <2>1. c = Presence * x + 0 /\ c \in Int /\ x \in Int
    BY <1>1, <1>3, <1>8
  <2> QED BY <1>1, <2>1, DivModUnique
<1>10. s \in SyncState /\ IsClock(s)
  <2>1. [last_update |-> l, aw_counter |-> c] \in SyncState
    BY <1>7, <1>8 DEF SyncState
  <2>2. l \in Int /\ c \in Nat
    BY <1>1, <1>7, <1>8
  <2> QED BY <1>4, <1>9, <2>1, <2>2 DEF IsClock
<1>11. Place(t, s) = FramePlace(f) + CycleUs * (w * k) /\ w * k \in Int
  <2>1. Place(t, s) = x * E + (t - l)
    BY <1>4, <1>9 DEF Place, E
  <2>2. FramePlace(f) = x * E + (E - TU * n)
    BY DEF FramePlace, E, x, n
  <2>3. (CycleUs * w) * k = CycleUs * (w * k) /\ w * k \in Int
        /\ CycleUs * (w * k) \in Int
    BY <1>1, <1>7
  <2>4. t - l = (E - TU * n) + CycleUs * (w * k)
    <3> DEFINE z == CycleUs * (w * k)
               b == TU * n
    <3>1. z \in Int /\ b \in Int /\ l \in Int /\ E \in Int
      BY <1>1, <1>5, <1>7, <2>3
    <3>2. U64 * k = z
      BY <1>1, <2>3
    <3>3. d = z + l /\ d = t - (E - b)
      BY <1>6, <1>7, <3>2
    <3> HIDE DEF z, b
    <3>4. t - l = (E - b) + z
      BY <3>1, <3>3
    <3> QED BY <3>4 DEF z, b
  <2>5. x * E \in Int
    BY <1>1, <1>3
  <2> QED BY <1>1, <1>5, <2>1, <2>2, <2>3, <2>4, <2>5
<1>12. Congruent(Place(t, s), FramePlace(f))
  BY <1>11 DEF Congruent
<1> QED BY <1>10, <1>12

LEMMA ChainTypes ==
  /\ Hops \in Nat /\ 0 \in Node /\ Node \subseteq Nat
  /\ MaxLag \in Nat /\ MaxDelay \in Nat /\ TU \in Nat \ {0}
  /\ MaxLag = MaxDelay + (TU - 1)
  /\ \A i \in Node : i * MaxLag \in Nat /\ (i + 1) * MaxLag = i * MaxLag + MaxLag
<1>1. Hops \in Nat /\ MaxDelay \in Nat /\ TU \in Nat \ {0}
  BY ChainAssumption, Widths
<1>2. 0 \in Node /\ Node \subseteq Nat
  BY <1>1 DEF Node
<1>3. MaxLag \in Nat /\ MaxLag = MaxDelay + (TU - 1)
  BY <1>1 DEF MaxLag
<1>4. ASSUME NEW i \in Nat
      PROVE  i * MaxLag \in Nat /\ (i + 1) * MaxLag = i * MaxLag + MaxLag
  BY <1>3
<1> QED BY <1>1, <1>2, <1>3, <1>4

LEMMA StateTypes ==
  ASSUME SyncInv
  PROVE  \A i \in Node :
           /\ Clock(i) \in Int /\ IsClock(sync[i]) /\ ClockPlace(i) \in Int
           /\ air[i].aw \in 0 .. U16 - 1 /\ air[i].next \in 0 .. EawTu
           /\ air[i].aw \in Nat /\ air[i].next \in Int /\ air[i].age \in Int
           /\ FramePlace(air[i]) \in Int
<1> SUFFICES ASSUME NEW i \in Node
             PROVE  /\ Clock(i) \in Int /\ IsClock(sync[i]) /\ ClockPlace(i) \in Int
                    /\ air[i].aw \in 0 .. U16 - 1 /\ air[i].next \in 0 .. EawTu
                    /\ air[i].aw \in Nat /\ air[i].next \in Int /\ air[i].age \in Int
                    /\ FramePlace(air[i]) \in Int
  OBVIOUS
<1>1. Clock(i) \in Int
  <2>1. now \in Int
    BY ChainAssumption DEF SyncInv, TypeOK
  <2>2. Ahead[i] \in Int
    BY ChainAssumption, Widths DEF Node
  <2> QED BY <2>1, <2>2 DEF Clock
<1>2. IsClock(sync[i])
  <2>1. sync[i] \in SyncState /\ sync[i].aw_counter % Presence = 0
    BY DEF SyncInv, TypeOK
  <2>2. sync[i].last_update \in Int /\ sync[i].aw_counter \in Nat
    BY <2>1, Widths DEF SyncState
  <2> QED BY <2>1, <2>2 DEF IsClock
<1>3. ClockPlace(i) \in Int
  BY <1>1, <1>2, PlaceType DEF ClockPlace
<1>4. air[i] \in [next : 0 .. EawTu, aw : 0 .. U16 - 1,
                  age : -1 .. MaxDelay, fresh : BOOLEAN]
  BY DEF SyncInv, TypeOK
<1>5. /\ air[i].aw \in 0 .. U16 - 1 /\ air[i].next \in 0 .. EawTu
      /\ air[i].aw \in Nat /\ air[i].next \in Int /\ air[i].age \in Int
  BY <1>4, Widths, ChainTypes
<1>6. FramePlace(air[i]) \in Int
  BY <1>5, FramePlaceType
<1> QED BY <1>1, <1>2, <1>3, <1>5, <1>6

LEMMA SyncInit == Init => SyncInv
<1> SUFFICES ASSUME Init PROVE SyncInv
  OBVIOUS
<1>1. PICK aw \in Counters :
        sync = [i \in Node |->
                  IF i = 0 THEN UpdateLast(Clock(0), EawTu, aw)
                  ELSE [last_update |-> Clock(i), aw_counter |-> 0]]
  BY DEF Init
<1>2. now = 0 /\ moves = 0 /\ air = [i \in Node |-> NoFrame]
      /\ synced = [i \in Node |-> i = 0]
  BY DEF Init
<1>3. Hops \in Nat /\ MaxDelay \in Nat /\ MaxTime \in Nat /\ MaxMoves \in Nat
      /\ U16 \in Nat \ {0} /\ EawTu \in Nat \ {0} /\ U64 \in Nat \ {0}
      /\ aw \in 0 .. U16 - 1 /\ 0 \in Node
  BY ChainAssumption, ChainTypes, Widths
<1>4. \A i \in Node : Clock(i) \in Int /\ Clock(i) \in 0 .. U64 - 1
  BY <1>2, <1>3, ChainAssumption DEF Clock, Node
<1>5. sync[0] \in SyncState /\ IsClock(sync[0])
  <2> DEFINE f == [next |-> EawTu, aw |-> aw]
  <2>1. f.next = EawTu /\ f.aw = aw /\ f.next \in Int /\ f.aw \in 0 .. U16 - 1
        /\ Clock(0) \in Int
    BY <1>3, <1>4
  <2> HIDE DEF f
  <2>2. LET s == UpdateLast(Clock(0), f.next, f.aw) IN s \in SyncState /\ IsClock(s)
    BY <2>1, UpdatedPlace
  <2>3. sync[0] = UpdateLast(Clock(0), f.next, f.aw)
    BY <1>1, <1>3, <2>1
  <2> QED BY <2>2, <2>3
<1>6. ASSUME NEW i \in Node, i # 0
      PROVE  sync[i] \in SyncState /\ IsClock(sync[i])
  <2>1. sync[i] = [last_update |-> Clock(i), aw_counter |-> 0]
    BY <1>1, <1>6
  <2>2. 0 % Presence = 0 /\ 0 \in 0 .. U16 - 1
    BY Widths
  <2>3. Clock(i) \in 0 .. U64 - 1 /\ Clock(i) \in Int
    BY <1>4
  <2> QED BY <2>1, <2>2, <2>3 DEF SyncState, IsClock
<1>7. TypeOK
  <2>1. now \in 0 .. MaxTime /\ moves \in 0 .. MaxMoves
    BY <1>2, <1>3
  <2>2. sync \in [Node -> SyncState]
    <3>1. sync = [i \in Node |-> sync[i]]
      BY <1>1
    <3> QED BY <1>5, <1>6, <3>1
  <2>3. NoFrame \in [next : 0 .. EawTu, aw : 0 .. U16 - 1,
                     age : -1 .. MaxDelay, fresh : BOOLEAN]
    BY <1>3 DEF NoFrame
  <2>4. synced \in [Node -> BOOLEAN]
    BY <1>2
  <2> QED BY <1>2, <2>1, <2>2, <2>3, <2>4 DEF TypeOK
<1>8. Follows(0)
  <2>1. ClockPlace(0) \in Int
    BY <1>3, <1>4, <1>5, PlaceType DEF ClockPlace
  <2> DEFINE p == ClockPlace(0)
  <2> HIDE DEF p
  <2>2. p = (p - 0) + CycleUs * 0 /\ 0 \in 0 .. 0 * MaxLag
    BY <2>1, Widths, ChainTypes DEF p
  <2> QED BY <2>2 DEF Follows, Congruent, p
<1>9. \A i \in Node : ~air[i].fresh /\ air[i] = NoFrame
  BY <1>2 DEF NoFrame
<1>10. \A i \in Node : synced[i] => Follows(i)
  BY <1>2, <1>8, Zenon
<1>11. \A i \in Node : sync[i].aw_counter % Presence = 0
  BY <1>5, <1>6 DEF IsClock
<1> QED BY <1>3, <1>7, <1>9, <1>10, <1>11 DEF SyncInv

\* Places that both move by d keep their lag; a place that stands still gets
\* behind by d.
LEMMA LagKept ==
  ASSUME NEW a \in Int, NEW b \in Int, NEW lag \in Int, NEW d \in Int,
         Congruent(a, b - lag)
  PROVE  /\ Congruent(a + d, (b + d) - lag)
         /\ Congruent(a, (b + d) - (lag + d))
         /\ \A c \in Int : Congruent(c, a - d) => Congruent(c, b - (lag + d))
<1>1. b - lag \in Int
  OBVIOUS
<1>2. Congruent(a + d, (b - lag) + d)
  BY <1>1, CongruentAdd, Zenon
<1>3. (b - lag) + d = (b + d) - lag /\ b - lag = (b + d) - (lag + d)
  OBVIOUS
<1>4. ASSUME NEW c \in Int, Congruent(c, a - d)
      PROVE  Congruent(c, b - (lag + d))
  <2>1. -d \in Int /\ a + (-d) = a - d /\ (b - lag) + (-d) = b - (lag + d)
        /\ a - d \in Int /\ b - (lag + d) \in Int
    OBVIOUS
  <2>2. Congruent(a + (-d), (b - lag) + (-d))
    BY <1>1, <2>1, CongruentAdd, Zenon
  <2>3. Congruent(a - d, b - (lag + d))
    BY <2>1, <2>2
  <2> QED BY <1>4, <2>1, <2>3, CongruentAdd, ZenonT(30)
<1> QED BY <1>2, <1>3, <1>4

LEMMA TickFollows == SyncInv /\ Tick => SyncInv'
<1> SUFFICES ASSUME SyncInv, Tick PROVE SyncInv'
  OBVIOUS
<1>1. /\ now < MaxTime /\ now' = now + 1 /\ sync' = sync /\ synced' = synced
      /\ moves' = moves
      /\ air' = [i \in Node |-> IF air[i].age \in 0 .. MaxDelay - 1
                                THEN [air[i] EXCEPT !.age = @ + 1] ELSE NoFrame]
  BY DEF Tick
<1>2. TypeOK /\ air[0] = NoFrame /\ 0 \in Node
  BY ChainTypes DEF SyncInv
<1>3. TypeOK'
  <2>1. now' \in 0 .. MaxTime
    BY <1>1, <1>2, ChainAssumption DEF TypeOK
  <2> DEFINE Frame == [next : 0 .. EawTu, aw : 0 .. U16 - 1,
                       age : -1 .. MaxDelay, fresh : BOOLEAN]
  <2>2. NoFrame \in Frame
    BY Widths, ChainTypes DEF NoFrame
  <2>3. ASSUME NEW i \in Node, air[i].age \in 0 .. MaxDelay - 1
        PROVE  [air[i] EXCEPT !.age = @ + 1] \in Frame
    <3>1. air[i] \in Frame /\ air[i].age + 1 \in -1 .. MaxDelay
      BY <1>2, <2>3, ChainTypes DEF TypeOK
    <3> QED BY <3>1
  <2> HIDE DEF Frame
  <2>4. air' \in [Node -> Frame]
    BY <1>1, <2>2, <2>3
  <2> QED BY <1>1, <1>2, <2>1, <2>4 DEF TypeOK, Frame
<1>4. ASSUME NEW i \in Node
      PROVE  ClockPlace(i) \in Int /\ ClockPlace(i)' = ClockPlace(i) + 1
  <2>1. Clock(i) \in Int /\ IsClock(sync[i]) /\ ClockPlace(i) \in Int
    BY StateTypes
  <2>2. Clock(i)' = Clock(i) + 1
    <3>1. now \in Int /\ Ahead[i] \in Int
      BY <1>2, ChainAssumption, Widths DEF TypeOK, Node
    <3> QED BY <1>1, <3>1 DEF Clock
  <2>3. Place(Clock(i) + 1, sync[i]) = Place(Clock(i), sync[i]) + 1
    BY <2>1, PlaceType
  <2> QED BY <1>1, <2>1, <2>2, <2>3 DEF ClockPlace
<1>5. \A i \in Node : (synced[i] => Follows(i))'
  <2> SUFFICES ASSUME NEW i \in Node, synced[i]
               PROVE  Follows(i)'
    BY <1>1
  <2>1. PICK lag \in 0 .. i * MaxLag : Congruent(ClockPlace(i), ClockPlace(0) - lag)
    BY DEF SyncInv, Follows
  <2>2. lag \in Int
    BY ChainTypes
  <2>3. Congruent(ClockPlace(i) + 1, (ClockPlace(0) + 1) - lag)
    <3>1. 1 \in Int /\ ClockPlace(i) \in Int /\ ClockPlace(0) \in Int
      BY <1>2, <1>4
    <3> QED BY <2>1, <2>2, <3>1, LagKept, Zenon
  <2> QED BY <1>2, <1>4, <2>3 DEF Follows
<1>6. \A i \in Node : (air[i].fresh => Carries(i))'
  <2> SUFFICES ASSUME NEW i \in Node, air'[i].fresh
               PROVE  Carries(i)'
    OBVIOUS
  <2>0. /\ air[i].age \in 0 .. MaxDelay - 1
        /\ air'[i] = [air[i] EXCEPT !.age = @ + 1]
    BY <1>1 DEF NoFrame
  <2>1. /\ air'[i].age = air[i].age + 1 /\ air'[i].aw = air[i].aw
        /\ air'[i].next = air[i].next /\ air'[i].fresh = air[i].fresh
    BY <1>2, <2>0, ZenonT(30) DEF TypeOK
  <2>2. Carries(i)
    BY <2>1 DEF SyncInv
  <2>3. PICK lag \in 0 .. FrameLag(i) :
          Congruent(FramePlace(air[i]), ClockPlace(0) - lag)
    BY <2>2 DEF Carries
  <2>4. FrameLag(i) \in Int /\ FrameLag(i)' = FrameLag(i) + 1
    <3>1. (i - 1) * MaxLag \in Int /\ TU - 1 \in Int /\ air[i].age \in Int
      <4>1. i \in Int /\ MaxLag \in Int /\ TU \in Int
        BY ChainTypes
      <4>2. air[i].age \in Int
        BY StateTypes
      <4> QED BY <4>1, <4>2
    <3>2. FrameLag(i)' = (i - 1) * MaxLag + (TU - 1) + air'[i].age
      BY DEF FrameLag
    <3>3. FrameLag(i) = (i - 1) * MaxLag + (TU - 1) + air[i].age
      BY DEF FrameLag
    <3> HIDE DEF FrameLag
    <3>4. \A u, v, w \in Int : /\ u + v + w \in Int
                               /\ u + v + (w + 1) = (u + v + w) + 1
      OBVIOUS
    <3>5. air'[i].age = air[i].age + 1
      BY <2>1
    <3> QED BY <3>1, <3>2, <3>3, <3>4, <3>5
  <2>5. lag \in Int /\ lag + 1 \in 0 .. FrameLag(i) + 1
    BY <2>4
  <2>6. FramePlace(air'[i]) = FramePlace(air[i])
    BY <2>1 DEF FramePlace
  <2>7. Congruent(FramePlace(air[i]), (ClockPlace(0) + 1) - (lag + 1))
    BY <1>2, <1>4, <2>3, <2>5, StateTypes, LagKept
  <2>8. i > 0 /\ air'[i].age >= 0
    BY <2>1, <2>2, StateTypes, SMTT(30) DEF Carries
  <2> QED BY <1>2, <1>4, <2>4, <2>5, <2>6, <2>7, <2>8 DEF Carries
<1>7. air'[0] = NoFrame
  <2>1. air[0].age = -1 /\ ~(-1 \in 0 .. MaxDelay - 1)
    BY <1>2, ChainTypes, SMTT(30) DEF NoFrame
  <2> QED BY <1>1, <1>2, <2>1
<1> QED BY <1>1, <1>3, <1>5, <1>6, <1>7 DEF SyncInv

LEMMA SendFollows ==
  ASSUME SyncInv, NEW n \in Node, SendAction(n)
  PROVE  SyncInv'
<1> DEFINE f == [next |-> NextAwTu(Clock(n), sync[n]),
                 aw |-> CurrentAw(Clock(n), sync[n]),
                 age |-> 0, fresh |-> synced[n]]
<1>1. /\ n < Hops /\ air' = [air EXCEPT ![n + 1] = f]
      /\ now' = now /\ sync' = sync /\ synced' = synced /\ moves' = moves
  BY DEF SendAction
<1>2. /\ TypeOK /\ n \in Nat /\ n + 1 \in Node /\ n + 1 # 0 /\ 0 \in Node
      /\ Clock(n) \in Int /\ IsClock(sync[n]) /\ ClockPlace(n) \in Int
      /\ ClockPlace(0) \in Int
  <2>1. n \in Nat /\ 0 \in Node
    BY ChainTypes
  <2>2. n + 1 \in Node /\ n + 1 # 0
    BY <1>1, <2>1, ChainAssumption DEF Node
  <2> QED BY <2>1, <2>2, StateTypes DEF SyncInv
<1>3. /\ f.next \in 0 .. EawTu /\ f.aw \in 0 .. U16 - 1
  BY <1>2, ClockReads, Widths
<1>4. TypeOK'
  <2>1. f \in [next : 0 .. EawTu, aw : 0 .. U16 - 1,
               age : -1 .. MaxDelay, fresh : BOOLEAN]
    BY <1>2, <1>3, ChainTypes DEF TypeOK
  <2> HIDE DEF f
  <2> QED BY <1>1, <1>2, <2>1 DEF TypeOK
<1>5. \A i \in Node : ClockPlace(i)' = ClockPlace(i)
  BY <1>1 DEF ClockPlace, Clock
<1>6. \A i \in Node : (synced[i] => Follows(i))'
  BY <1>1, <1>2, <1>5, SMTT(30) DEF SyncInv, Follows
<1>7. synced[n] => Carries(n + 1)'
  <2> SUFFICES ASSUME synced[n] PROVE Carries(n + 1)'
    OBVIOUS
  <2>1. f.next = NextAwTu(Clock(n), sync[n]) /\ f.aw = CurrentAw(Clock(n), sync[n])
        /\ f.age = 0
    BY SMTT(30)
  <2>2. air'[n + 1] = f
    BY <1>1, <1>2, SMTT(30) DEF TypeOK
  <2> HIDE DEF f
  <2>3. PICK cut \in 0 .. TU - 1 : Congruent(FramePlace(f), ClockPlace(n) - cut)
    BY <1>2, <2>1, SentPlace DEF ClockPlace
  <2>4. PICK lag \in 0 .. n * MaxLag : Congruent(ClockPlace(n), ClockPlace(0) - lag)
    BY SMTT(30) DEF SyncInv, Follows
  <2>5. cut \in Int /\ lag \in Int /\ n * MaxLag \in Int
    BY ChainTypes
  <2>6. FramePlace(f) \in Int
    <3>1. f.aw \in Nat /\ f.next \in Int
      BY <1>3, Widths
    <3> QED BY <3>1, FramePlaceType
  <2>7. Congruent(FramePlace(f), ClockPlace(0) - (lag + cut))
    BY <1>2, <2>3, <2>4, <2>5, <2>6, LagKept, Zenon
  <2>8. FrameLag(n + 1)' = n * MaxLag + (TU - 1)
    <3>1. FrameLag(n + 1)' = ((n + 1) - 1) * MaxLag + (TU - 1) + 0
      BY <2>1, <2>2 DEF FrameLag
    <3>2. (n + 1) - 1 = n
      BY <1>2
    <3>3. n * MaxLag + (TU - 1) + 0 = n * MaxLag + (TU - 1)
      BY <2>5, ChainTypes
    <3> QED BY <3>1, <3>2, <3>3
  <2>9. lag + cut \in 0 .. n * MaxLag + (TU - 1)
    BY <2>5, ChainTypes
  <2>10. n + 1 > 0 /\ f.age >= 0
    BY <1>2, <2>1
  <2>11. ClockPlace(0)' = ClockPlace(0)
    BY <1>2, <1>5
  <2> QED BY <2>2, <2>7, <2>8, <2>9, <2>10, <2>11 DEF Carries
<1>8. \A i \in Node : (air[i].fresh => Carries(i))'
  <2> SUFFICES ASSUME NEW i \in Node, air'[i].fresh PROVE Carries(i)'
    OBVIOUS
  <2>1. CASE i = n + 1
    <3>1. air'[n + 1].fresh = synced[n]
      BY <1>1, <1>2 DEF TypeOK
    <3> QED BY <1>7, <2>1, <3>1
  <2>2. CASE i # n + 1
    <3>1. air'[i] = air[i]
      BY <1>1, <1>2, <2>2, SMTT(30) DEF TypeOK
    <3>2. Carries(i)
      BY <3>1 DEF SyncInv
    <3> QED BY <1>2, <1>5, <3>1, <3>2 DEF Carries, FrameLag
  <2> QED BY <2>1, <2>2
<1>9. air'[0] = NoFrame
  <2>1. air[0] = NoFrame
    BY DEF SyncInv
  <2> HIDE DEF f
  <2> QED BY <1>1, <1>2, <2>1 DEF TypeOK
<1> QED BY <1>1, <1>4, <1>6, <1>8, <1>9, SMTT(30) DEF SyncInv

LEMMA HandleFollows ==
  ASSUME SyncInv, NEW n \in Node, HandleSyncParams(n)
  PROVE  SyncInv'
<1> DEFINE s == UpdateLast(Clock(n), air[n].next, air[n].aw)
<1>1. /\ air[n] # NoFrame
      /\ sync' = [sync EXCEPT ![n] = s]
      /\ synced' = [synced EXCEPT ![n] = air[n].fresh]
      /\ air' = [air EXCEPT ![n] = NoFrame]
      /\ now' = now /\ moves' = moves
  BY DEF HandleSyncParams
<1>2. TypeOK /\ 0 \in Node /\ n # 0 /\ air[0] = NoFrame /\ Clock(n) \in Int
  BY <1>1, ChainTypes, StateTypes, SMTT(30) DEF SyncInv
<1>3. s \in SyncState /\ IsClock(s) /\ Congruent(Place(Clock(n), s), FramePlace(air[n]))
  <2>1. air[n].next \in Int /\ air[n].aw \in 0 .. U16 - 1
    BY StateTypes
  <2> QED BY <1>2, <2>1, UpdatedPlace, SMTT(30)
<1> HIDE DEF s
<1>4. /\ sync'[n] = s /\ \A i \in Node \ {n} : sync'[i] = sync[i]
      /\ synced'[n] = air[n].fresh /\ \A i \in Node \ {n} : synced'[i] = synced[i]
      /\ air'[n] = NoFrame /\ \A i \in Node \ {n} : air'[i] = air[i]
  BY <1>1, <1>2 DEF TypeOK
<1>5. TypeOK'
  <2> DEFINE Frame == [next : 0 .. EawTu, aw : 0 .. U16 - 1,
                       age : -1 .. MaxDelay, fresh : BOOLEAN]
  <2>1. NoFrame \in Frame
    BY Widths, ChainTypes DEF NoFrame
  <2>2. air \in [Node -> Frame]
    BY <1>2 DEF TypeOK
  <2>3. air[n].fresh \in BOOLEAN
    BY <2>2
  <2> HIDE DEF Frame
  <2>4. air' \in [Node -> Frame]
    BY <1>1, <2>1, <2>2
  <2>5. sync' \in [Node -> SyncState]
    BY <1>1, <1>2, <1>3 DEF TypeOK
  <2>6. synced' \in [Node -> BOOLEAN]
    BY <1>1, <1>2, <2>3 DEF TypeOK
  <2> QED BY <1>1, <1>2, <2>4, <2>5, <2>6 DEF TypeOK, Frame
<1>6. \A i \in Node : sync'[i].aw_counter % Presence = 0
  BY <1>3, <1>4, SMTT(30) DEF SyncInv, IsClock
<1>7. air'[0] = NoFrame
  BY <1>2, <1>4, SMTT(30)
<1>8. \A i \in Node \ {n} : ClockPlace(i)' = ClockPlace(i)
  BY <1>1, <1>4 DEF ClockPlace, Clock
<1>9. ClockPlace(0)' = ClockPlace(0)
  BY <1>2, <1>8
<1>10. air[n].fresh => Follows(n)'
  <2> SUFFICES ASSUME air[n].fresh PROVE Follows(n)'
    OBVIOUS
  <2>1. Carries(n)
    BY DEF SyncInv
  <2>2. PICK lag \in 0 .. FrameLag(n) :
          Congruent(FramePlace(air[n]), ClockPlace(0) - lag)
    BY <2>1 DEF Carries
  <2>3. FrameLag(n) \in Int /\ FrameLag(n) <= n * MaxLag /\ n * MaxLag \in Int
    <3>1. n \in Nat /\ MaxLag \in Nat /\ n * MaxLag \in Int
          /\ MaxLag = MaxDelay + (TU - 1) /\ TU \in Int /\ MaxDelay \in Int
      BY ChainTypes
    <3>2. (n - 1) * MaxLag = n * MaxLag - MaxLag /\ (n - 1) * MaxLag \in Int
      BY <3>1
    <3>3. air[n].age \in Int /\ air[n].age <= MaxDelay
      BY <1>2, <3>1, StateTypes DEF TypeOK
    <3> QED BY <3>1, <3>2, <3>3 DEF FrameLag
  <2>4. lag \in Int /\ lag \in 0 .. n * MaxLag
    BY <2>3
  <2>5. /\ ClockPlace(n)' = Place(Clock(n), s) /\ Place(Clock(n), s) \in Int
        /\ FramePlace(air[n]) \in Int /\ ClockPlace(0) - lag \in Int
    <3>1. ClockPlace(n)' = Place(Clock(n), s)
      BY <1>1, <1>4 DEF ClockPlace, Clock
    <3>2. Place(Clock(n), s) \in Int
      BY <1>2, <1>3, PlaceType
    <3>3. FramePlace(air[n]) \in Int /\ ClockPlace(0) \in Int
      BY <1>2, StateTypes, SMTT(30)
    <3> QED BY <2>4, <3>1, <3>2, <3>3
  <2>6. Congruent(Place(Clock(n), s), ClockPlace(0) - lag)
    BY <1>3, <2>2, <2>5, CongruentAdd, SMTT(30)
  <2> QED BY <1>9, <2>4, <2>5, <2>6 DEF Follows
<1>11. \A i \in Node : (synced[i] => Follows(i))'
  <2> SUFFICES ASSUME NEW i \in Node, synced'[i] PROVE Follows(i)'
    OBVIOUS
  <2>1. CASE i = n
    BY <1>4, <1>10, <2>1
  <2>2. CASE i # n
    <3>1. Follows(i)
      BY <1>4, <2>2 DEF SyncInv
    <3> QED BY <1>8, <1>9, <2>2, <3>1 DEF Follows
  <2> QED BY <2>1, <2>2
<1>12. \A i \in Node : (air[i].fresh => Carries(i))'
  <2> SUFFICES ASSUME NEW i \in Node, air'[i].fresh PROVE Carries(i)'
    OBVIOUS
  <2>1. i # n /\ air'[i] = air[i]
    BY <1>4 DEF NoFrame
  <2>2. Carries(i)
    BY <2>1 DEF SyncInv
  <2> QED BY <1>9, <2>1, <2>2 DEF Carries, FrameLag
<1> QED BY <1>5, <1>6, <1>7, <1>11, <1>12, SMTT(30) DEF SyncInv

LEMMA MoveFollows ==
  ASSUME SyncInv, NEW next \in Nexts, NEW aw \in Counters, MasterMoves(next, aw)
  PROVE  SyncInv'
<1> DEFINE s == UpdateLast(Clock(0), next, aw)
<1>1. /\ moves < MaxMoves /\ moves' = moves + 1 /\ now' = now
      /\ sync' = [sync EXCEPT ![0] = s]
      /\ synced' = [i \in Node |-> i = 0]
      /\ air' = [i \in Node |-> [air[i] EXCEPT !.fresh = FALSE]]
  BY DEF MasterMoves
<1>2. TypeOK /\ 0 \in Node /\ air[0] = NoFrame /\ Clock(0) \in Int
  BY ChainTypes, StateTypes, SMTT(30) DEF SyncInv
<1>3. s \in SyncState /\ IsClock(s)
  <2> DEFINE f == [next |-> next, aw |-> aw]
  <2>1. f.next = next /\ f.aw = aw /\ f.next \in Int /\ f.aw \in 0 .. U16 - 1
    BY ChainAssumption, Widths
  <2> HIDE DEF f
  <2>2. LET z == UpdateLast(Clock(0), f.next, f.aw) IN z \in SyncState /\ IsClock(z)
    BY <1>2, <2>1, UpdatedPlace
  <2> QED BY <2>1, <2>2
<1> HIDE DEF s
<1>4. TypeOK'
  <2>1. moves' \in 0 .. MaxMoves
    <3>1. moves \in 0 .. MaxMoves /\ MaxMoves \in Nat
      BY <1>2, ChainAssumption, Zenon DEF TypeOK
    <3> QED BY <1>1, <3>1
  <2>2. sync' \in [Node -> SyncState]
    BY <1>1, <1>2, <1>3 DEF TypeOK
  <2>3. synced' \in [Node -> BOOLEAN]
    BY <1>1
  <2>4. air' \in [Node -> [next : 0 .. EawTu, aw : 0 .. U16 - 1,
                           age : -1 .. MaxDelay, fresh : BOOLEAN]]
    BY <1>1, <1>2, Zenon DEF TypeOK
  <2> QED BY <1>1, <1>2, <2>1, <2>2, <2>3, <2>4 DEF TypeOK
<1>5. \A i \in Node : sync'[i].aw_counter % Presence = 0
  <2>1. sync'[0] = s /\ \A i \in Node \ {0} : sync'[i] = sync[i]
    BY <1>1, <1>2 DEF TypeOK
  <2>2. s.aw_counter % Presence = 0
    BY <1>3 DEF IsClock
  <2>3. \A i \in Node : sync[i].aw_counter % Presence = 0
    BY DEF SyncInv
  <2> QED BY <2>1, <2>2, <2>3, Zenon
<1>6. air'[0] = NoFrame
  <2>1. air'[0] = [NoFrame EXCEPT !.fresh = FALSE]
    BY <1>1, <1>2, Zenon
  <2>2. [NoFrame EXCEPT !.fresh = FALSE] = NoFrame
    <3>1. \A r \in [next : Int, aw : Int, age : Int, fresh : BOOLEAN] :
            r.fresh = FALSE => [r EXCEPT !.fresh = FALSE] = r
      OBVIOUS
    <3>2. NoFrame \in [next : Int, aw : Int, age : Int, fresh : BOOLEAN]
          /\ NoFrame.fresh = FALSE
      BY DEF NoFrame
    <3> QED BY <3>1, <3>2
  <2> QED BY <2>1, <2>2
<1>7. Follows(0)'
  <2>1. ClockPlace(0)' \in Int
    <3>1. ClockPlace(0)' = Place(Clock(0), s)
      BY <1>1, <1>2 DEF ClockPlace, Clock, TypeOK
    <3> QED BY <1>2, <1>3, <3>1, PlaceType
  <2> DEFINE p == ClockPlace(0)'
  <2> HIDE DEF p
  <2>2. p = (p - 0) + CycleUs * 0 /\ 0 \in 0 .. 0 * MaxLag
    BY <2>1, Widths, ChainTypes DEF p
  <2> QED BY <2>2 DEF Follows, Congruent, p
<1>8. \A i \in Node : (synced[i] => Follows(i))'
  BY <1>1, <1>7, Zenon
<1>9. \A i \in Node : ~air'[i].fresh
  BY <1>1, <1>2 DEF TypeOK
<1> QED BY <1>4, <1>5, <1>6, <1>8, <1>9, SMTT(30) DEF SyncInv

\* Every step of a node or of the time keeps each clock, and each frame on its
\* way, at most so many lags behind node 0.
LEMMA SyncInvariant == Spec => []SyncInv
<1>1. Init => SyncInv
  BY SyncInit
<1>2. SyncInv /\ [Next]_vars => SyncInv'
  <2> SUFFICES ASSUME SyncInv, [Next]_vars PROVE SyncInv'
    OBVIOUS
  <2>1. CASE Tick
    BY <2>1, TickFollows
  <2>2. ASSUME NEW i \in Node, SendAction(i) PROVE SyncInv'
    BY <2>2, SendFollows
  <2>3. ASSUME NEW i \in Node, HandleSyncParams(i) PROVE SyncInv'
    BY <2>3, HandleFollows
  <2>4. ASSUME NEW next \in Nexts, NEW aw \in Counters, MasterMoves(next, aw)
        PROVE  SyncInv'
    BY <2>4, MoveFollows
  <2>5. CASE UNCHANGED vars
    BY <2>5, SMTT(30) DEF vars, SyncInv, TypeOK, Follows, Carries, FrameLag, ClockPlace, Clock
  <2> QED BY <2>1, <2>2, <2>3, <2>4, <2>5 DEF Next
<1> QED BY <1>1, <1>2, PTL DEF Spec

\* awdl_handle_sync_params_tlv hands the clock down the tree: a node i hops
\* below node 0 is where node 0 was at most i lags ago, across wrap-arounds of
\* the window counter and underflows of last_update, for every chain.
THEOREM AlignedTheorem == Spec => []Aligned
<1>1. SyncInv => Aligned
  <2> SUFFICES ASSUME SyncInv, NEW i \in Node, synced[i]
               PROVE  \E lag \in 0 .. i * MaxLag :
                        Position(Clock(i), sync[i]) = Position(Clock(0) - lag, sync[0])
    BY DEF Aligned
  <2>1. PICK lag \in 0 .. i * MaxLag : Congruent(ClockPlace(i), ClockPlace(0) - lag)
    BY DEF SyncInv, Follows
  <2>2. lag \in Int /\ -lag \in Int /\ 0 \in Node
    BY ChainTypes
  <2>3. /\ Clock(i) \in Int /\ IsClock(sync[i]) /\ ClockPlace(i) \in Int
        /\ Clock(0) \in Int /\ IsClock(sync[0]) /\ ClockPlace(0) \in Int
    BY <2>2, StateTypes
  <2>4. Clock(0) - lag \in Int /\ Place(Clock(0) - lag, sync[0]) = ClockPlace(0) - lag
    <3>1. Place(Clock(0) + (-lag), sync[0]) = ClockPlace(0) + (-lag)
      BY <2>2, <2>3, PlaceType DEF ClockPlace
    <3>2. Clock(0) + (-lag) = Clock(0) - lag /\ ClockPlace(0) + (-lag) = ClockPlace(0) - lag
      BY <2>2, <2>3
    <3> QED BY <2>2, <2>3, <3>1, <3>2
  <2>5. ClockPlace(0) - lag \in Int
    BY <2>2, <2>3
  <2>6. /\ ClockPlace(i) % EawUs = (ClockPlace(0) - lag) % EawUs
        /\ (ClockPlace(i) \div EawUs) % EawsPerCycle
             = ((ClockPlace(0) - lag) \div EawUs) % EawsPerCycle
    BY <2>1, <2>3, <2>5, SamePlace
  <2>7. /\ NextAwUs(Clock(i), sync[i]) = EawUs - (ClockPlace(i) % EawUs)
        /\ CurrentEaw(Clock(i), sync[i]) = (ClockPlace(i) \div EawUs) % EawsPerCycle
    BY <2>3, ClockReads DEF ClockPlace
  <2>8. /\ NextAwUs(Clock(0) - lag, sync[0]) = EawUs - ((ClockPlace(0) - lag) % EawUs)
        /\ CurrentEaw(Clock(0) - lag, sync[0])
             = ((ClockPlace(0) - lag) \div EawUs) % EawsPerCycle
    BY <2>3, <2>4, ClockReads
  <2> QED BY <2>6, <2>7, <2>8 DEF Position
<1> QED BY <1>1, SyncInvariant, PTL

\* Two nodes below node 0 are apart by less than the guards.
LEMMA Apart ==
  ASSUME SyncInv, NEW i \in Node, NEW j \in Node, synced[i], synced[j]
  PROVE  \E e \in Int :
           /\ Congruent(ClockPlace(j), ClockPlace(i) + e)
           /\ -(TU * UnicastGuard) < e /\ e < TU * UnicastGuard
           /\ -(TU * MulticastGuard) < e /\ e < TU * MulticastGuard
<1>1. PICK k \in 0 .. i * MaxLag : Congruent(ClockPlace(i), ClockPlace(0) - k)
  BY DEF SyncInv, Follows
<1>2. PICK l \in 0 .. j * MaxLag : Congruent(ClockPlace(j), ClockPlace(0) - l)
  BY DEF SyncInv, Follows
<1>3. \A n \in Node : n * MaxLag \in Int /\ n * MaxLag <= Hops * MaxLag
  <2>1. \A n \in Node : n \in Nat /\ n <= Hops
    BY ChainTypes DEF Node
  <2>2. Hops \in Nat /\ MaxLag \in Nat
    BY ChainTypes
  <2> QED BY <2>1, <2>2
<1>4. Hops * MaxLag \in Int /\ TU * UnicastGuard \in Int /\ TU * MulticastGuard \in Int
  BY ChainTypes, GuardWidths
<1>5. k \in Int /\ l \in Int /\ 0 <= k /\ k <= Hops * MaxLag /\ 0 <= l /\ l <= Hops * MaxLag
  BY <1>3, <1>4
<1>6. /\ k - l \in Int
      /\ -(TU * UnicastGuard) < k - l /\ k - l < TU * UnicastGuard
      /\ -(TU * MulticastGuard) < k - l /\ k - l < TU * MulticastGuard
  <2> DEFINE a == Hops * MaxLag
             b == TU * UnicastGuard
             c == TU * MulticastGuard
  <2>1. a < b /\ a < c
    BY ChainAssumption
  <2>2. a \in Int /\ b \in Int /\ c \in Int /\ k <= a /\ l <= a
    BY <1>4, <1>5
  <2> HIDE DEF a, b, c
  <2>3. k - l \in Int /\ -b < k - l /\ k - l < b /\ -c < k - l /\ k - l < c
    BY <1>5, <2>1, <2>2
  <2> QED BY <2>3 DEF b, c
<1>7. ClockPlace(i) \in Int /\ ClockPlace(j) \in Int /\ ClockPlace(0) \in Int
  BY ChainTypes, StateTypes
<1>8. Congruent(ClockPlace(j), ClockPlace(i) + (k - l))
  <2> DEFINE p == ClockPlace(0)
             q == ClockPlace(i)
  <2> HIDE DEF p, q
  <2>1. p \in Int /\ q \in Int /\ Congruent(q, p - k)
    BY <1>1, <1>7 DEF p, q
  <2>2. p - k \in Int /\ p - l \in Int /\ (p - k) + (k - l) = p - l /\ q + (k - l) \in Int
    BY <1>5, <2>1
  <2>3. Congruent(q + (k - l), (p - k) + (k - l))
    BY <1>6, <2>1, <2>2, CongruentAdd, Zenon
  <2>4. Congruent(p - l, q + (k - l))
    BY <2>2, <2>3, CongruentAdd, Zenon
  <2>5. Congruent(ClockPlace(j), q + (k - l))
    BY <1>2, <1>7, <2>2, <2>4, CongruentAdd, ZenonT(30) DEF p
  <2> QED BY <2>5 DEF q
<1> QED BY <1>6, <1>8

\* What awdl_send_unicast and awdl_send_multicast send by the clock of one
\* node of the tree is heard by the clock of every other.
THEOREM HeardTheorem == Spec => []Heard
<1>1. SyncInv => Heard
  <2> SUFFICES ASSUME SyncInv, NEW i \in Node, NEW j \in Node, synced[i], synced[j]
               PROVE  /\ \A c \in Common :
                           CanSendUnicastIn(Clock(i), sync[i], c, UnicastGuard) = 0
                             => SameChannel(Clock(j), sync[j], c)
                      /\ MulticastDelay(Clock(i), sync[i]) = 0
                           => IsMulticastEaw(Clock(j), sync[j])
    BY DEF Heard
  <2>1. /\ Clock(i) \in Int /\ IsClock(sync[i])
        /\ Clock(j) \in Int /\ IsClock(sync[j])
    BY StateTypes
  <2>2. PICK e \in Int :
           /\ Congruent(Place(Clock(j), sync[j]), Place(Clock(i), sync[i]) + e)
           /\ -(TU * UnicastGuard) < e /\ e < TU * UnicastGuard
           /\ -(TU * MulticastGuard) < e /\ e < TU * MulticastGuard
    BY Apart DEF ClockPlace
  <2>3. ASSUME NEW c \in Common,
               CanSendUnicastIn(Clock(i), sync[i], c, UnicastGuard) = 0
        PROVE  SameChannel(Clock(j), sync[j], c)
    BY <2>1, <2>2, <2>3, UnicastGuarded, SMTT(30)
  <2>4. ASSUME MulticastDelay(Clock(i), sync[i]) = 0
        PROVE  IsMulticastEaw(Clock(j), sync[j])
    BY <2>1, <2>2, <2>4, MulticastGuarded, SMTT(30)
  <2> QED BY <2>3, <2>4, Zenon
<1> QED BY <1>1, SyncInvariant, PTL

\* The error awdl_sync_error_tu reports is the difference of two places.
LEMMA ErrorPlaces ==
  ASSUME NEW t \in Int, NEW s, IsClock(s), NEW f, f.next \in Int, f.aw \in Nat,
         NEW g, g.next = NextAwTu(t, s), g.aw = CurrentAw(t, s)
  PROVE  /\ ErrorTu(t, f.next, f.aw, s) \in Int
         /\ TU * ErrorTu(t, f.next, f.aw, s) = FramePlace(f) - FramePlace(g)
<1> DEFINE x == f.aw \div Presence
           y == CurrentEaw(t, s)
           n == f.next
           m == NextAwTu(t, s)
           D == EawTu
<1>1. TU \in Nat \ {0} /\ D \in Nat \ {0} /\ EawUs = TU * D
  BY Widths DEF EawUs
<1>2. x \in Int
  BY Widths, DivExact
<1>3. y \in Int /\ m \in Int
  <2>1. Place(t, s) \div EawUs \in Int
    BY PlaceType, Widths, DivMod
  <2> QED BY <2>1, Widths, ClockReads, DivMod
<1>4. n \in Int
  OBVIOUS
<1>5. FramePlace(f) = x * (TU * D) + (TU * D - TU * n)
  BY <1>1 DEF FramePlace
<1>6. FramePlace(g) = y * (TU * D) + (TU * D - TU * m)
  BY <1>1 DEF FramePlace, CurrentEaw
<1>7. ErrorTu(t, f.next, f.aw, s) = (x - y) * D - (n - m)
  BY DEF ErrorTu
<1> HIDE DEF x, y, n, m, D
<1>8. (x - y) * D = x * D - y * D /\ x * D \in Int /\ y * D \in Int
  BY <1>1, <1>2, <1>3
<1>9. (x - y) * D - (n - m) \in Int
  BY <1>3, <1>4, <1>8
<1>10. TU * ((x - y) * D - (n - m)) = (TU * (x * D) - TU * (y * D)) - (TU * n - TU * m)
  <2> DEFINE a == x * D
             b == y * D
  <2> HIDE DEF a, b
  <2>1. a \in Int /\ b \in Int
    BY <1>8 DEF a, b
  <2>2. TU * ((a - b) - (n - m)) = (TU * a - TU * b) - (TU * n - TU * m)
    BY <1>1, <1>3, <1>4, <2>1
  <2> QED BY <1>8, <2>2 DEF a, b
<1>11. TU * (x * D) = x * (TU * D) /\ TU * (y * D) = y * (TU * D)
       /\ x * (TU * D) \in Int /\ y * (TU * D) \in Int
       /\ TU * n \in Int /\ TU * m \in Int /\ TU * D \in Int
  BY <1>1, <1>2, <1>3, <1>4
<1>12. TU * ((x - y) * D - (n - m)) = FramePlace(f) - FramePlace(g)
  BY <1>5, <1>6, <1>10, <1>11
<1> QED BY <1>7, <1>9, <1>12

\* A multiple of a TU between -b and b + TU - 1, in TU.
LEMMA InTu ==
  ASSUME NEW e \in Int, NEW b \in Nat, -b <= TU * e, TU * e <= b + (TU - 1)
  PROVE  e \in -((b \div TU) + 1) .. (b \div TU) + 1
<1> DEFINE q == b \div TU
           r == b % TU
<1>1. TU \in Nat \ {0}
  BY Widths
<1>2. q \in Int /\ r \in Int /\ r >= 0 /\ r < TU /\ b = TU * q + r
  BY <1>1, DivMod
<1> HIDE DEF q, r
<1>3. TU * (q + 2) = TU * q + 2 * TU /\ TU * (-(q + 1)) = -(TU * q) - TU
      /\ TU * q \in Int /\ TU * e \in Int
  BY <1>1, <1>2
<1>4. TU * e < TU * (q + 2) /\ TU * (-(q + 1)) < TU * e
  BY <1>1, <1>2, <1>3
<1>5. e < q + 2
  <2> SUFFICES ASSUME e >= q + 2 PROVE FALSE
    BY <1>2
  <2>1. TU * e >= TU * (q + 2)
    BY <1>1, <1>2
  <2>2. TU * (q + 2) \in Int
    BY <1>1, <1>2
  <2> DEFINE x == TU * e
             y == TU * (q + 2)
  <2>3. x \in Int /\ y \in Int /\ x < y /\ x >= y
    BY <1>3, <1>4, <2>1, <2>2
  <2> HIDE DEF x, y
  <2> QED BY <2>3
<1>6. -(q + 1) < e
  <2> SUFFICES ASSUME e <= -(q + 1) PROVE FALSE
    BY <1>2
  <2>1. TU * e <= TU * (-(q + 1))
    BY <1>1, <1>2
  <2>2. TU * (-(q + 1)) \in Int
    BY <1>1, <1>2
  <2> DEFINE x == TU * e
             y == TU * (-(q + 1))
  <2>3. x \in Int /\ y \in Int /\ y < x /\ x <= y
    BY <1>3, <1>4, <2>1, <2>2
  <2> HIDE DEF x, y
  <2> QED BY <2>3
<1>7. e \in -(q + 1) .. q + 1
  BY <1>2, <1>5, <1>6
<1> QED BY <1>7 DEF q

\* The error awdl_sync_error_tu reports for a master that we already follow is
\* no more than the lag, up to a cycle of the window counter.
THEOREM ErrorIsLagTheorem == Spec => ErrorIsLag
<1> DEFINE cycle == (U16 \div Presence) * EawTu
           bound(i) == (i * MaxLag) \div TU + 1
           error(i) == ErrorTu(Clock(i), air[i].next, air[i].aw, sync[i])
           Small(i) == \E e \in -bound(i) .. bound(i) : (error(i) - e) % cycle = 0
<1>1. ASSUME SyncInv, NEW i \in Node, HandleSyncParams(i), synced[i], air[i].fresh
      PROVE  Small(i)
  <2> DEFINE t == Clock(i)
             s == sync[i]
             f == air[i]
             g == [next |-> NextAwTu(t, s), aw |-> CurrentAw(t, s)]
             p == ClockPlace(i)
             z == ClockPlace(0)
             b == i * MaxLag
             err == error(i)
             F == FramePlace(f)
             G == FramePlace(g)
  <2>1. /\ t \in Int /\ IsClock(s) /\ p \in Int /\ z \in Int
        /\ f.next \in Int /\ f.aw \in Nat /\ F \in Int /\ p = Place(t, s)
    BY <1>1, ChainTypes, StateTypes, SMTT(30) DEF ClockPlace
  <2>2. g.next = NextAwTu(t, s) /\ g.aw = CurrentAw(t, s)
    OBVIOUS
  <2> HIDE DEF g, f, s, t
  <2>3. err \in Int /\ TU * err = F - G
    <3>1. err = ErrorTu(t, f.next, f.aw, s)
      BY DEF t, f, s
    <3>2. /\ ErrorTu(t, f.next, f.aw, s) \in Int
          /\ TU * ErrorTu(t, f.next, f.aw, s) = FramePlace(f) - FramePlace(g)
      BY <2>1, <2>2, ErrorPlaces, SMTT(30)
    <3> QED BY <3>1, <3>2
  <2>4. PICK cut \in 0 .. TU - 1 : Congruent(G, p - cut)
    BY <2>1, <2>2, SentPlace
  <2>5. PICK k \in 0 .. b : Congruent(p, z - k)
    BY <1>1 DEF SyncInv, Follows
  <2>6. b \in Nat /\ TU \in Nat \ {0} /\ FrameLag(i) \in Int /\ FrameLag(i) <= b
    <3>1. i \in Nat /\ MaxLag \in Nat /\ i * MaxLag \in Nat /\ TU \in Nat \ {0}
          /\ MaxLag = MaxDelay + (TU - 1) /\ MaxDelay \in Int
      BY ChainTypes
    <3>2. (i - 1) * MaxLag = i * MaxLag - MaxLag /\ (i - 1) * MaxLag \in Int
      BY <3>1
    <3>3. air[i].age \in Int /\ air[i].age <= MaxDelay
      BY <1>1, <3>1, StateTypes, SMTT(30) DEF SyncInv, TypeOK
    <3> QED BY <3>1, <3>2, <3>3 DEF FrameLag
  <2>7. PICK l \in 0 .. FrameLag(i) : Congruent(F, z - l)
    BY <1>1, SMTT(30) DEF SyncInv, Carries, f
  <2>8. cut \in Int /\ k \in Int /\ l \in Int /\ 0 <= cut /\ cut <= TU - 1
        /\ 0 <= k /\ k <= b /\ 0 <= l /\ l <= b
    BY <2>6
  <2> HIDE DEF p, z, b, err, F, G
  <2>9. PICK j1 \in Int : G = (p - cut) + CycleUs * j1
    BY <2>4 DEF Congruent
  <2>10. PICK j2 \in Int : p = (z - k) + CycleUs * j2
    BY <2>5 DEF Congruent
  <2>11. PICK j3 \in Int : F = (z - l) + CycleUs * j3
    BY <2>7 DEF Congruent
  <2> DEFINE j == j3 - j2 - j1
             c == cycle
             e == err - c * j
  <2>12. c \in Nat \ {0} /\ CycleUs = TU * c
    <3>1. EawsPerCycle \in Nat \ {0} /\ EawTu \in Nat \ {0} /\ TU \in Nat \ {0}
      BY Widths
    <3>2. c = EawsPerCycle * EawTu
      BY DEF EawsPerCycle
    <3>3. (TU * EawTu) * EawsPerCycle = TU * (EawsPerCycle * EawTu)
          /\ EawsPerCycle * EawTu \in Nat \ {0}
      BY <3>1
    <3> QED BY <3>2, <3>3 DEF CycleUs, EawUs
  <2> HIDE DEF c
  <2>13. j \in Int /\ c * j \in Int /\ e \in Int
    BY <2>3, <2>12
  <2>14. TU * e = (k - l) + cut
    <3>1. CycleUs * j = CycleUs * j3 - CycleUs * j2 - CycleUs * j1
          /\ CycleUs * j3 \in Int /\ CycleUs * j2 \in Int /\ CycleUs * j1 \in Int
      BY Widths
    <3>2. F - G = (k - l) + cut + CycleUs * j
      BY <2>1, <2>8, <2>9, <2>10, <2>11, <3>1
    <3> HIDE DEF j
    <3>3. TU * e = TU * err - TU * (c * j) /\ TU * (c * j) = (TU * c) * j
      BY <2>3, <2>6, <2>12, <2>13
    <3>4. CycleUs * j \in Int
      BY <2>13, Widths
    <3>5. TU * e = ((k - l) + cut + CycleUs * j) - CycleUs * j
      BY <2>3, <2>12, <3>2, <3>3
    <3> QED BY <2>8, <3>4, <3>5
  <2>15. -b <= TU * e /\ TU * e <= b + (TU - 1)
    BY <2>6, <2>8, <2>14
  <2>16. e \in -((b \div TU) + 1) .. (b \div TU) + 1
    <3> HIDE DEF e
    <3> QED BY <2>6, <2>13, <2>15, InTu, Zenon
  <2>17. (err - e) % c = 0
    <3>1. err - e = c * j + 0
      BY <2>3, <2>13
    <3>2. err - e \in Int
      BY <2>3, <2>13
    <3> DEFINE y == err - e
    <3> HIDE DEF e, j, y
    <3>3. y \in Int /\ c \in Nat \ {0} /\ j \in Int /\ y = c * j + 0
      BY <2>12, <2>13, <3>1, <3>2 DEF y
    <3>4. y % c = 0
      BY <3>3, DivModUnique
    <3> QED BY <3>4 DEF y
  <2> QED BY <2>16, <2>17, SMTT(30) DEF b, err, c
<1>2. SyncInv /\ [Next]_vars
        => [\A i \in Node :
              HandleSyncParams(i) /\ synced[i] /\ air[i].fresh => Small(i)]_vars
  BY <1>1
<1>3. [][\A i \in Node :
           HandleSyncParams(i) /\ synced[i] /\ air[i].fresh => Small(i)]_vars
      => ErrorIsLag
  BY DEF ErrorIsLag
<1> QED BY <1>2, <1>3, SyncInvariant, PTL DEF Spec
=============================================================================
