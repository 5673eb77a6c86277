-------------------------- MODULE HitFinderProofs --------------------------
(***************************************************************************)
(* Proofs about the hit finders, for any number of lanes, width of the     *)
(* numbers, samples, filter, threshold and length of the window.           *)
(***************************************************************************)
EXTENDS HitFinder, NaturalsInduction, WellFoundedInduction, TLAPS

----------------------------------------------------------------------------
(* Induction and recursion over the natural numbers, with sets and         *)
(* functions in the place of operators.                                    *)
LEMMA SetInduction ==
  ASSUME NEW S, 0 \in S, \A n \in Nat : n \in S => n + 1 \in S
  PROVE  Nat \subseteq S
<1> DEFINE R == {ss \in Nat \X Nat : ss[1] < ss[2]}
           B == Nat \ S
<1>1. IsWellFoundedOn(R, Nat)
  BY NatLessThanWellFounded DEF OpToRel
<1>2. ASSUME B # {} PROVE FALSE
  <2>1. PICK t \in B : \A u \in B : <<u, t>> \notin R
    <3>1. B \subseteq Nat
      OBVIOUS
    <3> HIDE DEF R, B
    <3> QED
      BY <1>1, <1>2, <3>1, WFMin
  <2>2. t \in Nat /\ t # 0 /\ t - 1 \in Nat /\ t - 1 < t /\ (t - 1) + 1 = t
    OBVIOUS
  <2>3. t - 1 \notin B
    BY <2>1, <2>2
  <2> QED
    BY <2>1, <2>2, <2>3
<1> QED
  BY <1>2

(* The values up to n of a function defined by recursion.                  *)
Begins(h, n, s0, step) ==
  h[0] = s0 /\ \A i \in 0 .. n - 1 : h[i + 1] = step[i][h[i]]

LEMMA BeginsExists ==
  ASSUME NEW S, NEW s0 \in S, NEW step \in [Nat -> [S -> S]]
  PROVE  \A n \in Nat : \E h \in [0 .. n -> S] : Begins(h, n, s0, step)
<1> DEFINE T == {n \in Nat : \E h \in [0 .. n -> S] : Begins(h, n, s0, step)}
<1>1. 0 \in T
  <2>1. [i \in 0 .. 0 |-> s0] \in [0 .. 0 -> S]
    OBVIOUS
  <2>2. Begins([i \in 0 .. 0 |-> s0], 0, s0, step)
    BY DEF Begins
  <2> QED
    BY <2>1, <2>2
<1>2. \A n \in Nat : n \in T => n + 1 \in T
  <2> SUFFICES ASSUME NEW n \in Nat, \E h \in [0 .. n -> S] : Begins(h, n, s0, step)
               PROVE  \E k \in [0 .. n + 1 -> S] : Begins(k, n + 1, s0, step)
    OBVIOUS
  <2>h. PICK h \in [0 .. n -> S] : Begins(h, n, s0, step)
    OBVIOUS
  <2>1. PICK v \in S : v = step[n][h[n]]
    BY <2>h
  <2> DEFINE k == [i \in 0 .. n + 1 |-> IF i <= n THEN h[i] ELSE v]
  <2>2. k \in [0 .. n + 1 -> S]
    OBVIOUS
  <2>3. /\ \A i \in 0 .. n : k[i] = h[i]
        /\ k[n + 1] = v
    OBVIOUS
  <2> HIDE DEF k
  <2>4. Begins(k, n + 1, s0, step)
    <3>1. k[0] = s0
      BY <2>h, <2>3 DEF Begins
    <3>2. ASSUME NEW i \in 0 .. n PROVE k[i + 1] = step[i][k[i]]
      <4>1. CASE i = n
        BY <2>1, <2>3, <4>1
      <4>2. CASE i # n
        <5>1. i \in 0 .. n - 1 /\ i + 1 \in 0 .. n
          BY <4>2
        <5> QED
          BY <2>h, <2>3, <5>1 DEF Begins
      <4> QED
        BY <4>1, <4>2
    <3> QED
      BY <3>1, <3>2 DEF Begins
  <2> QED
    BY <2>2, <2>4
<1>3. Nat \subseteq T
  <2> HIDE DEF T
  <2> QED
    BY <1>1, <1>2, SetInduction
<1> QED
  BY <1>3

----------------------------------------------------------------------------
(* What is kept of a channel, and of the samples.                          *)
Int16 == -Half .. Half - 1

Chan ==
  [pedestal : Int, accum : Int, quantile25 : Int, accum25 : Int,
   quantile75 : Int, accum75 : Int, RS : Int, pedestalRS : Int, accumRS : Int,
   prev_samp : [0 .. Len(Taps) - 1 -> Int],
   prev_was_over : BOOLEAN, hit_charge : Int16, hit_tover : 0 .. Half - 1]

TraceType ==
  /\ now \in Nat
  /\ trace \in Seq([Lanes -> [over : BOOLEAN, add : Int]])
  /\ Len(trace) = now

LEMMA Constants ==
  /\ NumLanes \in Nat /\ NumLanes > 0 /\ Half \in Nat /\ Half > 0
  /\ AccLimit \in Nat /\ multiplier \in Nat /\ multiplier > 0
  /\ WindowFrames \in Nat /\ WindowFrames > 0
  /\ Spread \in Nat /\ Threshold \in Nat
  /\ Taps \in Seq(Int) /\ Len(Taps) \in Nat /\ Len(Taps) > 0
  /\ \A i \in 1 .. Len(Taps) : Taps[i] \in Int
  /\ Taps[Len(Taps)] = 0
<1>1. Taps \in Seq(Int) /\ Taps # <<>> /\ Taps[Len(Taps)] = 0
  BY HitFinderAssumption
<1>2. Len(Taps) \in Nat /\ Len(Taps) > 0 /\ \A i \in 1 .. Len(Taps) : Taps[i] \in Int
  BY <1>1
<1> QED
  BY <1>1, <1>2, HitFinderAssumption

LEMMA WrapType == ASSUME NEW x \in Int PROVE Wrap(x) \in Int16
<1>1. PICK h \in Nat : h = Half /\ h > 0
  BY Constants
<1>2. PICK y \in Int : y = x + h
  OBVIOUS
<1>3. y % (2 * h) \in 0 .. 2 * h - 1
  BY <1>1
<1> QED
  BY <1>1, <1>2, <1>3 DEF Wrap, Int16

(* A number of 16 bits is kept as it is.                                   *)
LEMMA WrapExact == ASSUME NEW x \in Int16 PROVE Wrap(x) = x
<1>1. PICK h \in Nat : h = Half /\ h > 0
  BY Constants
<1>2. PICK y \in 0 .. 2 * h - 1 : y = x + h
  BY <1>1 DEF Int16
<1>3. y % (2 * h) = y
  BY <1>1
<1> QED
  BY <1>1, <1>2, <1>3 DEF Wrap, Int16

LEMMA SatType == ASSUME NEW x \in Int PROVE Sat(x) \in Int16 /\ (x \in Int16 => Sat(x) = x)
BY Constants DEF Sat, Int16

LEMMA ShiftTapType == ASSUME NEW x \in Int PROVE ShiftTap(x) \in Int
BY Constants DEF ShiftTap

LEMMA ShiftZero == ShiftTap(0) = 0
BY Constants DEF ShiftTap

(* The charge that is summed up from a sample on.                          *)
LEMMA ChargeValues ==
  TraceType =>
    \A l \in Lanes, a \in 0 .. now :
      /\ ChargeFrom(l, a)[0] = 0
      /\ \A n \in 0 .. now - a : ChargeFrom(l, a)[n] \in Int16
      /\ \A n \in 0 .. now - a - 1 :
           ChargeFrom(l, a)[n + 1] = Sat(ChargeFrom(l, a)[n] + trace[a + n + 1][l].add)
<1> SUFFICES ASSUME TraceType, NEW l \in Lanes, NEW a \in 0 .. now
             PROVE  /\ ChargeFrom(l, a)[0] = 0
                    /\ \A n \in 0 .. now - a : ChargeFrom(l, a)[n] \in Int16
                    /\ \A n \in 0 .. now - a - 1 :
                         ChargeFrom(l, a)[n + 1] = Sat(ChargeFrom(l, a)[n] + trace[a + n + 1][l].add)
  OBVIOUS
<1>1. PICK N \in Nat : N = now - a
  BY DEF TraceType
<1>2. \A n \in 0 .. N - 1 : trace[a + n + 1][l].add \in Int
  <2> SUFFICES ASSUME NEW n \in 0 .. N - 1 PROVE trace[a + n + 1][l].add \in Int
    OBVIOUS
  <2>1. a + n + 1 \in 1 .. Len(trace)
    BY <1>1 DEF TraceType
  <2>2. trace[a + n + 1] \in [Lanes -> [over : BOOLEAN, add : Int]]
    BY <2>1 DEF TraceType
  <2> QED
    BY <2>2
<1> DEFINE step == [n \in Nat |-> [v \in Int16 |->
                      IF n < N THEN Sat(v + trace[a + n + 1][l].add) ELSE 0]]
           F(f) == [n \in 0 .. N |-> IF n = 0 THEN 0 ELSE Sat(f[n - 1] + trace[a + n][l].add)]
<1>3. 0 \in Int16 /\ Int16 \subseteq Int
  BY Constants DEF Int16
<1>4. step \in [Nat -> [Int16 -> Int16]]
  <2> SUFFICES ASSUME NEW n \in Nat, NEW v \in Int16
               PROVE  (IF n < N THEN Sat(v + trace[a + n + 1][l].add) ELSE 0) \in Int16
    OBVIOUS
  <2>1. CASE n < N
    <3>1. v + trace[a + n + 1][l].add \in Int
      BY <1>2, <1>3, <2>1
    <3> QED
      BY <2>1, <3>1, SatType
  <2>2. CASE ~(n < N)
    BY <1>3, <2>2
  <2> QED
    BY <2>1, <2>2
<1>5. \A n \in 0 .. N - 1, v \in Int16 : step[n][v] = Sat(v + trace[a + n + 1][l].add)
  OBVIOUS
<1> HIDE DEF step
<1>6. PICK h \in [0 .. N -> Int16] : Begins(h, N, 0, step)
  BY <1>3, <1>4, BeginsExists
<1>7. \A n \in 0 .. N - 1 : h[n + 1] = Sat(h[n] + trace[a + n + 1][l].add)
  BY <1>5, <1>6 DEF Begins
<1>8. h = F(h)
  <2>1. ASSUME NEW n \in 0 .. N
        PROVE  h[n] = IF n = 0 THEN 0 ELSE Sat(h[n - 1] + trace[a + n][l].add)
    <3>1. CASE n = 0
      BY <1>6, <3>1 DEF Begins
    <3>2. CASE n # 0
      <4>1. n - 1 \in 0 .. N - 1 /\ (n - 1) + 1 = n /\ a + (n - 1) + 1 = a + n
        BY <3>2 DEF TraceType
      <4> QED
        BY <1>7, <3>2, <4>1
    <3> QED
      BY <3>1, <3>2
  <2> QED
    BY <2>1
<1>9. ChargeFrom(l, a) = CHOOSE f : f = F(f)
  BY <1>1 DEF ChargeFrom
<1>10. PICK f : f = ChargeFrom(l, a) /\ f = F(f)
  BY <1>8, <1>9
<1>11. f[0] = 0 /\ \A n \in 0 .. N - 1 : f[n + 1] = Sat(f[n] + trace[a + n + 1][l].add)
  <2>1. f[0] = 0
    BY <1>10
  <2>2. ASSUME NEW n \in 0 .. N - 1 PROVE f[n + 1] = Sat(f[n] + trace[a + n + 1][l].add)
    <3>1. n + 1 \in 0 .. N /\ n + 1 # 0 /\ (n + 1) - 1 = n /\ a + (n + 1) = a + n + 1
      BY DEF TraceType
    <3> QED
      BY <1>10, <3>1
  <2> QED
    BY <2>1, <2>2
<1> DEFINE S == {n \in Nat : n <= N => f[n] \in Int16}
<1>12. 0 \in S
  BY <1>3, <1>11
<1>13. \A n \in Nat : n \in S => n + 1 \in S
  <2> SUFFICES ASSUME NEW n \in Nat, n \in S, n + 1 <= N PROVE f[n + 1] \in Int16
    OBVIOUS
  <2>1. n \in 0 .. N - 1 /\ f[n] \in Int16
    OBVIOUS
  <2>y. PICK y \in Int : y = trace[a + n + 1][l].add
    BY <1>2, <2>1
  <2>x. PICK x \in Int : x = f[n]
    BY <1>3, <2>1
  <2>2. f[n] + trace[a + n + 1][l].add \in Int
    BY <2>x, <2>y
  <2> QED
    BY <1>11, <2>1, <2>2, SatType
<1>14. \A n \in 0 .. N : f[n] \in Int16
  <2>1. Nat \subseteq S
    <3> HIDE DEF S
    <3> QED
      BY <1>12, <1>13, SetInduction
  <2> QED
    BY <2>1
<1> HIDE DEF F
<1> QED
  BY <1>1, <1>10, <1>11, <1>14

----------------------------------------------------------------------------
(* The finders leave a channel's part in the hits alone, and have whole    *)
(* numbers for its charge.                                                 *)
Kept(c, d) ==
  /\ d \in Chan
  /\ d.prev_was_over = c.prev_was_over
  /\ d.hit_charge = c.hit_charge /\ d.hit_tover = c.hit_tover

LEMMA FrugalType ==
  ASSUME NEW m \in Int, NEW s \in Int, NEW accum \in Int, NEW mask \in BOOLEAN
  PROVE  LET r == frugal_accum_update_avx2(m, s, accum, mask)
         IN  r[1] \in Int /\ r[2] \in Int
<1> DEFINE to_add == IF s > m THEN 1 ELSE IF s = m THEN 0 ELSE -1
<1>1. to_add \in Int
  OBVIOUS
<1>2. Int16 \subseteq Int
  BY Constants DEF Int16
<1>3. Wrap(accum + to_add) \in Int
  <2>1. accum + to_add \in Int
    BY <1>1
  <2> HIDE DEF to_add
  <2> QED
    BY <1>2, <2>1, WrapType
<1> DEFINE a == IF mask THEN Wrap(accum + to_add) ELSE accum
<1>4. a \in Int
  BY <1>3
<1> DEFINE step == IF a > AccLimit THEN 1 ELSE IF -a > AccLimit THEN -1 ELSE 0
<1>5. step \in Int
  OBVIOUS
<1>6. Sat(m + step) \in Int
  <2>1. m + step \in Int
    BY <1>5
  <2> HIDE DEF step
  <2> QED
    BY <1>2, <2>1, SatType
<1>7. frugal_accum_update_avx2(m, s, accum, mask)
        = IF mask /\ step # 0 THEN <<Sat(m + step), 0>> ELSE <<m, a>>
  BY DEF frugal_accum_update_avx2, Accumulated
<1> HIDE DEF step, a
<1> QED
  BY <1>4, <1>6, <1>7

LEMMA MedianKeeps ==
  ASSUME NEW c \in Chan, NEW s \in Int
  PROVE  Kept(c, Median(c, s))
<1>1. c.pedestal \in Int /\ c.accum \in Int
  BY DEF Chan
<1>2. PICK m : m = frugal_accum_update_avx2(c.pedestal, s, c.accum, TRUE)
  OBVIOUS
<1>3. m[1] \in Int /\ m[2] \in Int
  BY <1>1, <1>2, FrugalType
<1>4. Median(c, s) = [c EXCEPT !.pedestal = m[1], !.accum = m[2]]
  BY <1>2 DEF Median
<1> QED
  BY <1>3, <1>4 DEF Kept, Chan

LEMMA QuartilesKeep ==
  ASSUME NEW c \in Chan, NEW s \in Int
  PROVE  Kept(c, Quartiles(c, s))
<1>1. /\ c.quantile25 \in Int /\ c.accum25 \in Int /\ c.quantile75 \in Int /\ c.accum75 \in Int
      /\ (s < c.pedestal) \in BOOLEAN /\ (s > c.pedestal) \in BOOLEAN
  BY DEF Chan
<1>2. PICK lo : lo = frugal_accum_update_avx2(c.quantile25, s, c.accum25, s < c.pedestal)
  OBVIOUS
<1>3. PICK hi : hi = frugal_accum_update_avx2(c.quantile75, s, c.accum75, s > c.pedestal)
  OBVIOUS
<1>4. lo[1] \in Int /\ lo[2] \in Int
  BY <1>1, <1>2, FrugalType
<1>5. hi[1] \in Int /\ hi[2] \in Int
  BY <1>1, <1>3, FrugalType
<1>6. Quartiles(c, s) = [c EXCEPT !.quantile25 = lo[1], !.accum25 = lo[2],
                                  !.quantile75 = hi[1], !.accum75 = hi[2]]
  BY <1>2, <1>3 DEF Quartiles
<1> QED
  BY ZenonT(40), <1>4, <1>5, <1>6 DEF Kept, Chan

LEMMA RememberKeeps ==
  ASSUME NEW c \in Chan, NEW t \in Nat, NEW s \in Int
  PROVE  Kept(c, Remember(c, t, s))
<1>1. PICK p : p = c.prev_samp
  OBVIOUS
<1>2. [p EXCEPT ![t % Len(Taps)] = s] \in [0 .. Len(Taps) - 1 -> Int]
  BY <1>1 DEF Chan
<1>3. Remember(c, t, s) = [c EXCEPT !.prev_samp = [p EXCEPT ![t % Len(Taps)] = s]]
  BY <1>1 DEF Remember
<1> QED
  BY <1>2, <1>3 DEF Kept, Chan

(* The sums of the filter.                                                 *)
LEMMA FilterValues ==
  ASSUME NEW c \in Chan, NEW t \in Nat, NEW N \in 0 .. Len(Taps)
  PROVE  \E f : /\ Filter(c, t, N) = Wrap(f[N])
                /\ f[0] = 0 /\ \A n \in 0 .. N : f[n] \in Int
                /\ \A n \in 0 .. N - 1 :
                     /\ Taps[n + 1] * c.prev_samp[(n + t) % Len(Taps)] \in Int
                     /\ f[n + 1] = f[n] + Taps[n + 1] * c.prev_samp[(n + t) % Len(Taps)]
<1> DEFINE step == [n \in Nat |-> [v \in Int |->
                      IF n < N THEN v + Taps[n + 1] * c.prev_samp[(n + t) % Len(Taps)] ELSE 0]]
           F(f) == [x \in 0 .. N |->
                      IF x = 0 THEN 0 ELSE f[x - 1] + Taps[x] * c.prev_samp[((x - 1) + t) % Len(Taps)]]
<1>1. ASSUME NEW n \in 0 .. N - 1
      PROVE  Taps[n + 1] * c.prev_samp[(n + t) % Len(Taps)] \in Int
  <2>1. n + 1 \in 1 .. Len(Taps) /\ n + t \in Nat /\ Len(Taps) \in Nat /\ Len(Taps) > 0
    BY Constants
  <2>x. PICK x \in Int : x = Taps[n + 1]
    BY <2>1, Constants
  <2>l. PICK L \in Nat : L = Len(Taps) /\ L > 0
    BY <2>1
  <2>i. PICK i \in Nat : i = n + t
    BY <2>1
  <2>2. i % L \in 0 .. L - 1
    BY <2>l
  <2>3. c.prev_samp \in [0 .. L - 1 -> Int]
    BY <2>l DEF Chan
  <2>y. PICK y \in Int : y = c.prev_samp[(n + t) % Len(Taps)]
    BY <2>2, <2>3, <2>l, <2>i
  <2>4. x * y \in Int
    OBVIOUS
  <2> QED
    BY <2>4, <2>x, <2>y
<1>2. step \in [Nat -> [Int -> Int]]
  <2> SUFFICES ASSUME NEW n \in Nat, NEW v \in Int, n < N
               PROVE  v + Taps[n + 1] * c.prev_samp[(n + t) % Len(Taps)] \in Int
    OBVIOUS
  <2>y. PICK y \in Int : y = Taps[n + 1] * c.prev_samp[(n + t) % Len(Taps)]
    BY <1>1
  <2> QED
    BY <2>y
<1>3. \A n \in 0 .. N - 1, v \in Int :
        step[n][v] = v + Taps[n + 1] * c.prev_samp[(n + t) % Len(Taps)]
  OBVIOUS
<1> HIDE DEF step
<1>4. N \in Nat
  BY Constants
<1>5. PICK h \in [0 .. N -> Int] : Begins(h, N, 0, step)
  <2>1. 0 \in Int
    OBVIOUS
  <2>2. \A n \in Nat : \E h \in [0 .. n -> Int] : Begins(h, n, 0, step)
    BY <1>2, <2>1, BeginsExists
  <2> QED
    BY <1>4, <2>2
<1>6. \A n \in 0 .. N - 1 : h[n + 1] = h[n] + Taps[n + 1] * c.prev_samp[(n + t) % Len(Taps)]
  <2> SUFFICES ASSUME NEW n \in 0 .. N - 1
               PROVE  h[n + 1] = h[n] + Taps[n + 1] * c.prev_samp[(n + t) % Len(Taps)]
    OBVIOUS
  <2>1. h[n + 1] = step[n][h[n]]
    BY <1>5 DEF Begins
  <2>2. h[n] \in Int
    BY <1>4, <1>5
  <2> QED
    BY <1>3, <2>1, <2>2
<1>7. h = F(h)
  <2>1. ASSUME NEW x \in 0 .. N
        PROVE  h[x] = IF x = 0 THEN 0 ELSE h[x - 1] + Taps[x] * c.prev_samp[((x - 1) + t) % Len(Taps)]
    <3>1. CASE x = 0
      BY <1>5, <3>1 DEF Begins
    <3>2. CASE x # 0
      <4>1. x - 1 \in 0 .. N - 1 /\ (x - 1) + 1 = x
        BY <1>4, <3>2
      <4> QED
        BY <1>6, <3>2, <4>1
    <3> QED
      BY <3>1, <3>2
  <2> QED
    BY <2>1
<1>8. Filter(c, t, N) = Wrap((CHOOSE f : f = F(f))[N])
  BY DEF Filter
<1>9. PICK f : f = (CHOOSE g : g = F(g)) /\ f = F(f)
  BY <1>7
<1>10. f[0] = 0
  <2>1. 0 \in 0 .. N
    BY <1>4
  <2>2. F(f)[0] = 0
    BY <2>1
  <2> HIDE DEF F
  <2> QED
    BY <1>9, <2>2
<1>11. \A n \in 0 .. N - 1 : f[n + 1] = f[n] + Taps[n + 1] * c.prev_samp[(n + t) % Len(Taps)]
  <2> SUFFICES ASSUME NEW n \in 0 .. N - 1
               PROVE  f[n + 1] = f[n] + Taps[n + 1] * c.prev_samp[(n + t) % Len(Taps)]
    OBVIOUS
  <2>1. n + 1 \in 0 .. N /\ n + 1 # 0 /\ (n + 1) - 1 = n
    BY <1>4
  <2> QED
    BY <1>9, <2>1
<1> DEFINE S == {n \in Nat : n <= N => f[n] \in Int}
<1>12. 0 \in S
  BY <1>10
<1>13. \A n \in Nat : n \in S => n + 1 \in S
  <2> SUFFICES ASSUME NEW n \in Nat, n \in S, n + 1 <= N PROVE f[n + 1] \in Int
    OBVIOUS
  <2>1. n \in 0 .. N - 1 /\ f[n] \in Int
    BY <1>4
  <2>y. PICK y \in Int : y = Taps[n + 1] * c.prev_samp[(n + t) % Len(Taps)]
    BY <1>1, <2>1
  <2>2. f[n + 1] = f[n] + y
    BY <1>11, <2>1, <2>y
  <2> QED
    BY <2>1, <2>2
<1>14. \A n \in 0 .. N : f[n] \in Int
  <2>1. Nat \subseteq S
    <3> HIDE DEF S
    <3> QED
      BY <1>12, <1>13, SetInduction
  <2> QED
    BY <1>4, <2>1
<1> HIDE DEF F
<1> QED
  BY <1>1, <1>8, <1>9, <1>10, <1>11, <1>14

LEMMA FilterType ==
  ASSUME NEW c \in Chan, NEW t \in Nat, NEW N \in 0 .. Len(Taps)
  PROVE  Filter(c, t, N) \in Int16
<1>1. PICK f : Filter(c, t, N) = Wrap(f[N]) /\ \A n \in 0 .. N : f[n] \in Int
  BY FilterValues
<1>2. N \in 0 .. N
  BY Constants
<1> QED
  BY <1>1, <1>2, WrapType

(* The tap that the vector code leaves out is the 0 that start adds.       *)
LEMMA FilterLast ==
  ASSUME NEW c \in Chan, NEW t \in Nat
  PROVE  Filter(c, t, Len(Taps)) = Filter(c, t, Len(Taps) - 1)
<1>L. PICK L \in Nat : L = Len(Taps) - 1 /\ L + 1 = Len(Taps)
  BY Constants
<1>1. L \in 0 .. Len(Taps) /\ L + 1 \in 0 .. Len(Taps)
  BY <1>L
<1>f. PICK f : /\ Filter(c, t, L + 1) = Wrap(f[L + 1])
               /\ f[0] = 0 /\ \A n \in 0 .. L + 1 : f[n] \in Int
               /\ \A n \in 0 .. (L + 1) - 1 :
                    /\ Taps[n + 1] * c.prev_samp[(n + t) % Len(Taps)] \in Int
                    /\ f[n + 1] = f[n] + Taps[n + 1] * c.prev_samp[(n + t) % Len(Taps)]
  BY <1>1, FilterValues
<1>g. PICK g : /\ Filter(c, t, L) = Wrap(g[L])
               /\ g[0] = 0 /\ \A n \in 0 .. L : g[n] \in Int
               /\ \A n \in 0 .. L - 1 :
                    /\ Taps[n + 1] * c.prev_samp[(n + t) % Len(Taps)] \in Int
                    /\ g[n + 1] = g[n] + Taps[n + 1] * c.prev_samp[(n + t) % Len(Taps)]
  BY <1>1, FilterValues
<1> DEFINE S == {n \in Nat : n <= L => f[n] = g[n]}
<1>2. 0 \in S
  BY <1>f, <1>g
<1>3. \A n \in Nat : n \in S => n + 1 \in S
  <2> SUFFICES ASSUME NEW n \in Nat, n \in S, n + 1 <= L PROVE f[n + 1] = g[n + 1]
    OBVIOUS
  <2>1. n \in 0 .. L - 1 /\ n \in 0 .. (L + 1) - 1 /\ f[n] = g[n]
    OBVIOUS
  <2>2. f[n + 1] = f[n] + Taps[n + 1] * c.prev_samp[(n + t) % Len(Taps)]
    BY <1>f, <2>1
  <2>3. g[n + 1] = g[n] + Taps[n + 1] * c.prev_samp[(n + t) % Len(Taps)]
    BY <1>g, <2>1
  <2> QED
    BY <2>1, <2>2, <2>3
<1>4. f[L] = g[L]
  <2>1. Nat \subseteq S
    <3> HIDE DEF S
    <3> QED
      BY <1>2, <1>3, SetInduction
  <2> QED
    BY <2>1
<1>5. f[L + 1] = f[L]
  <2>1. L \in 0 .. (L + 1) - 1 /\ L \in 0 .. L + 1
    OBVIOUS
  <2>x. PICK x \in Int : x = f[L]
    BY <1>f, <2>1
  <2>y. PICK y \in Int : y = c.prev_samp[(L + t) % Len(Taps)]
    <3>m. PICK m \in Nat : m = Len(Taps) /\ m > 0
      BY Constants
    <3>i. PICK i \in Nat : i = L + t
      OBVIOUS
    <3>1. i % m \in 0 .. m - 1
      BY <3>m
    <3>2. c.prev_samp \in [0 .. m - 1 -> Int]
      BY <3>m DEF Chan
    <3> QED
      BY <3>1, <3>2, <3>i, <3>m
  <2>2. Taps[L + 1] = 0
    BY <1>L, Constants
  <2>3. f[L + 1] = x + 0 * y
    BY <1>f, <2>1, <2>2, <2>x, <2>y
  <2> QED
    BY <2>3, <2>x
<1> QED
  BY <1>4, <1>5, <1>f, <1>g, <1>L

LEMMA KeptAgain ==
  ASSUME NEW c, NEW d, NEW e, Kept(c, d), Kept(d, e)
  PROVE  Kept(c, e)
BY DEF Kept

(* Samples, and what is compared with them, stay whole numbers.            *)
LEMMA Subtracted ==
  ASSUME NEW s \in Int, NEW p \in Int
  PROVE  /\ Wrap(s - p) \in Int16 /\ Wrap(s - p) \in Int
         /\ Lower(Wrap(s - p), adcMax) \in Int
<1>1. PICK x \in Int : x = s - p
  OBVIOUS
<1>2. Int16 \subseteq Int
  BY Constants DEF Int16
<1>3. PICK y \in Int : y = Wrap(s - p) /\ y \in Int16
  BY <1>1, <1>2, WrapType
<1>4. adcMax \in Int
  BY Constants DEF adcMax
<1> QED
  BY <1>3, <1>4 DEF Lower

(* What the hit finding needs of a finder.                                 *)
Follows(st, f) ==
  /\ \A l \in Lanes : Kept(st[l], f.state[l])
  /\ \A l \in Lanes : f.charge[l] \in Int

LEMMA FIRFollows ==
  ASSUME NEW st \in [Lanes -> Chan], NEW s \in [Lanes -> Int], now \in Nat
  PROVE  Follows(st, FIR(st, s))
<1>1. PICK ped : ped = [l \in Lanes |-> Median(Quartiles(st[l], s[l]), s[l])]
  OBVIOUS
<1>2. PICK f : f = FIR(st, s)
  OBVIOUS
<1>3. /\ f.state = [l \in Lanes |-> Remember(ped[l], now, Lower(Wrap(s[l] - ped[l].pedestal), adcMax))]
      /\ f.charge = [l \in Lanes |-> Filter(ped[l], now, Len(Taps) - 1)]
  BY <1>1, <1>2 DEF FIR
<1>4. ASSUME NEW l \in Lanes PROVE Kept(st[l], f.state[l]) /\ f.charge[l] \in Int
  <2>0. st[l] \in Chan /\ s[l] \in Int
    OBVIOUS
  <2>1. Kept(st[l], Quartiles(st[l], s[l]))
    BY <2>0, QuartilesKeep
  <2>q. PICK q \in Chan : q = Quartiles(st[l], s[l])
    BY <2>1 DEF Kept
  <2>2. Kept(q, Median(q, s[l]))
    BY <2>0, MedianKeeps
  <2>3. ped[l] = Median(q, s[l])
    BY <1>1, <2>q
  <2>p. PICK p \in Chan : p = ped[l]
    BY <2>2, <2>3 DEF Kept
  <2>4. Kept(st[l], p)
    BY <2>1, <2>2, <2>3, <2>p, <2>q, KeptAgain
  <2>5. p.pedestal \in Int
    BY DEF Chan
  <2>6. Lower(Wrap(s[l] - p.pedestal), adcMax) \in Int
    BY <2>0, <2>5, Subtracted
  <2>7. Kept(p, Remember(p, now, Lower(Wrap(s[l] - p.pedestal), adcMax)))
    BY <2>6, RememberKeeps
  <2>8. f.state[l] = Remember(p, now, Lower(Wrap(s[l] - p.pedestal), adcMax))
    BY <1>3, <2>p
  <2>9. Kept(st[l], f.state[l])
    BY <2>4, <2>7, <2>8, KeptAgain
  <2>10. Len(Taps) - 1 \in 0 .. Len(Taps) /\ Int16 \subseteq Int
    BY Constants DEF Int16
  <2>11. Filter(p, now, Len(Taps) - 1) \in Int
    BY <2>10, FilterType
  <2>12. f.charge[l] = Filter(p, now, Len(Taps) - 1)
    BY <1>3, <2>p
  <2> QED
    BY <2>9, <2>11, <2>12
<1> QED
  BY <1>2, <1>4 DEF Follows

LEMMA SWTPGFollows ==
  ASSUME NEW st \in [Lanes -> Chan], NEW s \in [Lanes -> Int]
  PROVE  Follows(st, SWTPG(st, s))
<1>1. PICK ped : ped = [l \in Lanes |-> Median(st[l], s[l])]
  OBVIOUS
<1>2. PICK f : f = SWTPG(st, s)
  OBVIOUS
<1>3. /\ f.state = ped
      /\ f.charge = [l \in Lanes |-> Lower(Wrap(s[l] - ped[l].pedestal), adcMax)]
  BY <1>1, <1>2 DEF SWTPG
<1>4. ASSUME NEW l \in Lanes PROVE Kept(st[l], f.state[l]) /\ f.charge[l] \in Int
  <2>1. st[l] \in Chan /\ s[l] \in Int
    OBVIOUS
  <2>2. Kept(st[l], ped[l])
    BY <1>1, <2>1, MedianKeeps
  <2>3. ped[l].pedestal \in Int
    BY <2>2 DEF Kept, Chan
  <2>4. Lower(Wrap(s[l] - ped[l].pedestal), adcMax) \in Int
    BY <2>1, <2>3, Subtracted
  <2> QED
    BY <1>3, <2>2, <2>4
<1> QED
  BY <1>2, <1>4 DEF Follows

LEMMA AbsRSFollows ==
  ASSUME NEW st \in [Lanes -> Chan], NEW s \in [Lanes -> Int]
  PROVE  Follows(st, AbsRS(st, s))
<1>1. PICK ped : ped = [l \in Lanes |-> Median(Quartiles(st[l], s[l]), s[l])]
  OBVIOUS
<1>2. PICK sum : sum = [l \in Lanes |-> DivEpi16(Wrap(Wrap(8 * st[l].RS)
                                 + Wrap(5 * Abs(Wrap(s[l] - ped[l].pedestal)))), 10)]
  OBVIOUS
<1>3. PICK base : base = [l \in Lanes |-> frugal_accum_update_avx2(st[l].pedestalRS, sum[l], st[l].accumRS, TRUE)]
  OBVIOUS
<1>4. PICK RS : RS = [l \in Lanes |-> Wrap(sum[l] - base[l][1])]
  OBVIOUS
<1>5. PICK f : f = AbsRS(st, s)
  OBVIOUS
<1>6. /\ f.state = [l \in Lanes |-> [ped[l] EXCEPT !.RS = RS[l], !.pedestalRS = base[l][1], !.accumRS = base[l][2]]]
      /\ f.charge = [l \in Lanes |-> Sat(RS[l] + base[l][1])]
  BY ZenonT(40), <1>1, <1>2, <1>3, <1>4, <1>5 DEF AbsRS
<1>7. Int16 \subseteq Int
  BY Constants DEF Int16
<1>8. ASSUME NEW l \in Lanes PROVE Kept(st[l], f.state[l]) /\ f.charge[l] \in Int
  <2>0. /\ st[l] \in Chan /\ s[l] \in Int
        /\ st[l].RS \in Int /\ st[l].pedestalRS \in Int /\ st[l].accumRS \in Int
    BY DEF Chan
  <2>1. Kept(st[l], Quartiles(st[l], s[l]))
    BY <2>0, QuartilesKeep
  <2>q. PICK q \in Chan : q = Quartiles(st[l], s[l])
    BY <2>1 DEF Kept
  <2>2. Kept(q, Median(q, s[l]))
    BY <2>0, MedianKeeps
  <2>3. ped[l] = Median(q, s[l])
    BY <1>1, <2>q
  <2>p. PICK p \in Chan : p = ped[l]
    BY <2>2, <2>3 DEF Kept
  <2>4. Kept(st[l], p)
    BY <2>1, <2>2, <2>3, <2>p, <2>q, KeptAgain
  <2>5. p.pedestal \in Int
    BY DEF Chan
  <2>6. sum[l] \in Int
    <3>d. PICK d \in Int : d = Wrap(s[l] - p.pedestal)
      BY <2>0, <2>5, Subtracted
    <3>1. 8 * st[l].RS \in Int /\ 5 * Abs(d) \in Int
      BY <2>0 DEF Abs
    <3>x. PICK x \in Int : x = Wrap(8 * st[l].RS)
      BY <1>7, <3>1, WrapType
    <3>y. PICK y \in Int : y = Wrap(5 * Abs(d))
      BY <1>7, <3>1, WrapType
    <3>s. x + y \in Int
      OBVIOUS
    <3>z. PICK z \in Int : z = Wrap(x + y)
      BY <1>7, <3>s, WrapType
    <3>2. sum[l] = DivEpi16(z, 10)
      BY <1>2, <2>p, <3>d, <3>x, <3>y, <3>z
    <3>3. Half \div 10 \in Int /\ Half \div 2 \in Int
      BY Constants
    <3>k. PICK k \in Int : k = Half \div 10
      BY <3>3
    <3>m. PICK m \in Int : m = Half \div 2
      BY <3>3
    <3>4. DivEpi16(z, 10) = (z * k + m) \div Half
      BY <3>k, <3>m DEF DivEpi16
    <3>5. z * k \in Int
      OBVIOUS
    <3>w. PICK w \in Int : w = z * k + m
      BY <3>5
    <3> QED
      BY <3>2, <3>4, <3>w, Constants
  <2>b. PICK b : b = frugal_accum_update_avx2(st[l].pedestalRS, sum[l], st[l].accumRS, TRUE)
    OBVIOUS
  <2>7. base[l] = b /\ b[1] \in Int /\ b[2] \in Int
    <3>1. b[1] \in Int /\ b[2] \in Int
      BY <2>0, <2>6, <2>b, FrugalType
    <3> QED
      BY <1>3, <2>b, <3>1
  <2>8. RS[l] \in Int
    <3>1. sum[l] - base[l][1] \in Int
      BY <2>6, <2>7
    <3> QED
      BY <1>4, <1>7, <3>1, WrapType
  <2>9. f.state[l] = [p EXCEPT !.RS = RS[l], !.pedestalRS = b[1], !.accumRS = b[2]]
    BY <1>6, <2>7, <2>p
  <2>10. Kept(p, f.state[l])
    BY ZenonT(40), <2>7, <2>8, <2>9 DEF Kept, Chan
  <2>11. Kept(st[l], f.state[l])
    BY <2>4, <2>10, KeptAgain
  <2>12. RS[l] + b[1] \in Int
    BY <2>7, <2>8
  <2>13. Sat(RS[l] + b[1]) \in Int
    BY <1>7, <2>12, SatType
  <2>14. f.charge[l] = Sat(RS[l] + b[1])
    BY <1>6, <2>7
  <2> QED
    BY <2>11, <2>13, <2>14
<1> QED
  BY <1>5, <1>8 DEF Follows

LEMMA FinderFollows ==
  ASSUME NEW st \in [Lanes -> Chan], NEW s \in [Lanes -> Int], now \in Nat
  PROVE  Follows(st, Finder(st, s))
<1>1. CASE alg = "FIR"
  BY <1>1, FIRFollows DEF Finder
<1>2. CASE alg = "SWTPG"
  BY <1>2, SWTPGFollows DEF Finder
<1>3. CASE alg # "FIR" /\ alg # "SWTPG"
  BY <1>3, AbsRSFollows DEF Finder
<1> QED
  BY <1>1, <1>2, <1>3

----------------------------------------------------------------------------
(* A sample as the hit finding sees it: which lanes are over, and with     *)
(* what charge.                                                            *)
Registers == [timenow : 0 .. WindowFrames - 1, hit_charge : [Lanes -> 0 .. 2 * Half - 1],
              hit_tover : [Lanes -> 0 .. Half - 1]]

HitType ==
  /\ TraceType
  /\ chan \in [Lanes -> Chan]
  /\ output \in Seq(Registers)

LeftNow(over)       == [l \in Lanes |-> chan[l].prev_was_over /\ ~over[l]]
NewTover(over)      == [l \in Lanes |-> Sat(chan[l].hit_tover + (IF over[l] THEN 1 ELSE 0))]
NewCharge(over, add) == [l \in Lanes |-> Sat(chan[l].hit_charge + (IF over[l] THEN add[l] ELSE 0))]

NewRegister(over, add) ==
  [timenow    |-> now % WindowFrames,
   hit_charge |-> [l \in Lanes |-> IF LeftNow(over)[l] THEN NewCharge(over, add)[l] % (2 * Half) ELSE 0],
   hit_tover  |-> NewTover(over)]

NewOutput(over, add) ==
  IF \E l \in Lanes : LeftNow(over)[l] THEN Append(output, NewRegister(over, add)) ELSE output

Seen(over, add) ==
  /\ now' = now + 1
  /\ trace' = Append(trace, [l \in Lanes |-> [over |-> over[l], add |-> add[l]]])
  /\ chan' \in [Lanes -> Chan]
  /\ \A l \in Lanes :
       /\ chan'[l].prev_was_over = over[l]
       /\ chan'[l].hit_tover = IF LeftNow(over)[l] THEN 0 ELSE NewTover(over)[l]
       /\ chan'[l].hit_charge = IF LeftNow(over)[l] THEN 0 ELSE NewCharge(over, add)[l]
  /\ IF now % WindowFrames = WindowFrames - 1
     THEN /\ output' = <<>>
          /\ tps' = Joined(tps, process_swtpg_hits(NewOutput(over, add), now - (now % WindowFrames)))
     ELSE output' = NewOutput(over, add) /\ tps' = tps

LEMMA ChargedIs ==
  ASSUME NEW c \in Chan, NEW d, Kept(c, d), NEW over \in BOOLEAN, NEW charge \in Int
  PROVE  LET e == Charged(d, over, charge)
         IN  /\ e \in Chan
             /\ e.hit_charge = Sat(c.hit_charge + (IF over THEN ShiftTap(charge) ELSE 0))
             /\ e.hit_tover = Sat(c.hit_tover + (IF over THEN 1 ELSE 0))
<1>1. d \in Chan /\ d.hit_charge = c.hit_charge /\ d.hit_tover = c.hit_tover
  BY DEF Kept
<1>2. c.hit_charge \in Int16 /\ c.hit_tover \in 0 .. Half - 1 /\ Int16 \subseteq Int
  BY Constants DEF Chan, Int16
<1>a. PICK a \in Int : a = IF over THEN ShiftTap(charge) ELSE 0
  BY ShiftTapType
<1>3. ShiftTap(IF over THEN charge ELSE 0) = a
  BY <1>a, ShiftZero
<1>v. PICK v \in Int : v = c.hit_charge
  BY <1>2
<1>x. PICK x \in Int : x = c.hit_charge + a
  BY <1>v
<1>4. Sat(x) \in Int16
  BY SatType
<1>y. PICK y \in Int : y = c.hit_tover + (IF over THEN 1 ELSE 0) /\ y >= 0
  BY <1>2
<1>5. Sat(y) \in 0 .. Half - 1
  <2>h. PICK h \in Nat : h = Half /\ h > 0
    BY Constants
  <2> QED
    BY <1>y, <2>h DEF Sat
<1>6. Charged(d, over, charge) = [d EXCEPT !.hit_charge = Sat(x), !.hit_tover = Sat(y)]
  BY <1>1, <1>3, <1>x, <1>y DEF Charged
<1> QED
  BY <1>1, <1>4, <1>5, <1>6, <1>a, <1>x, <1>y DEF Chan

OverOf(f) == [l \in Lanes |-> f.signal[l] > f.limit[l]]
AddOf(f)  == [l \in Lanes |-> ShiftTap(f.charge[l])]

LEMMA SampleSeen ==
  ASSUME HitType, NEW adcs \in [Lanes -> Int], Sample(adcs), NEW f, f = Finder(chan, adcs)
  PROVE  /\ Follows(chan, f)
         /\ OverOf(f) \in [Lanes -> BOOLEAN] /\ AddOf(f) \in [Lanes -> Int]
         /\ Seen(OverOf(f), AddOf(f))
<1>1. Follows(chan, f)
  BY FinderFollows DEF HitType, TraceType
<1>o. PICK over : over = OverOf(f) /\ over = [l \in Lanes |-> f.signal[l] > f.limit[l]]
  BY DEF OverOf
<1>2. over \in [Lanes -> BOOLEAN]
  BY <1>o
<1>a. PICK add : add = AddOf(f) /\ add = [l \in Lanes |-> ShiftTap(f.charge[l])]
  BY DEF AddOf
<1>3. add \in [Lanes -> Int]
  BY <1>1, <1>a, ShiftTapType DEF Follows
<1>s. PICK st : st = [l \in Lanes |-> Charged(f.state[l], over[l], f.charge[l])]
  OBVIOUS
<1>4. ASSUME NEW l \in Lanes
      PROVE  /\ st[l] \in Chan
             /\ st[l].hit_charge = NewCharge(over, add)[l]
             /\ st[l].hit_tover = NewTover(over)[l]
  <2>1. /\ chan[l] \in Chan /\ Kept(chan[l], f.state[l]) /\ f.charge[l] \in Int
        /\ over[l] \in BOOLEAN /\ add[l] = ShiftTap(f.charge[l])
        /\ st[l] = Charged(f.state[l], over[l], f.charge[l])
    BY <1>1, <1>2, <1>a, <1>s DEF Follows, HitType
  <2>2. /\ st[l] \in Chan
        /\ st[l].hit_charge = Sat(chan[l].hit_charge + (IF over[l] THEN add[l] ELSE 0))
        /\ st[l].hit_tover = Sat(chan[l].hit_tover + (IF over[l] THEN 1 ELSE 0))
    BY <2>1, ChargedIs
  <2> QED
    BY <2>2 DEF NewCharge, NewTover
<1> DEFINE left == [l \in Lanes |-> chan[l].prev_was_over /\ ~over[l]]
           out  == IF \E l \in Lanes : left[l] THEN Append(output, Register(st, left)) ELSE output
<1>5. left = LeftNow(over)
  BY DEF LeftNow
<1>6. Register(st, left) = NewRegister(over, add)
  <2>1. \A l \in Lanes : /\ (IF left[l] THEN st[l].hit_charge % (2 * Half) ELSE 0)
                              = (IF LeftNow(over)[l] THEN NewCharge(over, add)[l] % (2 * Half) ELSE 0)
                         /\ st[l].hit_tover = NewTover(over)[l]
    BY <1>4, <1>5
  <2>2. [l \in Lanes |-> st[l].hit_tover] = NewTover(over)
    BY <2>1 DEF NewTover
  <2> HIDE DEF left
  <2> QED
    BY <2>1, <2>2 DEF Register, NewRegister
<1>7. out = NewOutput(over, add)
  BY <1>5, <1>6 DEF NewOutput
<1>8. /\ now' = now + 1
      /\ chan' = [l \in Lanes |->
                   IF left[l] THEN [st[l] EXCEPT !.prev_was_over = over[l], !.hit_charge = 0, !.hit_tover = 0]
                   ELSE [st[l] EXCEPT !.prev_was_over = over[l]]]
      /\ output' = IF now % WindowFrames = WindowFrames - 1 THEN <<>> ELSE out
      /\ tps' = IF now % WindowFrames = WindowFrames - 1
                THEN Joined(tps, process_swtpg_hits(out, now - (now % WindowFrames))) ELSE tps
      /\ trace' = Append(trace, [l \in Lanes |-> [over |-> over[l], add |-> ShiftTap(f.charge[l])]])
  BY <1>o, <1>s DEF Sample
<1> HIDE DEF left, out
<1>9. [l \in Lanes |-> [over |-> over[l], add |-> ShiftTap(f.charge[l])]]
        = [l \in Lanes |-> [over |-> over[l], add |-> add[l]]]
  BY <1>a
<1>10. ASSUME NEW l \in Lanes
       PROVE  /\ chan'[l] \in Chan
              /\ chan'[l].prev_was_over = over[l]
              /\ chan'[l].hit_tover = IF LeftNow(over)[l] THEN 0 ELSE NewTover(over)[l]
              /\ chan'[l].hit_charge = IF LeftNow(over)[l] THEN 0 ELSE NewCharge(over, add)[l]
  <2>c. PICK c \in Chan : /\ c = st[l] /\ c.hit_charge = NewCharge(over, add)[l]
                          /\ c.hit_tover = NewTover(over)[l]
    BY <1>4
  <2>1. over[l] \in BOOLEAN /\ 0 \in Int16 /\ 0 \in 0 .. Half - 1
    BY <1>2, Constants DEF Int16
  <2>2. chan'[l] = IF left[l] THEN [c EXCEPT !.prev_was_over = over[l], !.hit_charge = 0, !.hit_tover = 0]
                   ELSE [c EXCEPT !.prev_was_over = over[l]]
    BY <1>8, <2>c
  <2> QED
    BY ZenonT(40), <1>5, <2>1, <2>2, <2>c DEF Chan
<1>11. chan' \in [Lanes -> Chan]
  BY <1>8, <1>10
<1> QED
  BY ZenonT(40), <1>1, <1>2, <1>3, <1>7, <1>8, <1>9, <1>10, <1>11, <1>a, <1>o DEF Seen

LEMMA NewTypes ==
  ASSUME HitType, NEW over \in [Lanes -> BOOLEAN], NEW add \in [Lanes -> Int]
  PROVE  /\ NewTover(over) \in [Lanes -> 0 .. Half - 1]
         /\ NewCharge(over, add) \in [Lanes -> Int16]
         /\ NewRegister(over, add) \in Registers
<1>h. PICK h \in Nat : h = Half /\ h > 0
  BY Constants
<1>1. ASSUME NEW l \in Lanes
      PROVE  /\ Sat(chan[l].hit_tover + (IF over[l] THEN 1 ELSE 0)) \in 0 .. Half - 1
             /\ Sat(chan[l].hit_charge + (IF over[l] THEN add[l] ELSE 0)) \in Int16
  <2>1. chan[l] \in Chan
    BY DEF HitType
  <2>t. PICK t \in 0 .. h - 1 : t = chan[l].hit_tover
    BY <1>h, <2>1 DEF Chan
  <2>c. PICK c \in Int : c = chan[l].hit_charge
    BY <2>1, Constants DEF Chan, Int16
  <2>y. PICK y \in Nat : y = t + (IF over[l] THEN 1 ELSE 0)
    BY <1>h
  <2>2. Sat(y) \in 0 .. h - 1
    BY <1>h DEF Sat
  <2>a. PICK a \in Int : a = IF over[l] THEN add[l] ELSE 0
    OBVIOUS
  <2>x. PICK x \in Int : x = c + a
    OBVIOUS
  <2>3. Sat(x) \in Int16
    BY SatType
  <2> QED
    BY <1>h, <2>2, <2>3, <2>a, <2>c, <2>t, <2>x, <2>y
<1>2. /\ NewTover(over) \in [Lanes -> 0 .. Half - 1]
      /\ NewCharge(over, add) \in [Lanes -> Int16]
  BY <1>1 DEF NewTover, NewCharge
<1>3. now % WindowFrames \in 0 .. WindowFrames - 1
  <2>w. PICK w \in Nat : w = WindowFrames /\ w > 0
    BY Constants
  <2>n. PICK n \in Nat : n = now
    BY DEF HitType, TraceType
  <2>1. n % w \in 0 .. w - 1
    BY <2>w
  <2> QED
    BY <2>1, <2>n, <2>w
<1>4. ASSUME NEW l \in Lanes
      PROVE  (IF LeftNow(over)[l] THEN NewCharge(over, add)[l] % (2 * Half) ELSE 0) \in 0 .. 2 * Half - 1
  <2>x. PICK x \in Int : x = NewCharge(over, add)[l]
    BY <1>2, Constants DEF Int16
  <2>1. x % (2 * h) \in 0 .. 2 * h - 1 /\ 0 \in 0 .. 2 * h - 1
    BY <1>h
  <2> QED
    BY <1>h, <2>1, <2>x
<1>5. NewRegister(over, add) \in Registers
  BY <1>2, <1>3, <1>4 DEF NewRegister, Registers
<1> QED
  BY <1>2, <1>5

LEMMA SeenType ==
  ASSUME HitType, NEW over \in [Lanes -> BOOLEAN], NEW add \in [Lanes -> Int], Seen(over, add)
  PROVE  HitType'
<1>e. PICK e : e = [l \in Lanes |-> [over |-> over[l], add |-> add[l]]]
  OBVIOUS
<1>1. e \in [Lanes -> [over : BOOLEAN, add : Int]] /\ trace' = Append(trace, e)
  BY <1>e DEF Seen
<1>2. TraceType'
  <2>1. /\ now \in Nat /\ Len(trace) = now /\ now' = now + 1
        /\ trace \in Seq([Lanes -> [over : BOOLEAN, add : Int]])
    BY DEF HitType, TraceType, Seen
  <2>2. Len(trace') = Len(trace) + 1
    BY <1>1, <2>1
  <2>3. trace' \in Seq([Lanes -> [over : BOOLEAN, add : Int]])
    BY <1>1, <2>1
  <2> QED
    BY <2>1, <2>2, <2>3 DEF TraceType
<1>3. chan' \in [Lanes -> Chan]
  BY DEF Seen
<1>4. NewOutput(over, add) \in Seq(Registers)
  <2>1. NewRegister(over, add) \in Registers
    BY NewTypes
  <2>2. output \in Seq(Registers)
    BY DEF HitType
  <2> QED
    BY <2>1, <2>2 DEF NewOutput
<1>5. output' \in Seq(Registers)
  <2>1. output' = <<>> \/ output' = NewOutput(over, add)
    BY DEF Seen
  <2>2. <<>> \in Seq(Registers)
    OBVIOUS
  <2> QED
    BY <1>4, <2>1, <2>2
<1> QED
  BY <1>2, <1>3, <1>5 DEF HitType

(* What the trace of the samples says of earlier ones does not change.     *)
LEMMA TraceStep ==
  ASSUME HitType, NEW over \in [Lanes -> BOOLEAN], NEW add \in [Lanes -> Int], Seen(over, add)
  PROVE  /\ \A l \in Lanes, t \in 0 .. now - 1 :
              Over(l, t)' = Over(l, t) /\ trace'[t + 1][l].add = trace[t + 1][l].add
         /\ \A l \in Lanes, t \in Nat :
              t = now => Over(l, t)' = over[l] /\ trace'[t + 1][l].add = add[l]
         /\ \A l \in Lanes, t \in 0 .. now - 1 : Over(l, t) \in BOOLEAN
<1>e. PICK e : e = [l \in Lanes |-> [over |-> over[l], add |-> add[l]]]
  OBVIOUS
<1>1. /\ trace' = Append(trace, e) /\ now \in Nat /\ Len(trace) = now
      /\ trace \in Seq([Lanes -> [over : BOOLEAN, add : Int]])
  BY <1>e DEF Seen, HitType, TraceType
<1>2. trace'[now + 1] = e
  BY <1>1
<1>3. ASSUME NEW t \in 0 .. now - 1
      PROVE  trace'[t + 1] = trace[t + 1] /\ trace[t + 1] \in [Lanes -> [over : BOOLEAN, add : Int]]
  <2>1. t + 1 \in 1 .. Len(trace)
    BY <1>1
  <2> QED
    BY <1>1, <2>1
<1>4. \A l \in Lanes, t \in 0 .. now - 1 : Over(l, t)' = Over(l, t) /\ Over(l, t) \in BOOLEAN
  <2> SUFFICES ASSUME NEW l \in Lanes, NEW t \in 0 .. now - 1
               PROVE  Over(l, t)' = Over(l, t) /\ Over(l, t) \in BOOLEAN
    OBVIOUS
  <2>1. Over(l, t) = trace[t + 1][l].over /\ Over(l, t)' = trace'[t + 1][l].over
    BY DEF Over
  <2> QED
    BY <1>3, <2>1
<1>5. \A l \in Lanes, t \in Nat : t = now => Over(l, t)' = over[l] /\ trace'[t + 1][l].add = add[l]
  BY <1>2, <1>e DEF Over
<1>6. \A l \in Lanes, t \in 0 .. now - 1 : trace'[t + 1][l].add = trace[t + 1][l].add
  BY <1>3
<1> QED
  BY <1>4, <1>5, <1>6

LEMMA ChargeStep ==
  ASSUME HitType, NEW over \in [Lanes -> BOOLEAN], NEW add \in [Lanes -> Int], Seen(over, add)
  PROVE  /\ \A l \in Lanes, a \in 0 .. now : \A n \in 0 .. now - a :
              ChargeFrom(l, a)'[n] = ChargeFrom(l, a)[n]
         /\ \A l \in Lanes, a \in 0 .. now :
              ChargeFrom(l, a)'[now + 1 - a] = Sat(ChargeFrom(l, a)[now - a] + add[l])
         /\ \A l \in Lanes, a \in Nat : a = now + 1 => ChargeFrom(l, a)'[0] = 0
<1>1. TraceType => \A l \in Lanes, a \in 0 .. now :
        /\ ChargeFrom(l, a)[0] = 0
        /\ \A n \in 0 .. now - a : ChargeFrom(l, a)[n] \in Int16
        /\ \A n \in 0 .. now - a - 1 :
             ChargeFrom(l, a)[n + 1] = Sat(ChargeFrom(l, a)[n] + trace[a + n + 1][l].add)
  BY ChargeValues
<1>2. (TraceType => \A l \in Lanes, a \in 0 .. now :
        /\ ChargeFrom(l, a)[0] = 0
        /\ \A n \in 0 .. now - a : ChargeFrom(l, a)[n] \in Int16
        /\ \A n \in 0 .. now - a - 1 :
             ChargeFrom(l, a)[n + 1] = Sat(ChargeFrom(l, a)[n] + trace[a + n + 1][l].add))'
  BY ChargeValues, PTL
<1>3. TraceType /\ TraceType' /\ now \in Nat /\ now' = now + 1
  BY SeenType DEF HitType, TraceType, Seen
<1>4. ASSUME NEW l \in Lanes, NEW a \in 0 .. now
      PROVE  /\ \A n \in 0 .. now - a : ChargeFrom(l, a)'[n] = ChargeFrom(l, a)[n]
             /\ ChargeFrom(l, a)'[now + 1 - a] = Sat(ChargeFrom(l, a)[now - a] + add[l])
  <2>f. PICK f : f = ChargeFrom(l, a)
    OBVIOUS
  <2>g. PICK g : g = ChargeFrom(l, a)'
    OBVIOUS
  <2>N. PICK N \in Nat : N = now - a /\ now = a + N
    BY <1>3
  <2>1. f[0] = 0 /\ \A n \in 0 .. N - 1 : f[n + 1] = Sat(f[n] + trace[a + n + 1][l].add)
    BY <1>1, <1>3, <2>f, <2>N
  <2>2. a \in 0 .. now' /\ now' - a - 1 = N
    BY <1>3, <2>N
  <2>3. g[0] = 0 /\ \A n \in 0 .. N : g[n + 1] = Sat(g[n] + trace'[a + n + 1][l].add)
    BY <1>2, <1>3, <2>2, <2>g
  <2>4. \A n \in 0 .. N - 1 : trace'[a + n + 1][l].add = trace[a + n + 1][l].add
    <3> SUFFICES ASSUME NEW n \in 0 .. N - 1
                 PROVE  trace'[a + n + 1][l].add = trace[a + n + 1][l].add
      OBVIOUS
    <3>t. PICK t \in 0 .. now - 1 : t = a + n
      BY <1>3, <2>N
    <3> QED
      BY <3>t, TraceStep
  <2>5. trace'[a + N + 1][l].add = add[l]
    <3>t. PICK t \in Nat : t = a + N /\ t = now
      BY <1>3, <2>N
    <3> QED
      BY <3>t, TraceStep
  <2> DEFINE S == {n \in Nat : n <= N => g[n] = f[n]}
  <2>6. 0 \in S
    BY <2>1, <2>3
  <2>7. \A n \in Nat : n \in S => n + 1 \in S
    <3> SUFFICES ASSUME NEW n \in Nat, n \in S, n + 1 <= N PROVE g[n + 1] = f[n + 1]
      OBVIOUS
    <3>1. n \in 0 .. N - 1 /\ n \in 0 .. N /\ g[n] = f[n]
      OBVIOUS
    <3> QED
      BY <2>1, <2>3, <2>4, <3>1
  <2>8. \A n \in 0 .. N : g[n] = f[n]
    <3>1. Nat \subseteq S
      <4> HIDE DEF S
      <4> QED
        BY <2>6, <2>7, SetInduction
    <3> QED
      BY <3>1
  <2>9. g[N + 1] = Sat(f[N] + add[l])
    <3>1. N \in 0 .. N
      OBVIOUS
    <3> QED
      BY <2>3, <2>5, <2>8, <3>1
  <2>10. N + 1 = now + 1 - a
    BY <1>3, <2>N
  <2> QED
    BY <2>8, <2>9, <2>10, <2>f, <2>g, <2>N
<1>5. ASSUME NEW l \in Lanes, NEW a \in Nat, a = now + 1 PROVE ChargeFrom(l, a)'[0] = 0
  <2>1. a \in 0 .. now'
    BY <1>3, <1>5
  <2> QED
    BY <1>2, <1>3, <2>1
<1> QED
  BY <1>4, <1>5

(* A channel is since some sample over threshold, or it is not.            *)
OpenSince(l, a) ==
  /\ \A t \in a .. now - 1 : Over(l, t)
  /\ a > 0 => ~Over(l, a - 1)
  /\ chan[l].prev_was_over = (a < now)
  /\ chan[l].hit_tover = Lower(now - a, Half - 1)
  /\ chan[l].hit_charge = ChargeFrom(l, a)[now - a]

LEMMA OpenStep ==
  ASSUME HitType, NEW over \in [Lanes -> BOOLEAN], NEW add \in [Lanes -> Int], Seen(over, add),
         NEW l \in Lanes, NEW a \in 0 .. now, OpenSince(l, a)
  PROVE  /\ NewTover(over)[l] = Lower((now + (IF over[l] THEN 1 ELSE 0)) - a, Half - 1)
         /\ over[l] => OpenSince(l, a)'
         /\ ~over[l] => NewCharge(over, add)[l] = ChargeFrom(l, a)'[now - a]
         /\ ~over[l] => \A b \in Nat : b = now + 1 => OpenSince(l, b)'
<1>n. PICK n \in Nat : n = now
  BY DEF HitType, TraceType
<1>h. PICK h \in Nat : h = Half /\ h > 0
  BY Constants
<1>1. now' = n + 1 /\ a \in 0 .. n /\ n - a \in 0 .. n - a
  BY <1>n DEF Seen
<1>c. PICK c \in Int16 : c = chan[l].hit_charge
  BY DEF HitType, Chan
<1>2. /\ NewTover(over)[l] = Sat(chan[l].hit_tover + (IF over[l] THEN 1 ELSE 0))
      /\ NewCharge(over, add)[l] = Sat(c + (IF over[l] THEN add[l] ELSE 0))
  BY <1>c DEF NewTover, NewCharge
<1>3. chan[l].hit_tover = Lower(n - a, h - 1)
  BY <1>n, <1>h DEF OpenSince
<1>4. NewTover(over)[l] = Lower((n + (IF over[l] THEN 1 ELSE 0)) - a, h - 1)
  BY <1>1, <1>2, <1>3, <1>h DEF Lower, Sat
<1>5. c = ChargeFrom(l, a)[n - a]
  BY <1>n, <1>c DEF OpenSince
<1>6. /\ ChargeFrom(l, a)'[n - a] = c
      /\ ChargeFrom(l, a)'[n + 1 - a] = Sat(c + add[l])
  BY <1>1, <1>5, <1>n, ChargeStep
<1>7. ~over[l] => NewCharge(over, add)[l] = c
  <2>1. c + 0 = c
    BY Constants DEF Int16
  <2> QED
    BY <1>2, <2>1, SatType, Constants DEF Int16
<1>8. /\ chan'[l].prev_was_over = over[l]
      /\ chan'[l].hit_tover = IF LeftNow(over)[l] THEN 0 ELSE NewTover(over)[l]
      /\ chan'[l].hit_charge = IF LeftNow(over)[l] THEN 0 ELSE NewCharge(over, add)[l]
      /\ LeftNow(over)[l] = (chan[l].prev_was_over /\ ~over[l])
  BY DEF Seen, LeftNow
<1>9. chan[l].prev_was_over = (a < n)
  BY <1>n DEF OpenSince
<1>10. /\ \A t \in a .. n - 1 : Over(l, t)
       /\ a > 0 => ~Over(l, a - 1)
  BY <1>n DEF OpenSince
<1>11. /\ \A t \in 0 .. n - 1 : Over(l, t)' = Over(l, t)
       /\ Over(l, n)' = over[l]
  BY <1>n, TraceStep
<1>12. ASSUME over[l] PROVE OpenSince(l, a)'
  <2>1. \A t \in a .. n : Over(l, t)'
    <3> SUFFICES ASSUME NEW t \in a .. n PROVE Over(l, t)'
      OBVIOUS
    <3>1. CASE t = n
      BY <1>11, <1>12, <3>1
    <3>2. CASE t # n
      <4>1. t \in a .. n - 1 /\ t \in 0 .. n - 1
        BY <1>1, <3>2
      <4> QED
        BY <1>10, <1>11, <4>1
    <3> QED
      BY <3>1, <3>2
  <2>2. a > 0 => ~Over(l, a - 1)'
    <3> SUFFICES ASSUME a > 0 PROVE ~Over(l, a - 1)'
      OBVIOUS
    <3>t. PICK t \in 0 .. n - 1 : t = a - 1
      BY <1>1
    <3> QED
      BY <1>10, <1>11, <3>t
  <2>3. ~LeftNow(over)[l]
    BY <1>8, <1>12
  <2>4. (n + 1) - 1 = n /\ a < n + 1
    BY <1>1
  <2>5. chan'[l].prev_was_over = (a < n + 1)
    BY <1>8, <1>12, <2>4
  <2>6. chan'[l].hit_tover = Lower(n + 1 - a, Half - 1)
    BY <1>4, <1>8, <1>12, <1>h, <2>3
  <2>7. chan'[l].hit_charge = ChargeFrom(l, a)'[n + 1 - a]
    BY <1>2, <1>6, <1>8, <1>12, <2>3
  <2> QED
    BY <1>1, <2>1, <2>2, <2>4, <2>5, <2>6, <2>7 DEF OpenSince
<1>13. ASSUME ~over[l], NEW b \in Nat, b = n + 1 PROVE OpenSince(l, b)'
  <2>1. b - 1 = n /\ ~(b < n + 1) /\ (n + 1) - b = 0 /\ \A t : t \notin b .. b - 1
    BY <1>13
  <2>2. ~Over(l, b - 1)'
    BY <1>11, <1>13, <2>1
  <2>3. chan'[l].prev_was_over = (b < n + 1)
    BY <1>8, <1>13, <2>1
  <2>4. Lower(0, Half - 1) = 0 /\ ChargeFrom(l, b)'[0] = 0
    <3>1. Lower(0, Half - 1) = 0
      BY <1>h DEF Lower
    <3> QED
      BY <1>13, <1>n, <3>1, ChargeStep
  <2>5. chan'[l].hit_tover = 0 /\ chan'[l].hit_charge = 0
    <3>1. CASE LeftNow(over)[l]
      BY <1>8, <3>1
    <3>2. CASE ~LeftNow(over)[l]
      <4>1. ~(a < n)
        BY <1>8, <1>9, <1>13, <3>2
      <4>2. a = n /\ n - a = 0
        BY <1>1, <4>1
      <4>3. NewTover(over)[l] = 0
        BY <1>4, <1>13, <1>h, <4>2 DEF Lower
      <4>4. c = 0
        <5>1. ChargeFrom(l, a)[0] = 0
          BY <1>n, <1>1, ChargeValues DEF HitType
        <5> QED
          BY <1>5, <4>2, <5>1
      <4> QED
        BY <1>7, <1>8, <1>13, <3>2, <4>3, <4>4
    <3> QED
      BY <3>1, <3>2
  <2> QED
    BY <1>1, <1>13, <2>1, <2>2, <2>3, <2>4, <2>5 DEF OpenSince
<1> QED
  BY <1>4, <1>6, <1>7, <1>12, <1>13, <1>h, <1>n

(* A sample ends at most one stretch of a lane: the one it was in.         *)
LEMMA StretchStep ==
  ASSUME HitType, NEW over \in [Lanes -> BOOLEAN], NEW add \in [Lanes -> Int], Seen(over, add),
         NEW l \in Lanes, NEW a \in 0 .. now, OpenSince(l, a)
  PROVE  Stretches(l)' = Stretches(l) \cup (IF LeftNow(over)[l] THEN {<<a, now>>} ELSE {})
<1>n. PICK n \in Nat : n = now
  BY DEF HitType, TraceType
<1>1. now' = n + 1 /\ a \in 0 .. n
  BY <1>n DEF Seen
<1>2. /\ \A t \in 0 .. n - 1 : Over(l, t)' = Over(l, t)
      /\ Over(l, n)' = over[l]
  BY <1>n, TraceStep
<1>3. /\ \A t \in a .. n - 1 : Over(l, t)
      /\ a > 0 => ~Over(l, a - 1)
      /\ LeftNow(over)[l] = (a < n /\ ~over[l])
  BY <1>n DEF OpenSince, LeftNow
<1>4. Stretches(l)' = {r \in (0 .. n) \X (0 .. n) :
        /\ r[1] < r[2] /\ ~Over(l, r[2])'
        /\ \A t \in r[1] .. r[2] - 1 : Over(l, t)'
        /\ r[1] > 0 => ~Over(l, r[1] - 1)'}
  <2>1. now' - 1 = n
    BY <1>1
  <2> QED
    BY <2>1 DEF Stretches
<1>5. Stretches(l) = {r \in (0 .. n - 1) \X (0 .. n - 1) :
        /\ r[1] < r[2] /\ ~Over(l, r[2])
        /\ \A t \in r[1] .. r[2] - 1 : Over(l, t)
        /\ r[1] > 0 => ~Over(l, r[1] - 1)}
  BY <1>n DEF Stretches
<1>6. ASSUME NEW b \in 0 .. n, NEW e \in 0 .. n, b < e, e < n
      PROVE  <<b, e>> \in Stretches(l)' <=> <<b, e>> \in Stretches(l)
  <2>1. b \in 0 .. n - 1 /\ e \in 0 .. n - 1 /\ <<b, e>>[1] = b /\ <<b, e>>[2] = e
    BY <1>6
  <2>2. Over(l, e)' = Over(l, e)
    BY <1>2, <2>1
  <2>3. (\A t \in b .. e - 1 : Over(l, t)') <=> (\A t \in b .. e - 1 : Over(l, t))
    <3>1. \A t \in b .. e - 1 : Over(l, t)' = Over(l, t)
      BY <1>2, <2>1
    <3> QED
      BY <3>1
  <2>4. b > 0 => Over(l, b - 1)' = Over(l, b - 1)
    <3> SUFFICES ASSUME b > 0 PROVE Over(l, b - 1)' = Over(l, b - 1)
      OBVIOUS
    <3>t. PICK t \in 0 .. n - 1 : t = b - 1
      BY <2>1
    <3> QED
      BY <1>2, <3>t
  <2> QED
    BY <1>4, <1>5, <1>6, <2>1, <2>2, <2>3, <2>4
<1>7. ASSUME NEW b \in 0 .. n, b < n, <<b, n>> \in Stretches(l)'
      PROVE  b = a /\ LeftNow(over)[l]
  <2>1. /\ ~Over(l, n)' /\ \A t \in b .. n - 1 : Over(l, t)'
        /\ b > 0 => ~Over(l, b - 1)'
    BY <1>4, <1>7
  <2>2. ~ b < a
    <3> SUFFICES ASSUME b < a PROVE FALSE
      OBVIOUS
    <3>t. PICK t \in 0 .. n - 1 : t = a - 1 /\ t \in b .. n - 1 /\ a > 0
      BY <1>1
    <3> QED
      BY <1>2, <1>3, <2>1, <3>t
  <2>3. ~ a < b
    <3> SUFFICES ASSUME a < b PROVE FALSE
      OBVIOUS
    <3>t. PICK t \in 0 .. n - 1 : t = b - 1 /\ t \in a .. n - 1 /\ b > 0
      BY <1>1
    <3> QED
      BY <1>2, <1>3, <2>1, <3>t
  <2>4. b = a
    BY <1>1, <2>2, <2>3
  <2> QED
    BY <1>2, <1>3, <1>7, <2>1, <2>4
<1>8. ASSUME LeftNow(over)[l] PROVE <<a, n>> \in Stretches(l)'
  <2>1. a < n /\ ~over[l]
    BY <1>3, <1>8
  <2>2. \A t \in a .. n - 1 : Over(l, t)'
    <3> SUFFICES ASSUME NEW t \in a .. n - 1 PROVE Over(l, t)'
      OBVIOUS
    <3>1. t \in 0 .. n - 1
      BY <1>1
    <3> QED
      BY <1>2, <1>3, <3>1
  <2>3. a > 0 => ~Over(l, a - 1)'
    <3> SUFFICES ASSUME a > 0 PROVE ~Over(l, a - 1)'
      OBVIOUS
    <3>t. PICK t \in 0 .. n - 1 : t = a - 1
      BY <1>1
    <3> QED
      BY <1>2, <1>3, <3>t
  <2>4. <<a, n>> \in (0 .. n) \X (0 .. n) /\ <<a, n>>[1] = a /\ <<a, n>>[2] = n
    BY <1>1
  <2> QED
    BY <1>2, <1>4, <2>1, <2>2, <2>3, <2>4
<1>9. Stretches(l)' \subseteq (0 .. n) \X (0 .. n) /\ Stretches(l) \subseteq (0 .. n - 1) \X (0 .. n - 1)
  BY <1>4, <1>5
<1>10. \A r \in Stretches(l) : r[1] < r[2]
  BY <1>5
<1>11. \A r \in Stretches(l)' : r[1] < r[2]
  BY <1>4
<1>12. ASSUME NEW r \in Stretches(l)'
       PROVE  r \in Stretches(l) \cup (IF LeftNow(over)[l] THEN {<<a, n>>} ELSE {})
  <2>b. PICK b \in 0 .. n : b = r[1]
    BY <1>9
  <2>e. PICK e \in 0 .. n : e = r[2]
    BY <1>9
  <2>1. r = <<b, e>> /\ b < e
    BY <1>9, <1>11, <2>b, <2>e
  <2>2. CASE e = n
    BY <1>7, <2>1, <2>2
  <2>3. CASE e # n
    <3>1. e < n
      BY <2>3
    <3> QED
      BY <1>6, <2>1, <3>1
  <2> QED
    BY <2>2, <2>3
<1>13. ASSUME NEW r \in Stretches(l) PROVE r \in Stretches(l)'
  <2>b. PICK b \in 0 .. n - 1 : b = r[1]
    BY <1>9
  <2>e. PICK e \in 0 .. n - 1 : e = r[2]
    BY <1>9
  <2>1. r = <<b, e>> /\ b < e
    BY <1>9, <1>10, <2>b, <2>e
  <2>2. b \in 0 .. n /\ e \in 0 .. n /\ e < n
    BY <2>1
  <2> QED
    BY <1>6, <2>1, <2>2
<1> QED
  BY <1>8, <1>12, <1>13, <1>n

(* The trigger primitive of a lane that leaves.                            *)
TPNow(over, add, l) ==
  [lane |-> l, start |-> now - NewTover(over)[l], tover |-> NewTover(over)[l],
   charge |-> NewCharge(over, add)[l] % (2 * Half)]

LEMMA RunsStep ==
  ASSUME HitType, NEW over \in [Lanes -> BOOLEAN], NEW add \in [Lanes -> Int], Seen(over, add),
         NEW l \in Lanes, NEW a \in 0 .. now, OpenSince(l, a)
  PROVE  Runs(l)' = Runs(l) \cup (IF LeftNow(over)[l] THEN {TPNow(over, add, l)} ELSE {})
<1>n. PICK n \in Nat : n = now
  BY DEF HitType, TraceType
<1>1. ASSUME NEW r \in Stretches(l) PROVE HitOf(l, r)' = HitOf(l, r)
  <2>1. r \in (0 .. n - 1) \X (0 .. n - 1) /\ r[1] < r[2]
    BY <1>n DEF Stretches
  <2>b. PICK b \in 0 .. n - 1 : b = r[1]
    BY <2>1
  <2>e. PICK e \in 0 .. n - 1 : e = r[2]
    BY <2>1
  <2>2. b \in 0 .. n /\ e - b \in 0 .. n - b
    BY <2>1, <2>b, <2>e
  <2>3. ChargeFrom(l, b)'[e - b] = ChargeFrom(l, b)[e - b]
    BY <1>n, <2>2, ChargeStep
  <2>4. HitOf(l, r)' = [lane |-> l, start |-> e - Lower(e - b, Half - 1), tover |-> Lower(e - b, Half - 1),
                        charge |-> ChargeFrom(l, b)'[e - b] % (2 * Half)]
    BY <2>b, <2>e DEF HitOf
  <2>5. HitOf(l, r) = [lane |-> l, start |-> e - Lower(e - b, Half - 1), tover |-> Lower(e - b, Half - 1),
                       charge |-> ChargeFrom(l, b)[e - b] % (2 * Half)]
    BY <2>b, <2>e DEF HitOf
  <2> QED
    BY <2>3, <2>4, <2>5
<1>2. ASSUME LeftNow(over)[l], NEW r, r = <<a, n>> PROVE HitOf(l, r)' = TPNow(over, add, l)
  <2>1. r[1] = a /\ r[2] = n /\ ~over[l] /\ (n + 0) - a = n - a
    <3>1. ~over[l]
      BY <1>2 DEF LeftNow
    <3>2. n + 0 = n
      OBVIOUS
    <3>3. r[1] = a /\ r[2] = n
      BY <1>2
    <3> QED
      BY <3>1, <3>2, <3>3
  <2>2. NewTover(over)[l] = Lower(n - a, Half - 1)
    BY <1>n, <2>1, OpenStep
  <2>3. NewCharge(over, add)[l] = ChargeFrom(l, a)'[n - a]
    BY <1>n, <2>1, OpenStep
  <2>4. HitOf(l, r)' = [lane |-> l, start |-> n - Lower(n - a, Half - 1), tover |-> Lower(n - a, Half - 1),
                        charge |-> ChargeFrom(l, a)'[n - a] % (2 * Half)]
    BY <2>1 DEF HitOf
  <2> QED
    BY <1>n, <2>2, <2>3, <2>4 DEF TPNow
<1>3. Stretches(l)' = Stretches(l) \cup (IF LeftNow(over)[l] THEN {<<a, n>>} ELSE {})
  BY <1>n, StretchStep
<1>4. Runs(l)' = {HitOf(l, r)' : r \in Stretches(l)'} /\ Runs(l) = {HitOf(l, r) : r \in Stretches(l)}
  BY DEF Runs
<1> QED
  BY <1>1, <1>2, <1>3, <1>4

----------------------------------------------------------------------------
(* Windows, and the trigger primitives handed over.                        *)
LEMMA RemainderUnique ==
  ASSUME NEW w \in Nat, w > 0, NEW q \in Nat, NEW r \in 0 .. w - 1
  PROVE  (q * w + r) % w = r
OBVIOUS

LEMMA NextInWindow ==
  ASSUME NEW n \in Nat, NEW w \in Nat, w > 0
  PROVE  /\ n % w \in 0 .. w - 1 /\ n % w <= n
         /\ n % w = w - 1 => (n + 1) % w = 0
         /\ n % w # w - 1 => (n + 1) % w = (n % w) + 1
<1>q. PICK q \in Nat : q = n \div w
  OBVIOUS
<1>r. PICK r \in 0 .. w - 1 : r = n % w
  OBVIOUS
<1>1. q * w \in Nat /\ n = q * w + r
  BY <1>q, <1>r
<1>2. ASSUME r = w - 1 PROVE (n + 1) % w = 0
  <2>1. (q + 1) * w = q * w + w
    OBVIOUS
  <2>2. n + 1 = (q + 1) * w + 0 /\ q + 1 \in Nat /\ 0 \in 0 .. w - 1
    BY <1>1, <1>2, <2>1
  <2> QED
    BY <2>2, RemainderUnique
<1>3. ASSUME r # w - 1 PROVE (n + 1) % w = r + 1
  <2>1. n + 1 = q * w + (r + 1) /\ r + 1 \in 0 .. w - 1
    BY <1>1, <1>3
  <2> QED
    BY <2>1, RemainderUnique
<1> QED
  BY <1>1, <1>2, <1>3, <1>r

TPOf(r, l, start) ==
  [lane |-> l, start |-> start + r.timenow - r.hit_tover[l],
   tover |-> r.hit_tover[l], charge |-> r.hit_charge[l]]

LEMMA FoundTP ==
  ASSUME NEW out, NEW start
  PROVE  /\ DOMAIN process_swtpg_hits(out, start) = FoundIn(out, start)
         /\ \A i \in DOMAIN out, l \in Lanes :
              out[i].hit_charge[l] # 0 =>
                /\ <<start, i, l>> \in FoundIn(out, start)
                /\ process_swtpg_hits(out, start)[<<start, i, l>>] = TPOf(out[i], l, start)
         /\ \A k \in FoundIn(out, start) :
              \E i \in DOMAIN out, l \in Lanes : k = <<start, i, l>> /\ out[i].hit_charge[l] # 0
<1>1. DOMAIN process_swtpg_hits(out, start) = FoundIn(out, start)
  BY DEF process_swtpg_hits
<1>2. ASSUME NEW i \in DOMAIN out, NEW l \in Lanes, out[i].hit_charge[l] # 0
      PROVE  /\ <<start, i, l>> \in FoundIn(out, start)
             /\ process_swtpg_hits(out, start)[<<start, i, l>>] = TPOf(out[i], l, start)
  <2>k. PICK k : k = <<start, i, l>>
    OBVIOUS
  <2>1. k \in {start} \X (DOMAIN out) \X Lanes /\ k[2] = i /\ k[3] = l
    BY <2>k
  <2>2. k \in FoundIn(out, start)
    BY <1>2, <2>1 DEF FoundIn
  <2> QED
    BY <2>1, <2>2, <2>k DEF process_swtpg_hits, TPOf
<1>3. ASSUME NEW k \in FoundIn(out, start)
      PROVE  \E i \in DOMAIN out, l \in Lanes : k = <<start, i, l>> /\ out[i].hit_charge[l] # 0
  <2>1. k \in {start} \X (DOMAIN out) \X Lanes /\ out[k[2]].hit_charge[k[3]] # 0
    BY DEF FoundIn
  <2>2. k = <<start, k[2], k[3]>> /\ k[2] \in DOMAIN out /\ k[3] \in Lanes
    BY <2>1
  <2> QED
    BY <2>1, <2>2
<1> QED
  BY <1>1, <1>2, <1>3

LEMMA FoundRange ==
  ASSUME NEW out, NEW start
  PROVE  \A v : v \in Range(process_swtpg_hits(out, start)) <=>
                \E i \in DOMAIN out, l \in Lanes :
                  out[i].hit_charge[l] # 0 /\ v = TPOf(out[i], l, start)
<1>p. PICK p : p = process_swtpg_hits(out, start)
  OBVIOUS
<1>1. Range(p) = {p[k] : k \in DOMAIN p}
  BY DEF Range
<1>2. ASSUME NEW v, v \in Range(p)
      PROVE  \E i \in DOMAIN out, l \in Lanes :
               out[i].hit_charge[l] # 0 /\ v = TPOf(out[i], l, start)
  <2>1. PICK k \in FoundIn(out, start) : v = p[k]
    BY <1>1, <1>2, <1>p, FoundTP
  <2>2. PICK i \in DOMAIN out, l \in Lanes : k = <<start, i, l>> /\ out[i].hit_charge[l] # 0
    BY FoundTP
  <2>3. p[<<start, i, l>>] = TPOf(out[i], l, start)
    BY <1>p, <2>2, FoundTP
  <2> QED
    BY <2>1, <2>2, <2>3
<1>3. ASSUME NEW i \in DOMAIN out, NEW l \in Lanes, out[i].hit_charge[l] # 0
      PROVE  TPOf(out[i], l, start) \in Range(p)
  <2>1. <<start, i, l>> \in DOMAIN p /\ p[<<start, i, l>>] = TPOf(out[i], l, start)
    BY <1>3, <1>p, FoundTP
  <2> QED
    BY <1>1, <2>1
<1> QED
  BY <1>2, <1>3, <1>p

(* The registers of a window are in the order of time.                     *)
Ordered(out, n) ==
  /\ \A i \in DOMAIN out : out[i].timenow < n
  /\ \A i, j \in DOMAIN out : i < j => out[i].timenow < out[j].timenow

LEMMA FoundInjective ==
  ASSUME NEW out \in Seq(Registers), NEW n, Ordered(out, n), NEW start \in Int
  PROVE  /\ IsInjective(process_swtpg_hits(out, start))
         /\ \A k \in FoundIn(out, start) :
              LET v == process_swtpg_hits(out, start)[k]
              IN  /\ v.start \in Int /\ v.tover \in Int
                  /\ start <= v.start + v.tover /\ v.start + v.tover < start + WindowFrames
<1>p. PICK p : p = process_swtpg_hits(out, start)
  OBVIOUS
<1>1. ASSUME NEW i \in DOMAIN out, NEW l \in Lanes, NEW v, v = TPOf(out[i], l, start)
      PROVE  /\ v.lane = l /\ v.start \in Int /\ v.tover \in Int
             /\ v.start + v.tover = start + out[i].timenow
             /\ out[i].timenow \in 0 .. WindowFrames - 1
  <2>r. PICK r \in Registers : r = out[i]
    OBVIOUS
  <2>t. PICK t \in 0 .. WindowFrames - 1 : t = r.timenow
    BY DEF Registers
  <2>o. PICK o \in Int : o = r.hit_tover[l]
    BY Constants DEF Registers
  <2>1. v.lane = l /\ v.start = start + t - o /\ v.tover = o
    BY <1>1, <2>r, <2>t, <2>o DEF TPOf
  <2>2. t \in Int /\ (start + t - o) + o = start + t /\ start + t - o \in Int
    BY Constants
  <2> QED
    BY <2>1, <2>2, <2>r, <2>t
<1>2. ASSUME NEW k \in DOMAIN p, NEW m \in DOMAIN p, p[k] = p[m] PROVE k = m
  <2>1. k \in FoundIn(out, start) /\ m \in FoundIn(out, start)
    BY <1>p, FoundTP
  <2>2. PICK i \in DOMAIN out, l \in Lanes : k = <<start, i, l>> /\ out[i].hit_charge[l] # 0
    BY <2>1, FoundTP
  <2>3. PICK j \in DOMAIN out, y \in Lanes : m = <<start, j, y>> /\ out[j].hit_charge[y] # 0
    BY <2>1, FoundTP
  <2>4. p[k] = TPOf(out[i], l, start) /\ p[m] = TPOf(out[j], y, start)
    BY <1>p, <2>2, <2>3, FoundTP
  <2>v. PICK v : v = TPOf(out[i], l, start)
    OBVIOUS
  <2>5. /\ v.lane = l /\ v.start + v.tover = start + out[i].timenow
        /\ out[i].timenow \in 0 .. WindowFrames - 1
    BY <1>1, <2>v
  <2>6. /\ v.lane = y /\ v.start + v.tover = start + out[j].timenow
        /\ out[j].timenow \in 0 .. WindowFrames - 1
    <3>1. v = TPOf(out[j], y, start)
      BY <1>2, <2>4, <2>v
    <3> QED
      BY <1>1, <3>1
  <2>t. PICK t \in Int : t = out[i].timenow
    BY <2>5, Constants
  <2>u. PICK u \in Int : u = out[j].timenow
    BY <2>6, Constants
  <2>7. t = u
    <3>1. start + t = start + u
      BY <2>5, <2>6, <2>t, <2>u
    <3> QED
      BY <3>1
  <2>8. i \in Nat /\ j \in Nat
    OBVIOUS
  <2>9. ~ i < j /\ ~ j < i
    <3>1. ~ t < u /\ ~ u < t
      BY <2>7
    <3> QED
      BY <2>t, <2>u, <3>1 DEF Ordered
  <2> QED
    BY <2>2, <2>3, <2>5, <2>6, <2>8, <2>9
<1>3. IsInjective(p)
  BY <1>2 DEF IsInjective
<1>4. ASSUME NEW k \in FoundIn(out, start)
      PROVE  /\ p[k].start \in Int /\ p[k].tover \in Int
             /\ start <= p[k].start + p[k].tover /\ p[k].start + p[k].tover < start + WindowFrames
  <2>2. PICK i \in DOMAIN out, l \in Lanes : k = <<start, i, l>> /\ out[i].hit_charge[l] # 0
    BY FoundTP
  <2>4. p[k] = TPOf(out[i], l, start)
    BY <1>p, <2>2, FoundTP
  <2>5. /\ p[k].start \in Int /\ p[k].tover \in Int
        /\ p[k].start + p[k].tover = start + out[i].timenow
        /\ out[i].timenow \in 0 .. WindowFrames - 1
    BY <1>1, <2>4
  <2>t. PICK t \in 0 .. WindowFrames - 1 : t = out[i].timenow
    BY <2>5
  <2>6. start <= start + t /\ start + t < start + WindowFrames
    BY Constants
  <2> QED
    BY <2>5, <2>6, <2>t
<1> QED
  BY <1>3, <1>4, <1>p

(* When the window began, and the hits it has in tps or, so far, in its    *)
(* registers.                                                              *)
Began == now - (now % WindowFrames)
Handed == Range(tps) \cup Range(process_swtpg_hits(output, Began))

LEMMA BeganType ==
  ASSUME HitType
  PROVE  /\ now \in Nat /\ WindowFrames \in Nat /\ WindowFrames > 0
         /\ now % WindowFrames \in 0 .. WindowFrames - 1
         /\ Began \in Nat /\ now = Began + (now % WindowFrames)
<1>n. PICK n \in Nat : n = now
  BY DEF HitType, TraceType
<1>w. PICK w \in Nat : w = WindowFrames /\ w > 0
  BY Constants
<1>r. PICK r \in 0 .. w - 1 : r = n % w /\ r <= n
  BY <1>w, NextInWindow
<1>1. n - r \in Nat /\ n = (n - r) + r
  BY <1>r
<1>2. Began = n - r
  BY <1>n, <1>r, <1>w DEF Began
<1> QED
  BY <1>1, <1>2, <1>n, <1>r, <1>w

(* The TP of a lane that leaves is the one its new register stands for.    *)
LEMMA NewRegisterTP ==
  ASSUME HitType, NEW over \in [Lanes -> BOOLEAN], NEW add \in [Lanes -> Int], NEW l \in Lanes
  PROVE  /\ NewRegister(over, add).hit_charge[l] # 0
              <=> LeftNow(over)[l] /\ NewCharge(over, add)[l] % (2 * Half) # 0
         /\ LeftNow(over)[l] => TPOf(NewRegister(over, add), l, Began) = TPNow(over, add, l)
<1>r. PICK r : r = NewRegister(over, add)
  OBVIOUS
<1>1. /\ r.timenow = now % WindowFrames
      /\ r.hit_charge[l] = IF LeftNow(over)[l] THEN NewCharge(over, add)[l] % (2 * Half) ELSE 0
      /\ r.hit_tover[l] = NewTover(over)[l]
  BY <1>r DEF NewRegister
<1>2. Began + (now % WindowFrames) = now
  BY BeganType
<1>3. TPOf(r, l, Began) = [lane |-> l, start |-> now - NewTover(over)[l], tover |-> NewTover(over)[l],
                           charge |-> r.hit_charge[l]]
  <2>b. PICK b \in Nat : b = Began
    BY BeganType
  <2>t. PICK t \in Int : t = now % WindowFrames
    BY BeganType, Constants
  <2>o. PICK o \in Int : o = NewTover(over)[l]
    <3>1. NewTover(over)[l] \in 0 .. Half - 1
      BY NewTypes
    <3> QED
      BY <3>1, Constants
  <2>1. b + t = now /\ r.timenow = t /\ r.hit_tover[l] = o
    BY <1>1, <1>2, <2>b, <2>o, <2>t
  <2>2. TPOf(r, l, b) = [lane |-> l, start |-> now - o, tover |-> o, charge |-> r.hit_charge[l]]
    BY <2>1 DEF TPOf
  <2> QED
    BY <2>2, <2>b, <2>o
<1> QED
  BY <1>1, <1>3, <1>r DEF TPNow

LEMMA HandedNew ==
  ASSUME HitType, NEW over \in [Lanes -> BOOLEAN], NEW add \in [Lanes -> Int]
  PROVE  \A v : v \in Range(process_swtpg_hits(NewOutput(over, add), Began))
                  <=> \/ v \in Range(process_swtpg_hits(output, Began))
                      \/ \E l \in Lanes : /\ LeftNow(over)[l] /\ NewCharge(over, add)[l] % (2 * Half) # 0
                                          /\ v = TPNow(over, add, l)
<1>o. PICK o : o = NewOutput(over, add)
  OBVIOUS
<1>r. PICK r \in Registers : r = NewRegister(over, add)
  BY NewTypes
<1>s. PICK s : s = Began
  OBVIOUS
<1>1. ASSUME NEW l \in Lanes
      PROVE  /\ r.hit_charge[l] # 0 <=> LeftNow(over)[l] /\ NewCharge(over, add)[l] % (2 * Half) # 0
             /\ LeftNow(over)[l] => TPOf(r, l, s) = TPNow(over, add, l)
  BY <1>r, <1>s, NewRegisterTP
<1>2. \A v : v \in Range(process_swtpg_hits(o, s)) <=>
               \E i \in DOMAIN o, l \in Lanes : o[i].hit_charge[l] # 0 /\ v = TPOf(o[i], l, s)
  BY FoundRange
<1>3. \A v : v \in Range(process_swtpg_hits(output, s)) <=>
               \E i \in DOMAIN output, l \in Lanes : output[i].hit_charge[l] # 0 /\ v = TPOf(output[i], l, s)
  BY FoundRange
<1>4. output \in Seq(Registers)
  BY DEF HitType
<1>5. CASE \E l \in Lanes : LeftNow(over)[l]
  <2>n. PICK n \in Nat : n = Len(output)
    BY <1>4
  <2>1. o = Append(output, r)
    BY <1>5, <1>o, <1>r DEF NewOutput
  <2>2. /\ DOMAIN output = 1 .. n /\ DOMAIN o = 1 .. n + 1
        /\ \A i \in 1 .. n : o[i] = output[i]
        /\ o[n + 1] = r
    BY <1>4, <2>1, <2>n
  <2>3. ASSUME NEW v
        PROVE  (\E i \in DOMAIN o, l \in Lanes : o[i].hit_charge[l] # 0 /\ v = TPOf(o[i], l, s))
                 <=> \/ \E i \in DOMAIN output, l \in Lanes :
                          output[i].hit_charge[l] # 0 /\ v = TPOf(output[i], l, s)
                     \/ \E l \in Lanes : r.hit_charge[l] # 0 /\ v = TPOf(r, l, s)
    <3>1. \A i \in DOMAIN o : i \in DOMAIN output \/ i = n + 1
      BY <2>2
    <3>2. n + 1 \in DOMAIN o /\ \A i \in DOMAIN output : i \in DOMAIN o
      BY <2>2
    <3>3. ASSUME NEW i \in DOMAIN o, NEW l \in Lanes, o[i].hit_charge[l] # 0, v = TPOf(o[i], l, s)
          PROVE  \/ \E j \in DOMAIN output, m \in Lanes :
                          output[j].hit_charge[m] # 0 /\ v = TPOf(output[j], m, s)
                 \/ \E m \in Lanes : r.hit_charge[m] # 0 /\ v = TPOf(r, m, s)
      <4>1. CASE i \in DOMAIN output
        <5>1. o[i] = output[i]
          BY <2>2, <4>1
        <5> QED
          BY <3>3, <4>1, <5>1
      <4>2. CASE i = n + 1
        BY <2>2, <3>3, <4>2
      <4> QED
        BY <3>1, <4>1, <4>2
    <3>4. ASSUME NEW i \in DOMAIN output, NEW l \in Lanes,
                 output[i].hit_charge[l] # 0, v = TPOf(output[i], l, s)
          PROVE  \E j \in DOMAIN o, m \in Lanes : o[j].hit_charge[m] # 0 /\ v = TPOf(o[j], m, s)
      <4>1. o[i] = output[i] /\ i \in DOMAIN o
        BY <2>2, <3>2
      <4> QED
        BY <3>4, <4>1
    <3>5. ASSUME NEW l \in Lanes, r.hit_charge[l] # 0, v = TPOf(r, l, s)
          PROVE  \E j \in DOMAIN o, m \in Lanes : o[j].hit_charge[m] # 0 /\ v = TPOf(o[j], m, s)
      BY <2>2, <3>2, <3>5
    <3> QED
      BY <3>3, <3>4, <3>5
  <2>4. ASSUME NEW v
        PROVE  (\E l \in Lanes : r.hit_charge[l] # 0 /\ v = TPOf(r, l, s))
                 <=> \E l \in Lanes : /\ LeftNow(over)[l] /\ NewCharge(over, add)[l] % (2 * Half) # 0
                                      /\ v = TPNow(over, add, l)
    BY <1>1
  <2>5. \A v : v \in Range(process_swtpg_hits(o, s))
                 <=> \/ v \in Range(process_swtpg_hits(output, s))
                     \/ \E l \in Lanes : /\ LeftNow(over)[l] /\ NewCharge(over, add)[l] % (2 * Half) # 0
                                         /\ v = TPNow(over, add, l)
    <3> SUFFICES ASSUME NEW v
                 PROVE  v \in Range(process_swtpg_hits(o, s))
                          <=> \/ v \in Range(process_swtpg_hits(output, s))
                              \/ \E l \in Lanes : /\ LeftNow(over)[l] /\ NewCharge(over, add)[l] % (2 * Half) # 0
                                                  /\ v = TPNow(over, add, l)
      OBVIOUS
    <3> DEFINE P == v \in Range(process_swtpg_hits(o, s))
               Q == v \in Range(process_swtpg_hits(output, s))
    <3>1. P <=> \E i \in DOMAIN o, l \in Lanes : o[i].hit_charge[l] # 0 /\ v = TPOf(o[i], l, s)
      BY <1>2
    <3>2. Q <=> \E i \in DOMAIN output, l \in Lanes :
                  output[i].hit_charge[l] # 0 /\ v = TPOf(output[i], l, s)
      BY <1>3
    <3> HIDE DEF P, Q
    <3>3. P <=> Q \/ \E l \in Lanes : r.hit_charge[l] # 0 /\ v = TPOf(r, l, s)
      BY <2>3, <3>1, <3>2
    <3>4. P <=> Q \/ \E l \in Lanes : /\ LeftNow(over)[l] /\ NewCharge(over, add)[l] % (2 * Half) # 0
                                      /\ v = TPNow(over, add, l)
      BY <2>4, <3>3
    <3> QED
      BY <3>4 DEF P, Q
  <2> QED
    BY <1>o, <1>s, <2>5
<1>6. CASE ~\E l \in Lanes : LeftNow(over)[l]
  <2>1. NewOutput(over, add) = output
    BY <1>6 DEF NewOutput
  <2> QED
    BY <1>6, <2>1
<1> QED
  BY <1>5, <1>6

LEMMA OrderedNew ==
  ASSUME HitType, NEW over \in [Lanes -> BOOLEAN], NEW add \in [Lanes -> Int],
         Ordered(output, now % WindowFrames)
  PROVE  /\ NewOutput(over, add) \in Seq(Registers)
         /\ Ordered(NewOutput(over, add), (now % WindowFrames) + 1)
<1>t. PICK t \in 0 .. WindowFrames - 1 : t = now % WindowFrames
  BY BeganType
<1>0. t \in Int /\ WindowFrames \in Int
  BY Constants
<1>r. PICK r \in Registers : r = NewRegister(over, add)
  BY NewTypes
<1>1. output \in Seq(Registers) /\ \A i \in DOMAIN output : output[i].timenow \in Int
  <2>1. output \in Seq(Registers)
    BY DEF HitType
  <2>2. ASSUME NEW i \in DOMAIN output PROVE output[i].timenow \in Int
    <3>1. output[i] \in Registers
      BY <2>1
    <3> QED
      BY <1>0, <3>1 DEF Registers
  <2> QED
    BY <2>1, <2>2
<1>2. CASE \E l \in Lanes : LeftNow(over)[l]
  <2>n. PICK n \in Nat : n = Len(output)
    BY <1>1
  <2>o. PICK o : o = NewOutput(over, add)
    OBVIOUS
  <2>1. o = Append(output, r)
    BY <1>2, <1>r, <2>o DEF NewOutput
  <2>2. /\ DOMAIN output = 1 .. n /\ DOMAIN o = 1 .. n + 1
        /\ \A i \in 1 .. n : o[i] = output[i]
        /\ o[n + 1] = r /\ o \in Seq(Registers)
    BY <1>1, <2>1, <2>n
  <2>3. r.timenow = t
    BY <1>r, <1>t DEF NewRegister
  <2>4. ASSUME NEW i \in DOMAIN o PROVE o[i].timenow < t + 1
    <3>1. CASE i = n + 1
      BY <1>0, <2>2, <2>3, <3>1
    <3>2. CASE i # n + 1
      <4>1. i \in DOMAIN output /\ o[i] = output[i]
        BY <2>2, <3>2
      <4>2. output[i].timenow \in Int /\ output[i].timenow < t
        BY <1>1, <1>t, <4>1 DEF Ordered
      <4> QED
        BY <1>0, <4>1, <4>2
    <3> QED
      BY <3>1, <3>2
  <2>5. ASSUME NEW i \in DOMAIN o, NEW j \in DOMAIN o, i < j PROVE o[i].timenow < o[j].timenow
    <3>1. i \in DOMAIN output /\ o[i] = output[i]
      BY <2>2, <2>5
    <3>2. CASE j = n + 1
      BY <1>t, <2>2, <2>3, <3>1, <3>2 DEF Ordered
    <3>3. CASE j # n + 1
      <4>1. j \in DOMAIN output /\ o[j] = output[j]
        BY <2>2, <3>3
      <4> QED
        BY <2>5, <3>1, <4>1 DEF Ordered
    <3> QED
      BY <3>2, <3>3
  <2> QED
    BY <1>t, <2>2, <2>4, <2>5, <2>o DEF Ordered
<1>3. CASE ~\E l \in Lanes : LeftNow(over)[l]
  <2>1. NewOutput(over, add) = output
    BY <1>3 DEF NewOutput
  <2>2. \A i \in DOMAIN output : output[i].timenow < t + 1
    <3> SUFFICES ASSUME NEW i \in DOMAIN output PROVE output[i].timenow < t + 1
      OBVIOUS
    <3>1. output[i].timenow \in Int /\ output[i].timenow < t
      BY <1>1, <1>t DEF Ordered
    <3> QED
      BY <1>0, <3>1
  <2> QED
    BY <1>1, <1>t, <2>1, <2>2 DEF Ordered
<1> QED
  BY <1>2, <1>3

----------------------------------------------------------------------------
(* The invariant: what a channel keeps is the stretch it is in, the        *)
(* registers and the TPs are the stretches that have ended.                *)
HInv ==
  /\ HitType
  /\ \A l \in Lanes : \E a \in 0 .. now : OpenSince(l, a)
  /\ Ordered(output, now % WindowFrames)
  /\ IsInjective(tps)
  /\ \A k \in DOMAIN tps :
       /\ k[1] \in Int /\ k[1] < Began /\ tps[k].start \in Int /\ tps[k].tover \in Int
       /\ tps[k].start + tps[k].tover < Began
  /\ Handed = UNION {Charged0(Runs(l)) : l \in Lanes}

LEMMA ChargedRunsStep ==
  ASSUME HInv, NEW over \in [Lanes -> BOOLEAN], NEW add \in [Lanes -> Int], Seen(over, add),
         NEW l \in Lanes
  PROVE  \A v : v \in Charged0(Runs(l))'
                  <=> \/ v \in Charged0(Runs(l))
                      \/ /\ LeftNow(over)[l] /\ NewCharge(over, add)[l] % (2 * Half) # 0
                         /\ v = TPNow(over, add, l)
<1>1. Runs(l)' = Runs(l) \cup (IF LeftNow(over)[l] THEN {TPNow(over, add, l)} ELSE {})
  <2>1. HitType /\ \E a \in 0 .. now : OpenSince(l, a)
    BY DEF HInv
  <2> QED
    BY <2>1, RunsStep
<1>2. TPNow(over, add, l).charge = NewCharge(over, add)[l] % (2 * Half)
  BY DEF TPNow
<1>3. Charged0(Runs(l))' = {h \in Runs(l)' : h.charge # 0}
  BY DEF Charged0
<1>4. Charged0(Runs(l)) = {h \in Runs(l) : h.charge # 0}
  BY DEF Charged0
<1> QED
  BY <1>1, <1>2, <1>3, <1>4

LEMMA HandedStep ==
  ASSUME HInv, NEW over \in [Lanes -> BOOLEAN], NEW add \in [Lanes -> Int], Seen(over, add),
         Handed' = Range(tps) \cup Range(process_swtpg_hits(NewOutput(over, add), Began))
  PROVE  Handed' = UNION {Charged0(Runs(l))' : l \in Lanes}
<1>1. HitType
  BY DEF HInv
<1>2. \A v : v \in Handed <=> \E l \in Lanes : v \in Charged0(Runs(l))
  BY DEF HInv
<1>3. \A v : v \in Handed' <=> \/ v \in Range(tps)
                               \/ v \in Range(process_swtpg_hits(NewOutput(over, add), Began))
  OBVIOUS
<1>4. \A v : v \in Handed' <=> \/ v \in Handed
                               \/ \E l \in Lanes : /\ LeftNow(over)[l]
                                                   /\ NewCharge(over, add)[l] % (2 * Half) # 0
                                                   /\ v = TPNow(over, add, l)
  BY <1>1, <1>3, HandedNew DEF Handed
<1>5. \A v : v \in Handed' <=> \E l \in Lanes : v \in Charged0(Runs(l))'
  BY <1>2, <1>4, ChargedRunsStep
<1> QED
  BY <1>5

LEMMA HInvStep ==
  ASSUME HInv, NEW over \in [Lanes -> BOOLEAN], NEW add \in [Lanes -> Int], Seen(over, add)
  PROVE  HInv'
<1>0. HitType /\ Ordered(output, now % WindowFrames) /\ IsInjective(tps)
  BY DEF HInv
<1>1. HitType'
  BY <1>0, SeenType
<1>n. PICK n \in Nat : n = now
  BY <1>0, BeganType
<1>w. PICK w \in Nat : w = WindowFrames /\ w > 0
  BY <1>0, BeganType
<1>b. PICK b \in Nat : b = Began /\ n = b + (n % w) /\ n % w \in 0 .. w - 1
  BY <1>0, <1>n, <1>w, BeganType
<1>2. now' = n + 1
  BY <1>n DEF Seen
<1>o. PICK o \in Seq(Registers) : o = NewOutput(over, add) /\ Ordered(o, (n % w) + 1)
  BY <1>0, <1>n, <1>w, OrderedNew
<1>3. \A l \in Lanes : \E a \in 0 .. n + 1 : OpenSince(l, a)'
  <2> SUFFICES ASSUME NEW l \in Lanes PROVE \E a \in 0 .. n + 1 : OpenSince(l, a)'
    OBVIOUS
  <2>1. PICK a \in 0 .. n : OpenSince(l, a)
    BY <1>n DEF HInv
  <2>2. CASE over[l]
    <3>1. OpenSince(l, a)'
      BY <1>0, <1>n, <2>1, <2>2, OpenStep
    <3>2. a \in 0 .. n + 1
      OBVIOUS
    <3> QED
      BY <3>1, <3>2
  <2>3. CASE ~over[l]
    <3>c. PICK c \in 0 .. n + 1 : c \in Nat /\ c = n + 1
      OBVIOUS
    <3>1. OpenSince(l, c)'
      BY <1>0, <1>n, <2>1, <2>3, <3>c, OpenStep
    <3> QED
      BY <3>1
  <2> QED
    BY <2>2, <2>3
<1>4. /\ IsInjective(process_swtpg_hits(o, b))
      /\ \A k \in FoundIn(o, b) :
           LET v == process_swtpg_hits(o, b)[k]
           IN  /\ v.start \in Int /\ v.tover \in Int
               /\ b <= v.start + v.tover /\ v.start + v.tover < b + w
  BY <1>o, <1>w, FoundInjective
<1>5. \A k \in DOMAIN tps :
        /\ k[1] \in Int /\ k[1] < b /\ tps[k].start \in Int /\ tps[k].tover \in Int
        /\ tps[k].start + tps[k].tover < b
  BY <1>b DEF HInv
<1>6. CASE n % w = w - 1
  <2>1. (n + 1) % w = 0
    BY <1>6, <1>w, NextInWindow
  <2>p. PICK p : p = process_swtpg_hits(o, b)
    OBVIOUS
  <2>2. output' = <<>> /\ tps' = Joined(tps, p)
    BY <1>6, <1>b, <1>n, <1>o, <1>w, <2>p DEF Seen, Began
  <2>3. now' % WindowFrames = 0 /\ Began' = n + 1 /\ n + 1 = b + w
    <3>1. n + 1 = b + w /\ (n + 1) - 0 = n + 1
      BY <1>6, <1>b
    <3> QED
      BY <1>2, <1>w, <2>1, <3>1 DEF Began
  <2>4. DOMAIN p = FoundIn(o, b)
    BY <2>p, FoundTP
  <2>5. \A k \in DOMAIN p : k[1] = b
    BY <2>4 DEF FoundIn
  <2>6. \A k \in DOMAIN tps : k \notin DOMAIN p
    <3> SUFFICES ASSUME NEW k \in DOMAIN tps, k[1] = b PROVE FALSE
      BY <2>5
    <3> QED
      BY <1>5
  <2>7. /\ DOMAIN tps' = DOMAIN tps \cup DOMAIN p
        /\ \A k \in DOMAIN tps : tps'[k] = tps[k]
        /\ \A k \in DOMAIN p : tps'[k] = p[k]
    BY <2>2, <2>6 DEF Joined
  <2>8. \A k \in DOMAIN p :
          /\ k[1] = b /\ p[k].start \in Int /\ p[k].tover \in Int
          /\ b <= p[k].start + p[k].tover /\ p[k].start + p[k].tover < b + w
    BY <1>4, <2>4, <2>5, <2>p
  <2>9. IsInjective(tps')
    <3> SUFFICES ASSUME NEW k \in DOMAIN tps', NEW m \in DOMAIN tps', tps'[k] = tps'[m]
                 PROVE  k = m
      BY DEF IsInjective
    <3>1. CASE k \in DOMAIN tps /\ m \in DOMAIN tps
      BY <1>0, <2>7, <3>1 DEF IsInjective
    <3>2. CASE k \in DOMAIN p /\ m \in DOMAIN p
      BY <1>4, <2>7, <2>p, <3>2 DEF IsInjective
    <3>3. ASSUME NEW x \in DOMAIN tps, NEW y \in DOMAIN p, tps[x] = p[y] PROVE FALSE
      <4>1. tps[x].start + tps[x].tover < b
        BY <1>5
      <4>2. b <= p[y].start + p[y].tover
        BY <2>8
      <4>3. /\ tps[x].start = p[y].start /\ tps[x].tover = p[y].tover
            /\ p[y].start \in Int /\ p[y].tover \in Int
        BY <2>8, <3>3
      <4> QED
        BY <4>1, <4>2, <4>3
    <3> QED
      BY <2>7, <3>1, <3>2, <3>3
  <2>10. \A k \in DOMAIN tps' :
           /\ k[1] \in Int /\ k[1] < n + 1 /\ tps'[k].start \in Int /\ tps'[k].tover \in Int
           /\ tps'[k].start + tps'[k].tover < n + 1
    <3> SUFFICES ASSUME NEW k \in DOMAIN tps'
                 PROVE  /\ k[1] \in Int /\ k[1] < n + 1 /\ tps'[k].start \in Int /\ tps'[k].tover \in Int
                        /\ tps'[k].start + tps'[k].tover < n + 1
      OBVIOUS
    <3>0. b < n + 1
      BY <1>b
    <3>1. CASE k \in DOMAIN tps
      <4>1. /\ k[1] \in Int /\ k[1] < b /\ tps[k].start \in Int /\ tps[k].tover \in Int
            /\ tps[k].start + tps[k].tover < b /\ tps'[k] = tps[k]
        BY <1>5, <2>7, <3>1
      <4>s. PICK x \in Int : x = tps[k].start + tps[k].tover
        BY <4>1
      <4>2. k[1] \in Int /\ k[1] < n + 1
        BY <3>0, <4>1
      <4> QED
        BY <3>0, <4>1, <4>2, <4>s
    <3>2. CASE k \in DOMAIN p
      BY <2>3, <2>7, <2>8, <3>0, <3>2
    <3> QED
      BY <2>7, <3>1, <3>2
  <2>11. Range(tps') = Range(tps) \cup Range(p)
    BY <2>7 DEF Range
  <2>12. Range(process_swtpg_hits(output', Began')) = {}
    <3>1. \A v : v \notin Range(process_swtpg_hits(output', Began'))
      <4>1. DOMAIN output' = {}
        BY <2>2
      <4>2. \A v : v \in Range(process_swtpg_hits(output', Began')) <=>
                     \E i \in DOMAIN output', l \in Lanes :
                       output'[i].hit_charge[l] # 0 /\ v = TPOf(output'[i], l, Began')
        BY FoundRange
      <4> QED
        BY <4>1, <4>2
    <3> QED
      BY <3>1
  <2>13. Handed' = Range(tps) \cup Range(p)
    <3>1. Handed' = Range(tps') \cup Range(process_swtpg_hits(output', Began'))
      BY DEF Handed
    <3> QED
      BY <2>11, <2>12, <3>1
  <2>14. Handed' = UNION {Charged0(Runs(l))' : l \in Lanes}
    BY <1>b, <1>o, <2>13, <2>p, HandedStep
  <2>15. Ordered(output', 0)
    BY <2>2 DEF Ordered
  <2> QED
    BY <1>1, <1>2, <1>3, <2>3, <2>9, <2>10, <2>14, <2>15 DEF HInv
<1>7. CASE n % w # w - 1
  <2>1. (n + 1) % w = (n % w) + 1
    BY <1>7, <1>w, NextInWindow
  <2>2. output' = o /\ tps' = tps
    BY <1>7, <1>n, <1>o, <1>w DEF Seen
  <2>3. now' % WindowFrames = (n % w) + 1 /\ Began' = b
    <3>r. PICK r \in Nat : r = n % w
      BY <1>b
    <3>1. (n + 1) - (r + 1) = b
      BY <1>b, <3>r
    <3> QED
      BY <1>2, <1>w, <2>1, <3>1, <3>r DEF Began
  <2>4. Handed' = Range(tps) \cup Range(process_swtpg_hits(o, b))
    BY <2>2, <2>3 DEF Handed
  <2>5. Handed' = UNION {Charged0(Runs(l))' : l \in Lanes}
    BY <1>b, <1>o, <2>4, HandedStep
  <2> QED
    BY <1>0, <1>1, <1>2, <1>3, <1>5, <1>o, <2>2, <2>3, <2>5 DEF HInv
<1> QED
  BY <1>6, <1>7

LEMMA SamplesInt == UNION Range(ADCs) \subseteq 0 .. Half - 1
<1>1. ADCs \in [Lanes -> SUBSET (0 .. Half - 1)]
  BY HitFinderAssumption DEF Lanes
<1>2. ASSUME NEW a \in Range(ADCs) PROVE a \subseteq 0 .. Half - 1
  <2>1. PICK l \in Lanes : a = ADCs[l]
    BY <1>1 DEF Range
  <2> QED
    BY <1>1, <2>1
<1> QED
  BY <1>2

LEMMA InitHits == Init => HInv
<1> SUFFICES ASSUME Init PROVE HInv
  OBVIOUS
<1>1. PICK ped \in [Lanes -> UNION Range(ADCs)] : chan = [l \in Lanes |-> setState(ChanState, ped[l])]
  BY DEF Init
<1>2. now = 0 /\ output = <<>> /\ tps = <<>> /\ trace = <<>>
  BY DEF Init
<1>3. ASSUME NEW l \in Lanes
      PROVE  /\ chan[l] \in Chan /\ chan[l].prev_was_over = FALSE
             /\ chan[l].hit_tover = 0 /\ chan[l].hit_charge = 0
  <2>p. PICK p \in Int : p = ped[l]
    <3>1. ped[l] \in 0 .. Half - 1
      BY SamplesInt
    <3> QED
      BY <3>1, Constants
  <2>s. p - Spread \in Int /\ p + Spread \in Int /\ Int16 \subseteq Int
    BY Constants DEF Int16
  <2>x. PICK x \in Int : x = Wrap(p - Spread)
    BY <2>s, WrapType
  <2>y. PICK y \in Int : y = Wrap(p + Spread)
    BY <2>s, WrapType
  <2>2. 0 \in Int16 /\ 0 \in 0 .. Half - 1
    BY Constants DEF Int16
  <2>z. PICK z : z = [j \in 0 .. Len(Taps) - 1 |-> 0]
    OBVIOUS
  <2>3. z \in [0 .. Len(Taps) - 1 -> Int]
    BY <2>z
  <2>c. PICK c : c = ChanState
    OBVIOUS
  <2>4. c \in Chan /\ c.prev_was_over = FALSE /\ c.hit_charge = 0 /\ c.hit_tover = 0
    BY <2>2, <2>3, <2>c, <2>z DEF ChanState, Chan
  <2>5. chan[l] = [c EXCEPT !.pedestal = p, !.quantile25 = x, !.quantile75 = y]
    BY <1>1, <2>c, <2>p, <2>x, <2>y DEF setState
  <2> QED
    BY <2>4, <2>5 DEF Chan
<1>4. HitType
  <2>1. chan \in [Lanes -> Chan]
    BY <1>1, <1>3
  <2>2. TraceType
    BY <1>2 DEF TraceType
  <2>3. output \in Seq(Registers)
    BY <1>2
  <2> QED
    BY <2>1, <2>2, <2>3 DEF HitType
<1>5. now % WindowFrames = 0 /\ Began = 0
  <2>w. PICK w \in Nat : w = WindowFrames /\ w > 0
    BY Constants
  <2>1. 0 % w = 0
    BY <2>w
  <2> QED
    BY <1>2, <2>1, <2>w DEF Began
<1>6. ASSUME NEW l \in Lanes PROVE OpenSince(l, 0)
  <2>1. ChargeFrom(l, 0)[0] = 0
    <3>1. 0 \in 0 .. now
      BY <1>2
    <3> QED
      BY <1>4, <3>1, ChargeValues DEF HitType
  <2>2. Lower(0, Half - 1) = 0
    BY Constants DEF Lower
  <2>3. \A t \in 0 .. 0 - 1 : FALSE
    OBVIOUS
  <2>4. /\ chan[l].prev_was_over = FALSE /\ ~(0 < 0) /\ 0 - 0 = 0
        /\ chan[l].hit_tover = 0 /\ chan[l].hit_charge = 0
    <3>1. ~(0 < 0) /\ 0 - 0 = 0
      OBVIOUS
    <3> QED
      BY <1>3, <3>1
  <2> QED
    <3>1. (0 < now) = FALSE /\ now - 0 = 0
      BY <1>2
    <3>2. chan[l].prev_was_over = (0 < now)
      BY <2>4, <3>1
    <3> QED
      BY <1>2, <2>1, <2>2, <2>3, <2>4, <3>1, <3>2 DEF OpenSince
<1>7. \A l \in Lanes : \E a \in 0 .. now : OpenSince(l, a)
  BY <1>2, <1>6
<1>8. DOMAIN tps = {} /\ DOMAIN output = {}
  BY <1>2
<1>9. Ordered(output, 0) /\ IsInjective(tps)
  BY <1>8 DEF Ordered, IsInjective
<1>10. Handed = {}
  <2>1. Range(tps) = {}
    BY <1>8 DEF Range
  <2>2. \A v : v \in Range(process_swtpg_hits(output, Began)) <=>
                 \E i \in DOMAIN output, l \in Lanes :
                   output[i].hit_charge[l] # 0 /\ v = TPOf(output[i], l, Began)
    BY FoundRange
  <2> QED
    BY <1>8, <2>1, <2>2 DEF Handed
<1>11. ASSUME NEW l \in Lanes PROVE Charged0(Runs(l)) = {}
  <2>1. Stretches(l) = {}
    BY <1>2 DEF Stretches
  <2> QED
    BY <2>1 DEF Runs, Charged0
<1>12. Handed = UNION {Charged0(Runs(l)) : l \in Lanes}
  BY <1>10, <1>11
<1> QED
  BY <1>4, <1>5, <1>7, <1>8, <1>9, <1>12 DEF HInv

LEMMA NextHits == HInv /\ [Next]_vars => HInv'
<1> SUFFICES ASSUME HInv, [Next]_vars PROVE HInv'
  OBVIOUS
<1>1. CASE Next
  <2>1. PICK adcs \in [Lanes -> UNION Range(ADCs)] : Sample(adcs)
    BY <1>1 DEF Next
  <2>2. adcs \in [Lanes -> Int]
    <3>1. 0 .. Half - 1 \subseteq Int
      BY Constants
    <3> QED
      BY <3>1, SamplesInt
  <2>f. PICK f : f = Finder(chan, adcs)
    OBVIOUS
  <2>3. /\ OverOf(f) \in [Lanes -> BOOLEAN] /\ AddOf(f) \in [Lanes -> Int]
        /\ Seen(OverOf(f), AddOf(f))
    BY <2>1, <2>2, <2>f, SampleSeen DEF HInv
  <2> QED
    BY <2>3, HInvStep
<1>2. CASE UNCHANGED vars
  <2>1. UNCHANGED <<now, output, tps, trace, chan>>
    BY <1>2 DEF vars
  <2>2. HitType'
    BY <2>1 DEF HInv, HitType, TraceType
  <2>3. Began' = Began /\ Ordered(output, now % WindowFrames)'
    BY <2>1 DEF HInv, Ordered, Began
  <2>4. \A l, a : ChargeFrom(l, a)' = ChargeFrom(l, a)
    BY <2>1 DEF ChargeFrom
  <2>5. \A l, t : Over(l, t)' = Over(l, t)
    BY <2>1 DEF Over
  <2>6. ASSUME NEW l \in Lanes PROVE \E a \in 0 .. now' : OpenSince(l, a)'
    <3>1. PICK a \in 0 .. now : OpenSince(l, a)
      BY DEF HInv
    <3> QED
      BY <2>1, <2>4, <2>5, <3>1 DEF OpenSince
  <2>7. ASSUME NEW l \in Lanes PROVE Runs(l)' = Runs(l)
    <3>1. Stretches(l)' = Stretches(l)
      BY <2>1, <2>5 DEF Stretches
    <3>2. \A r : HitOf(l, r)' = HitOf(l, r)
      BY <2>4 DEF HitOf
    <3> QED
      BY <3>1, <3>2 DEF Runs
  <2>8. Handed' = Handed
    BY <2>1, <2>3 DEF Handed
  <2>9. Handed' = UNION {Charged0(Runs(l))' : l \in Lanes}
    <3>1. \A l \in Lanes : Charged0(Runs(l))' = Charged0(Runs(l))
      BY <2>7 DEF Charged0
    <3> QED
      BY <2>8, <3>1 DEF HInv
  <2> QED
    BY <2>1, <2>2, <2>3, <2>6, <2>9 DEF HInv
<1> QED
  BY <1>1, <1>2

(* At the end of a window its registers were handed over.                  *)
LEMMA DoneEmpty ==
  ASSUME HInv, WindowDone
  PROVE  Range(process_swtpg_hits(output, Began)) = {}
<1>1. now % WindowFrames = 0
  BY DEF WindowDone
<1>2. DOMAIN output = {}
  <2> SUFFICES ASSUME NEW i \in DOMAIN output PROVE FALSE
    OBVIOUS
  <2>1. output[i] \in Registers
    BY DEF HInv, HitType
  <2>t. PICK t \in 0 .. WindowFrames - 1 : t = output[i].timenow
    BY <2>1 DEF Registers
  <2>2. t < 0
    BY <1>1, <2>t DEF HInv, Ordered
  <2> QED
    BY <2>2, Constants
<1>3. \A v : v \in Range(process_swtpg_hits(output, Began)) <=>
               \E i \in DOMAIN output, l \in Lanes :
                 output[i].hit_charge[l] # 0 /\ v = TPOf(output[i], l, Began)
  BY FoundRange
<1> QED
  BY <1>2, <1>3

LEMMA HitsFollow == HInv => TPsMatchHits
<1> SUFFICES ASSUME HInv, WindowDone
             PROVE  /\ IsInjective(tps)
                    /\ Range(tps) = UNION {Charged0(Runs(l)) : l \in Lanes}
  BY DEF TPsMatchHits
<1>1. Range(process_swtpg_hits(output, Began)) = {}
  BY DoneEmpty
<1> QED
  BY <1>1 DEF HInv, Handed

(* The invariant of the hit finders: a channel keeps the stretch of        *)
(* samples over threshold it is in, with its charge; the trigger           *)
(* primitives and the registers of the window are the stretches that have  *)
(* ended, each of them once.                                               *)
THEOREM HitInvariant == Spec => []HInv
BY InitHits, NextHits, PTL DEF Spec

(* With any finder, every stretch of samples over threshold that has       *)
(* ended is one trigger primitive of its channel with its own start,       *)
(* length and charge, once its window was handed on, also when it reaches  *)
(* over windows; only those whose charge comes to nothing are lost.        *)
THEOREM TPsMatchHitsTheorem == Spec => []TPsMatchHits
BY HitInvariant, HitsFollow, PTL

----------------------------------------------------------------------------
(* The scalar finder.  While every interquartile range is from 0 to the    *)
(* clamp and no stretch is so long that its length saturates, it keeps the *)
(* same of every channel as the vector finder.  The bounds that takes: the *)
(* threshold is the 5 the scalar finder has written in it, 2^15 is not a   *)
(* multiple of 5 * 64, and an accumulator fits its 16 bits.                *)
ScalarBounds ==
  /\ Threshold = 5 /\ AccLimit + 1 < Half
  /\ Half % (multiplier * 5) # 0

LEMMA FrugalAgrees ==
  ASSUME ScalarBounds, NEW m \in Int16, NEW s \in 0 .. Half - 1, NEW acc \in -AccLimit .. AccLimit
  PROVE  /\ frugal_accum_update_avx2(m, s, acc, TRUE) = frugal_accum_update(m, s, acc)
         /\ frugal_accum_update(m, s, acc)[1] \in Int16
         /\ m \in 0 .. Half - 1 => frugal_accum_update(m, s, acc)[1] \in 0 .. Half - 1
         /\ frugal_accum_update(m, s, acc)[2] \in -AccLimit .. AccLimit
<1>h. PICK h \in Nat : h = Half /\ h > 0
  BY Constants
<1>L. PICK L \in Nat : L = AccLimit /\ L + 1 < h
  BY <1>h, Constants DEF ScalarBounds
<1>m. m \in -h .. h - 1 /\ s \in 0 .. h - 1 /\ acc \in -L .. L
  BY <1>h, <1>L DEF Int16
<1>d. PICK d \in -1 .. 1 : /\ d = IF s > m THEN 1 ELSE IF s = m THEN 0 ELSE -1
                           /\ d = 1 => s > m
                           /\ d = -1 => s < m
  BY <1>m
<1>a. PICK a \in -(L + 1) .. L + 1 : a = acc + d
  BY <1>m
<1>1. Wrap(acc + d) = a
  <2>1. a \in Int16
    BY <1>h, <1>L DEF Int16
  <2> QED
    BY <1>a, <2>1, WrapExact
<1>2. acc + (IF s > m THEN 1 ELSE 0) - (IF s < m THEN 1 ELSE 0) = a
  BY <1>a, <1>d, <1>m
<1>3. frugal_accum_update(m, s, acc)
        = IF a > L THEN <<m + 1, 0>> ELSE IF a < -L THEN <<m - 1, 0>> ELSE <<m, a>>
  BY <1>2, <1>L DEF frugal_accum_update
<1>t. PICK t : t = IF a > L THEN 1 ELSE IF -a > L THEN -1 ELSE 0
  OBVIOUS
<1>4. frugal_accum_update_avx2(m, s, acc, TRUE) = IF t # 0 THEN <<Sat(m + t), 0>> ELSE <<m, a>>
  BY <1>1, <1>d, <1>t, <1>L DEF frugal_accum_update_avx2, Accumulated
<1>5. ASSUME NEW x, NEW y, frugal_accum_update(m, s, acc) = <<x, y>>,
             frugal_accum_update_avx2(m, s, acc, TRUE) = <<x, y>>,
             x \in Int16, m \in 0 .. h - 1 => x \in 0 .. h - 1, y \in -L .. L
      PROVE  /\ frugal_accum_update_avx2(m, s, acc, TRUE) = frugal_accum_update(m, s, acc)
             /\ frugal_accum_update(m, s, acc)[1] \in Int16
             /\ m \in 0 .. Half - 1 => frugal_accum_update(m, s, acc)[1] \in 0 .. Half - 1
             /\ frugal_accum_update(m, s, acc)[2] \in -AccLimit .. AccLimit
  <2>r. PICK r : r = <<x, y>>
    OBVIOUS
  <2>0. r[1] = x /\ r[2] = y
    BY <2>r
  <2>1. frugal_accum_update(m, s, acc) = r /\ frugal_accum_update_avx2(m, s, acc, TRUE) = r
    BY <1>5, <2>r
  <2> QED
    BY <1>5, <1>h, <1>L, <2>0, <2>1
<1>6. CASE a > L
  <2>1. d = 1 /\ t = 1
    BY <1>6, <1>a, <1>m, <1>t
  <2>x. PICK x \in Int : x = m + 1
    BY <1>m
  <2>2. x <= s /\ x \in Int16
    BY <1>d, <1>h, <1>m, <2>1, <2>x DEF Int16
  <2>3. Sat(x) = x
    BY <2>2, SatType
  <2>4. frugal_accum_update(m, s, acc) = <<x, 0>>
    BY <1>3, <1>6, <2>x
  <2>5. frugal_accum_update_avx2(m, s, acc, TRUE) = <<x, 0>>
    <3>1. m + t = x /\ t # 0
      BY <1>m, <2>1, <2>x
    <3> QED
      BY <1>4, <2>3, <3>1
  <2>6. 0 \in -L .. L /\ (m \in 0 .. h - 1 => x \in 0 .. h - 1)
    BY <1>m, <2>2, <2>x
  <2> QED
    BY <1>5, <2>2, <2>4, <2>5, <2>6
<1>7. CASE ~(a > L) /\ a < -L
  <2>1. d = -1 /\ t = -1
    BY <1>7, <1>a, <1>m, <1>t
  <2>x. PICK x \in Int : x = m - 1 /\ x = m + (-1)
    BY <1>m
  <2>2. s <= x /\ x \in Int16
    BY <1>d, <1>h, <1>m, <2>1, <2>x DEF Int16
  <2>3. Sat(x) = x
    BY <2>2, SatType
  <2>4. frugal_accum_update(m, s, acc) = <<x, 0>>
    BY <1>3, <1>7, <2>x
  <2>5. frugal_accum_update_avx2(m, s, acc, TRUE) = <<x, 0>>
    <3>1. m + t = x /\ t # 0
      BY <1>m, <2>1, <2>x
    <3> QED
      BY <1>4, <2>3, <3>1
  <2>6. 0 \in -L .. L /\ (m \in 0 .. h - 1 => x \in 0 .. h - 1)
    BY <1>m, <2>2, <2>x
  <2> QED
    BY <1>5, <2>2, <2>4, <2>5, <2>6
<1>8. CASE ~(a > L) /\ ~(a < -L)
  <2>1. t = 0 /\ a \in -L .. L
    BY <1>8, <1>t
  <2>2. frugal_accum_update(m, s, acc) = <<m, a>> /\ frugal_accum_update_avx2(m, s, acc, TRUE) = <<m, a>>
    BY <1>3, <1>4, <1>8, <2>1
  <2> QED
    BY <1>5, <2>1, <2>2
<1> QED
  BY <1>6, <1>7, <1>8

(* A lane the mask leaves out does not change.                             *)
LEMMA FrugalMasked ==
  ASSUME NEW m, NEW s, NEW acc
  PROVE  frugal_accum_update_avx2(m, s, acc, FALSE) = <<m, acc>>
BY DEF frugal_accum_update_avx2

(* The values of a channel from which the two finders go on alike.         *)
Steady(c) ==
  /\ c.pedestal \in 0 .. Half - 1 /\ c.quantile25 \in Int16 /\ c.quantile75 \in Int16
  /\ {c.accum, c.accum25, c.accum75} \subseteq -AccLimit .. AccLimit
  /\ c.hit_charge >= 0

ScalarPedestal(c, s) ==
  [c EXCEPT !.quantile25 = IF s < c.pedestal THEN frugal_accum_update(c.quantile25, s, c.accum25)[1] ELSE @,
            !.accum25    = IF s < c.pedestal THEN frugal_accum_update(c.quantile25, s, c.accum25)[2] ELSE @,
            !.quantile75 = IF s > c.pedestal THEN frugal_accum_update(c.quantile75, s, c.accum75)[1] ELSE @,
            !.accum75    = IF s > c.pedestal THEN frugal_accum_update(c.quantile75, s, c.accum75)[2] ELSE @,
            !.pedestal   = frugal_accum_update(c.pedestal, s, c.accum)[1],
            !.accum      = frugal_accum_update(c.pedestal, s, c.accum)[2]]

LEMMA PedestalsAgree ==
  ASSUME ScalarBounds, NEW c \in Chan, Steady(c), NEW s \in 0 .. Half - 1
  PROVE  /\ Median(Quartiles(c, s), s) = ScalarPedestal(c, s)
         /\ Steady(ScalarPedestal(c, s))
<1>1. /\ c.pedestal \in 0 .. Half - 1 /\ c.pedestal \in Int16
      /\ c.quantile25 \in Int16 /\ c.quantile75 \in Int16
      /\ c.accum \in -AccLimit .. AccLimit /\ c.accum25 \in -AccLimit .. AccLimit
      /\ c.accum75 \in -AccLimit .. AccLimit
      /\ c.hit_charge >= 0
  BY Constants DEF Steady, Int16
<1>p. PICK p : /\ p = frugal_accum_update(c.pedestal, s, c.accum)
               /\ p = frugal_accum_update_avx2(c.pedestal, s, c.accum, TRUE)
               /\ p[1] \in 0 .. Half - 1 /\ p[2] \in -AccLimit .. AccLimit
  BY <1>1, FrugalAgrees
<1>l. PICK lo : /\ lo = frugal_accum_update(c.quantile25, s, c.accum25)
                /\ lo = frugal_accum_update_avx2(c.quantile25, s, c.accum25, TRUE)
                /\ lo[1] \in Int16 /\ lo[2] \in -AccLimit .. AccLimit
  BY <1>1, FrugalAgrees
<1>u. PICK hi : /\ hi = frugal_accum_update(c.quantile75, s, c.accum75)
                /\ hi = frugal_accum_update_avx2(c.quantile75, s, c.accum75, TRUE)
                /\ hi[1] \in Int16 /\ hi[2] \in -AccLimit .. AccLimit
  BY <1>1, FrugalAgrees
<1>x. PICK x : /\ x = frugal_accum_update_avx2(c.quantile25, s, c.accum25, s < c.pedestal)
               /\ x[1] = (IF s < c.pedestal THEN lo[1] ELSE c.quantile25)
               /\ x[2] = (IF s < c.pedestal THEN lo[2] ELSE c.accum25)
  <2>0. (s < c.pedestal) \in BOOLEAN
    OBVIOUS
  <2>b. PICK b \in BOOLEAN : b = (s < c.pedestal)
    BY <2>0, Zenon
  <2>z. PICK z : z = frugal_accum_update_avx2(c.quantile25, s, c.accum25, b)
    OBVIOUS
  <2>1. b = TRUE => z = lo
    BY <1>l, <2>z
  <2>2. b = FALSE => z = <<c.quantile25, c.accum25>>
    BY <2>z, FrugalMasked
  <2>3. /\ z[1] = (IF b THEN lo[1] ELSE c.quantile25)
        /\ z[2] = (IF b THEN lo[2] ELSE c.accum25)
    BY <2>1, <2>2
  <2> QED
    BY <2>3, <2>b, <2>z
<1>y. PICK y : /\ y = frugal_accum_update_avx2(c.quantile75, s, c.accum75, s > c.pedestal)
               /\ y[1] = (IF s > c.pedestal THEN hi[1] ELSE c.quantile75)
               /\ y[2] = (IF s > c.pedestal THEN hi[2] ELSE c.accum75)
  <2>0. (s > c.pedestal) \in BOOLEAN
    OBVIOUS
  <2>b. PICK b \in BOOLEAN : b = (s > c.pedestal)
    BY <2>0, Zenon
  <2>z. PICK z : z = frugal_accum_update_avx2(c.quantile75, s, c.accum75, b)
    OBVIOUS
  <2>1. b = TRUE => z = hi
    BY <1>u, <2>z
  <2>2. b = FALSE => z = <<c.quantile75, c.accum75>>
    BY <2>z, FrugalMasked
  <2>3. /\ z[1] = (IF b THEN hi[1] ELSE c.quantile75)
        /\ z[2] = (IF b THEN hi[2] ELSE c.accum75)
    BY <2>1, <2>2
  <2> QED
    BY <2>3, <2>b, <2>z
<1>q. PICK q : q = [c EXCEPT !.quantile25 = x[1], !.accum25 = x[2], !.quantile75 = y[1], !.accum75 = y[2]]
  OBVIOUS
<1>2. Quartiles(c, s) = q
  BY <1>q, <1>x, <1>y DEF Quartiles
<1>3. q.pedestal = c.pedestal /\ q.accum = c.accum
  BY <1>q DEF Chan
<1>4. Median(q, s) = [q EXCEPT !.pedestal = p[1], !.accum = p[2]]
  BY <1>3, <1>p DEF Median
<1>5. ScalarPedestal(c, s) = [c EXCEPT !.quantile25 = x[1], !.accum25 = x[2], !.quantile75 = y[1],
                                       !.accum75 = y[2], !.pedestal = p[1], !.accum = p[2]]
  BY <1>l, <1>p, <1>u, <1>x, <1>y DEF ScalarPedestal, Chan
<1>6. [q EXCEPT !.pedestal = p[1], !.accum = p[2]]
        = [c EXCEPT !.quantile25 = x[1], !.accum25 = x[2], !.quantile75 = y[1],
                    !.accum75 = y[2], !.pedestal = p[1], !.accum = p[2]]
  BY <1>q DEF Chan
<1>7. /\ x[1] \in Int16 /\ y[1] \in Int16
      /\ x[2] \in -AccLimit .. AccLimit /\ y[2] \in -AccLimit .. AccLimit
  BY <1>1, <1>l, <1>u, <1>x, <1>y
<1>8. Steady(ScalarPedestal(c, s))
  <2>r. PICK r : r = ScalarPedestal(c, s)
    OBVIOUS
  <2>1. /\ r.pedestal = p[1] /\ r.quantile25 = x[1] /\ r.quantile75 = y[1]
        /\ r.accum = p[2] /\ r.accum25 = x[2] /\ r.accum75 = y[2]
        /\ r.hit_charge = c.hit_charge
    BY <1>5, <2>r DEF Chan
  <2> QED
    BY <1>1, <1>7, <1>p, <2>1, <2>r DEF Steady
<1> QED
  BY <1>2, <1>4, <1>5, <1>6, <1>8

(* A multiple of the interquartile range that fits 16 bits carries nothing *)
(* over to the next channel of the 64-bit element.                         *)
LEMMA ProductExact ==
  ASSUME NEW k \in Nat, NEW sigma \in [Lanes -> 0 .. Half - 1],
         \A l \in Lanes : sigma[l] * k \in 0 .. Half - 1
  PROVE  \A l \in Lanes : Times64(sigma, k)[l] = sigma[l] * k
<1>h. PICK h \in Nat : h = Half /\ h > 0
  BY Constants
<1>N. PICK N \in Nat : N = NumLanes /\ N > 0 /\ Lanes = 0 .. N - 1
  BY Constants DEF Lanes
<1> DEFINE U(x) == x % (2 * Half)
           F(f) == [l \in Lanes |-> IF l = 0 THEN 0 ELSE (U(sigma[l - 1]) * k + f[l - 1]) \div (2 * Half)]
<1>1. ASSUME NEW l \in Lanes PROVE U(sigma[l]) = sigma[l]
  <2>x. PICK x \in 0 .. h - 1 : x = sigma[l]
    BY <1>h
  <2>1. x % (2 * h) = x
    BY <1>h
  <2> QED
    BY <1>h, <2>1, <2>x
<1>2. ASSUME NEW l \in Lanes PROVE (U(sigma[l]) * k + 0) \div (2 * Half) = 0
  <2>x. PICK x \in 0 .. h - 1 : x = U(sigma[l]) * k
    BY <1>1, <1>h
  <2>1. x \div (2 * h) = 0
    BY <1>h
  <2> QED
    BY <1>h, <2>1, <2>x
<1> HIDE DEF U
<1>z. PICK z : z = [l \in Lanes |-> 0]
  OBVIOUS
<1>3. \A l \in Lanes : l # 0 => l - 1 \in Lanes
  BY <1>N
<1>4. z = F(z)
  <2>1. ASSUME NEW l \in Lanes
        PROVE  0 = IF l = 0 THEN 0 ELSE (U(sigma[l - 1]) * k + z[l - 1]) \div (2 * Half)
    <3>1. CASE l # 0
      <4>1. z[l - 1] = 0
        BY <1>3, <1>z, <3>1
      <4> QED
        BY <1>2, <1>3, <3>1, <4>1
    <3> QED
      BY <3>1
  <2> QED
    BY <1>z, <2>1
<1>f. PICK f : f = (CHOOSE g : g = F(g)) /\ f = F(f)
  BY <1>4
<1>5. Times64(sigma, k) = [l \in Lanes |-> Wrap(U(sigma[l]) * k + f[l])]
  BY <1>f DEF Times64, U
<1>6. 0 \in Lanes => f[0] = 0
  <2> SUFFICES ASSUME 0 \in Lanes PROVE f[0] = 0
    OBVIOUS
  <2>1. F(f)[0] = 0
    OBVIOUS
  <2> HIDE DEF F
  <2> QED
    BY <1>f, <2>1
<1>7. ASSUME NEW l \in Lanes, l # 0 PROVE f[l] = (U(sigma[l - 1]) * k + f[l - 1]) \div (2 * Half)
  <2>1. F(f)[l] = (U(sigma[l - 1]) * k + f[l - 1]) \div (2 * Half)
    BY <1>7
  <2> HIDE DEF F
  <2> QED
    BY <1>f, <2>1
<1> HIDE DEF F
<1> DEFINE S == {n \in Nat : n \in Lanes => f[n] = 0}
<1>8. 0 \in S
  BY <1>6
<1>9. \A n \in Nat : n \in S => n + 1 \in S
  <2> SUFFICES ASSUME NEW n \in Nat, n \in S, n + 1 \in Lanes PROVE f[n + 1] = 0
    OBVIOUS
  <2>1. n \in Lanes /\ n + 1 # 0 /\ (n + 1) - 1 = n
    BY <1>N
  <2>2. f[n] = 0
    BY <2>1
  <2>3. f[n + 1] = (U(sigma[n]) * k + f[n]) \div (2 * Half)
    BY <1>7, <2>1
  <2> QED
    BY <1>2, <2>1, <2>2, <2>3
<1>10. \A l \in Lanes : f[l] = 0
  <2>1. Nat \subseteq S
    <3> HIDE DEF S
    <3> QED
      BY <1>8, <1>9, SetInduction
  <2> QED
    BY <1>N, <2>1
<1>11. ASSUME NEW l \in Lanes PROVE Times64(sigma, k)[l] = sigma[l] * k
  <2>x. PICK x \in 0 .. h - 1 : x = sigma[l] * k
    BY <1>h
  <2>1. Times64(sigma, k)[l] = Wrap(U(sigma[l]) * k + 0)
    BY <1>5, <1>10
  <2>2. U(sigma[l]) * k + 0 = x
    BY <1>1, <2>x
  <2>3. x \in Int16
    BY <1>h DEF Int16
  <2> QED
    BY <2>1, <2>2, <2>3, <2>x, WrapExact
<1> QED
  BY <1>11

(* The threshold of the scalar finder, and that of the vector finder.      *)
LEMMA LimitsAgree ==
  ASSUME ScalarBounds, NEW ped, \A l \in Lanes : Sigma(ped[l]) \in 0 .. sigmaMax(5)
  PROVE  \A l \in Lanes :
           /\ Times64(Clamped(ped, 5), multiplier * Threshold)[l] = 5 * Sigma(ped[l]) * multiplier
           /\ 5 * Sigma(ped[l]) * multiplier >= 0
<1>h. PICK h \in Nat : h = Half /\ h > 0
  BY Constants
<1>m. PICK m \in Nat : m = multiplier /\ m > 0
  BY Constants
<1>k. PICK k \in Nat : k = m * 5 /\ k > 0
  BY <1>m
<1>M. PICK M \in Nat : M = h \div k
  BY <1>h, <1>k
<1>1. M * k < h
  <2>1. h = M * k + (h % k) /\ h % k \in 0 .. k - 1
    BY <1>M, <1>k
  <2>2. h % k # 0
    BY <1>h, <1>k, <1>m DEF ScalarBounds
  <2>3. M * k \in Nat
    OBVIOUS
  <2> QED
    BY <2>1, <2>2, <2>3
<1>2. M < h
  <2>1. M <= M * k
    BY <1>k
  <2> QED
    BY <1>1, <2>1
<1>3. sigmaMax(5) = M
  <2>1. M \in Int16
    BY <1>2, <1>h DEF Int16
  <2>2. sigmaMax(5) = Wrap(M)
    BY <1>h, <1>k, <1>m, <1>M DEF sigmaMax
  <2> QED
    BY <2>1, <2>2, WrapExact
<1>s. PICK s : s = Clamped(ped, 5)
  OBVIOUS
<1>4. ASSUME NEW l \in Lanes
      PROVE  s[l] = Sigma(ped[l]) /\ s[l] \in 0 .. M
  <2>x. PICK x \in 0 .. M : x = Sigma(ped[l])
    BY <1>3
  <2>1. s[l] = Lower(x, M)
    BY <1>3, <1>s, <2>x DEF Clamped
  <2> QED
    BY <2>1, <2>x DEF Lower
<1>5. s \in [Lanes -> 0 .. h - 1]
  <2>1. s = [l \in Lanes |-> s[l]]
    BY <1>s DEF Clamped
  <2>2. \A l \in Lanes : s[l] \in 0 .. h - 1
    BY <1>2, <1>4
  <2> QED
    BY <2>1, <2>2
<1>6. ASSUME NEW l \in Lanes PROVE s[l] * k \in 0 .. h - 1
  <2>x. PICK x \in 0 .. M : x = s[l]
    BY <1>4
  <2>1. x * k <= M * k /\ x * k >= 0
    <3>y. PICK y \in Nat : y = M - x
      BY <2>x
    <3>0. M = x + y
      BY <3>y
    <3>1. M * k = x * k + y * k
      BY <3>0
    <3>2. y * k >= 0 /\ x * k >= 0 /\ y * k \in Int /\ x * k \in Int
      BY <1>k
    <3> QED
      BY <3>1, <3>2
  <2>2. x * k \in Int /\ M * k \in Int
    OBVIOUS
  <2> QED
    BY <1>1, <2>1, <2>2, <2>x
<1>7. \A l \in Lanes : Times64(s, k)[l] = s[l] * k
  BY <1>5, <1>6, <1>h, ProductExact
<1>8. k = multiplier * Threshold
  BY <1>k, <1>m DEF ScalarBounds
<1>9. ASSUME NEW l \in Lanes
      PROVE  s[l] * k = 5 * Sigma(ped[l]) * multiplier /\ 5 * Sigma(ped[l]) * multiplier >= 0
  <2>x. PICK x \in 0 .. M : x = s[l] /\ x = Sigma(ped[l])
    BY <1>4
  <2>1. x * (m * 5) = 5 * x * m
    OBVIOUS
  <2>2. x * k \in 0 .. h - 1
    BY <1>6, <2>x
  <2> QED
    BY <1>k, <1>m, <2>1, <2>2, <2>x
<1> QED
  BY <1>7, <1>8, <1>9, <1>s

(* What the two finders keep of a channel after a sample.                  *)
LaneFacts(c, s, p, filt, limit, over, d, e, left, z) ==
  /\ Steady(c) /\ now \in Nat /\ c.hit_tover < Half - 1
  /\ p = Median(Quartiles(c, s), s)
  /\ filt = Filter(p, now, Len(Taps) - 1)
  /\ limit = 5 * Sigma(p) * multiplier /\ limit >= 0
  /\ over <=> filt > limit
  /\ d = Remember(p, now, Lower(Wrap(s - p.pedestal), adcMax))
  /\ e = Charged(d, over, filt)
  /\ left <=> c.prev_was_over /\ ~over
  /\ z = process_window_naive(c, s)

LaneResult(over, e, left, z) ==
  /\ z.state = IF left THEN [e EXCEPT !.prev_was_over = over, !.hit_charge = 0, !.hit_tover = 0]
               ELSE [e EXCEPT !.prev_was_over = over]
  /\ z.ended = left
  /\ left => z.tover = e.hit_tover /\ z.charge = e.hit_charge % (2 * Half)
  /\ Steady(z.state)

LEMMA LaneAgrees ==
  ASSUME ScalarBounds, NEW c \in Chan, NEW s \in 0 .. Half - 1, NEW limit \in Int,
         NEW over \in BOOLEAN, NEW left \in BOOLEAN, NEW p, NEW filt, NEW d, NEW e, NEW z,
         LaneFacts(c, s, p, filt, limit, over, d, e, left, z)
  PROVE  LaneResult(over, e, left, z)
<1> USE DEF LaneFacts, LaneResult
<1>h. PICK h \in Nat : h = Half /\ h > 0
  BY Constants
<1>0. s \in Int /\ Int16 \subseteq Int /\ c.hit_charge \in Int16 /\ c.hit_tover \in 0 .. h - 1
  BY <1>h DEF Int16, Chan
<1>1. p = ScalarPedestal(c, s) /\ Steady(p)
  BY PedestalsAgree
<1>2. Kept(c, p)
  <2>1. Kept(c, Quartiles(c, s))
    BY <1>0, QuartilesKeep
  <2>q. PICK q \in Chan : q = Quartiles(c, s)
    BY <2>1 DEF Kept
  <2>2. Kept(q, p)
    BY <1>0, <2>q, MedianKeeps
  <2> QED
    BY <2>1, <2>2, <2>q, KeptAgain
<1>3. p \in Chan
  BY <1>2 DEF Kept
<1>x. PICK x \in Int : x = s - p.pedestal /\ Wrap(x) = x
  <2>p. PICK y \in 0 .. h - 1 : y = p.pedestal
    BY <1>1, <1>h DEF Steady
  <2>s. s \in 0 .. h - 1
    BY <1>h
  <2>1. s - y \in Int16 /\ s - y \in Int
    BY <1>h, <2>s DEF Int16
  <2> QED
    BY <2>1, <2>p, WrapExact
<1>4. d = Remember(p, now, Lower(s - p.pedestal, adcMax))
  BY <1>x
<1>5. Kept(p, d)
  <2>1. adcMax \in Int
    BY Constants DEF adcMax
  <2>2. Lower(x, adcMax) \in Int
    BY <2>1 DEF Lower
  <2> QED
    BY <1>3, <1>4, <1>x, <2>2, RememberKeeps
<1>6. Kept(c, d)
  BY <1>2, <1>5, KeptAgain
<1>7. /\ d \in Chan /\ d.prev_was_over = c.prev_was_over
      /\ d.hit_charge = c.hit_charge /\ d.hit_tover = c.hit_tover
      /\ p.prev_was_over = c.prev_was_over
      /\ p.hit_charge = c.hit_charge /\ p.hit_tover = c.hit_tover
  BY <1>2, <1>6 DEF Kept
<1>8. /\ d.pedestal = p.pedestal /\ d.quantile25 = p.quantile25 /\ d.quantile75 = p.quantile75
      /\ d.accum = p.accum /\ d.accum25 = p.accum25 /\ d.accum75 = p.accum75
  BY <1>3, <1>4 DEF Remember, Chan
<1>9. filt \in Int /\ filt = Filter(p, now, Len(Taps))
  <2>1. Len(Taps) - 1 \in 0 .. Len(Taps)
    BY Constants
  <2> QED
    BY <1>0, <1>3, <2>1, FilterLast, FilterType
<1>g. PICK g \in Int : g = ShiftTap(filt)
  BY <1>9, ShiftTapType
<1>10. over => g >= 0
  <2> SUFFICES ASSUME over PROVE g >= 0
    OBVIOUS
  <2>m. PICK m \in Nat : m = multiplier /\ m > 0
    BY Constants
  <2>1. filt > limit
    OBVIOUS
  <2>2. filt \in Nat
    BY <1>9, <2>1
  <2>3. filt \div m \in Nat
    BY <2>2, <2>m
  <2> QED
    BY <1>g, <2>3, <2>m DEF ShiftTap
<1>t. PICK t \in 0 .. h - 1 : t = c.hit_tover /\ t + 1 <= h - 1
  BY <1>0, <1>h
<1>c. PICK v \in 0 .. h - 1 : v = c.hit_charge /\ v \in Int16
  BY <1>0, <1>h DEF Steady, Int16
<1>r. PICK r : r = process_window_naive(c, s) /\ z = r
  OBVIOUS
<1>11. /\ r.state = IF left THEN [d EXCEPT !.prev_was_over = FALSE, !.hit_charge = 0, !.hit_tover = 0]
                    ELSE IF over THEN [d EXCEPT !.prev_was_over = TRUE, !.hit_tover = @ + 1,
                                                !.hit_charge = Lower(@ + ShiftTap(filt), Half - 1)]
                    ELSE d
       /\ r.ended = left /\ r.tover = p.hit_tover /\ r.charge = p.hit_charge % (2 * Half)
  <2>f. PICK f : f = Filter(p, now, Len(Taps))
    OBVIOUS
  <2>m. PICK y : y = 5 * Sigma(p) * multiplier
    OBVIOUS
  <2>n. PICK n : n = Remember(p, now, Lower(s - p.pedestal, adcMax))
    OBVIOUS
  <2>1. /\ r.state = IF p.prev_was_over /\ ~(f > y)
                     THEN [n EXCEPT !.prev_was_over = FALSE, !.hit_charge = 0, !.hit_tover = 0]
                     ELSE IF f > y THEN [n EXCEPT !.prev_was_over = TRUE, !.hit_tover = @ + 1,
                                                  !.hit_charge = Lower(@ + ShiftTap(f), Half - 1)]
                     ELSE n
        /\ r.ended = (p.prev_was_over /\ ~(f > y))
        /\ r.tover = p.hit_tover /\ r.charge = p.hit_charge % (2 * Half)
    <3>1. r.state = IF p.prev_was_over /\ ~(f > y)
                     THEN [n EXCEPT !.prev_was_over = FALSE, !.hit_charge = 0, !.hit_tover = 0]
                     ELSE IF f > y THEN [n EXCEPT !.prev_was_over = TRUE, !.hit_tover = @ + 1,
                                                  !.hit_charge = Lower(@ + ShiftTap(f), Half - 1)]
                     ELSE n
      <4>1. CASE p.prev_was_over /\ ~(f > y)
        <5>1. r.state = [n EXCEPT !.prev_was_over = FALSE, !.hit_charge = 0, !.hit_tover = 0]
          BY <1>1, <1>r, <2>f, <2>m, <2>n, <4>1 DEF process_window_naive, ScalarPedestal
        <5> QED
          BY <4>1, <5>1
      <4>2. CASE f > y
        <5>1. r.state = [n EXCEPT !.prev_was_over = TRUE, !.hit_tover = @ + 1,
                                  !.hit_charge = Lower(@ + ShiftTap(f), Half - 1)]
          BY <1>1, <1>r, <2>f, <2>m, <2>n, <4>2 DEF process_window_naive, ScalarPedestal
        <5> QED
          BY <4>2, <5>1
      <4>3. CASE ~p.prev_was_over /\ ~(f > y)
        <5>1. r.state = n
          BY <1>1, <1>r, <2>f, <2>m, <2>n, <4>3 DEF process_window_naive, ScalarPedestal
        <5> QED
          BY <4>3, <5>1
      <4> QED
        BY <4>1, <4>2, <4>3
    <3>2. r.ended = (p.prev_was_over /\ ~(f > y))
      BY <1>1, <1>r, <2>f, <2>m, <2>n DEF process_window_naive, ScalarPedestal
    <3>3. r.tover = p.hit_tover /\ r.charge = p.hit_charge % (2 * Half)
      BY <1>1, <1>r DEF process_window_naive, ScalarPedestal
    <3> QED
      BY <3>1, <3>2, <3>3
  <2>2. f = filt /\ y = limit /\ n = d
    BY <1>4, <1>9, <2>f, <2>m, <2>n
  <2>3. (f > y) = over
    BY <2>2
  <2>4. (p.prev_was_over /\ ~(f > y)) = left
    BY <1>7, <2>3
  <2> QED
    BY <2>1, <2>2, <2>3, <2>4
<1>12. e = [d EXCEPT !.hit_charge = Sat(v + (IF over THEN g ELSE 0)),
                     !.hit_tover = Sat(t + (IF over THEN 1 ELSE 0))]
  <2>1. ShiftTap(IF over THEN filt ELSE 0) = IF over THEN g ELSE 0
    BY <1>g, ShiftZero
  <2> QED
    BY <1>7, <1>c, <1>t, <2>1 DEF Charged
<1>13. ~over => e = d
  <2> SUFFICES ASSUME ~over PROVE e = d
    OBVIOUS
  <2>1. Sat(v + 0) = v /\ Sat(t + 0) = t
    <3>1. v + 0 = v /\ t + 0 = t /\ t \in Int16 /\ v \in Int /\ t \in Int
      BY <1>h DEF Int16
    <3> QED
      BY <1>c, <3>1, SatType
  <2>2. e = [d EXCEPT !.hit_charge = v, !.hit_tover = t]
    BY <1>12, <2>1
  <2>3. d = [d EXCEPT !.hit_charge = d.hit_charge, !.hit_tover = d.hit_tover]
    BY <1>7 DEF Chan
  <2>4. d.hit_charge = v /\ d.hit_tover = t
    BY <1>7, <1>c, <1>t
  <2> QED
    BY <2>2, <2>3, <2>4
<1>14. over => e = [d EXCEPT !.hit_tover = t + 1, !.hit_charge = Lower(v + g, Half - 1)]
  <2> SUFFICES ASSUME over PROVE e = [d EXCEPT !.hit_tover = t + 1, !.hit_charge = Lower(v + g, Half - 1)]
    OBVIOUS
  <2>1. Sat(t + 1) = t + 1
    BY <1>h, <1>t DEF Sat
  <2>2. Sat(v + g) = Lower(v + g, h - 1)
    <3>1. g >= 0
      BY <1>10
    <3>w. PICK w \in Nat : w = v + g
      BY <3>1
    <3>2. Sat(w) = Lower(w, h - 1)
      BY <1>h DEF Sat, Lower
    <3> QED
      BY <3>2, <3>w
  <2> QED
    BY <1>12, <1>7, <1>h, <2>1, <2>2 DEF Chan
<1>15. CASE left
  <2>1. ~over /\ e = d /\ over = FALSE
    BY <1>13, <1>15
  <2>2. r.state = [e EXCEPT !.prev_was_over = over, !.hit_charge = 0, !.hit_tover = 0]
    BY <1>11, <1>15, <2>1
  <2>3. Steady(r.state)
    <3>y. PICK y : y = r.state
      OBVIOUS
    <3>1. /\ y.pedestal = d.pedestal /\ y.quantile25 = d.quantile25 /\ y.quantile75 = d.quantile75
          /\ y.accum = d.accum /\ y.accum25 = d.accum25 /\ y.accum75 = d.accum75
          /\ y.hit_charge = 0
      BY <1>7, <2>1, <2>2, <3>y DEF Chan
    <3>2. y.hit_charge >= 0
      BY <3>1
    <3>3. Steady(y)
      BY <1>1, <1>8, <3>1, <3>2 DEF Steady
    <3> QED
      BY <3>3, <3>y
  <2> QED
    BY ZenonT(40), <1>7, <1>11, <1>15, <1>r, <2>1, <2>2, <2>3
<1>16. CASE ~left /\ over
  <2>1. over = TRUE /\ e = [d EXCEPT !.hit_tover = t + 1, !.hit_charge = Lower(v + g, Half - 1)]
    BY <1>14, <1>16
  <2>2. r.state = [d EXCEPT !.prev_was_over = TRUE, !.hit_tover = t + 1,
                            !.hit_charge = Lower(v + g, Half - 1)]
    BY <1>7, <1>11, <1>16, <1>c, <1>g, <1>t DEF Chan
  <2>3. r.state = [e EXCEPT !.prev_was_over = over]
    BY ZenonT(40), <1>7, <2>1, <2>2 DEF Chan
  <2>4. Lower(v + g, Half - 1) >= 0
    BY <1>10, <1>16, <1>h DEF Lower
  <2>5. Steady(r.state)
    <3>y. PICK y : y = r.state
      OBVIOUS
    <3>1. /\ y.pedestal = d.pedestal /\ y.quantile25 = d.quantile25 /\ y.quantile75 = d.quantile75
          /\ y.accum = d.accum /\ y.accum25 = d.accum25 /\ y.accum75 = d.accum75
          /\ y.hit_charge = Lower(v + g, Half - 1)
      BY <1>7, <2>2, <3>y DEF Chan
    <3>2. y.hit_charge >= 0
      BY <2>4, <3>1
    <3>3. Steady(y)
      BY <1>1, <1>8, <3>1, <3>2 DEF Steady
    <3> QED
      BY <3>3, <3>y
  <2> QED
    BY <1>11, <1>16, <1>r, <2>3, <2>5
<1>17. CASE ~left /\ ~over
  <2>1. e = d /\ d.prev_was_over = FALSE /\ over = FALSE
    BY <1>7, <1>13, <1>17 DEF Chan
  <2>2. r.state = d
    BY <1>11, <1>17
  <2>3. r.state = [e EXCEPT !.prev_was_over = over]
    BY <1>7, <2>1, <2>2 DEF Chan
  <2>4. Steady(r.state)
    BY <1>1, <1>7, <1>8, <2>2 DEF Steady
  <2> QED
    BY <1>11, <1>17, <1>r, <2>3, <2>4
<1> QED
  BY <1>15, <1>16, <1>17, <1>r

Agree ==
  alg = "FIR" /\ tame =>
    /\ scalar = chan
    /\ Charged0(naive) = Handed
    /\ \A l \in Lanes : Steady(chan[l]) /\ chan[l].hit_tover < Half - 1

LEMMA InitAgree == ScalarBounds /\ Init => Agree
<1> SUFFICES ASSUME ScalarBounds, Init PROVE Agree
  OBVIOUS
<1>1. PICK ped \in [Lanes -> UNION Range(ADCs)] : chan = [l \in Lanes |-> setState(ChanState, ped[l])]
  BY DEF Init
<1>2. scalar = chan /\ now = 0 /\ naive = {}
  BY DEF Init
<1>3. HInv
  BY InitHits
<1>4. Handed = {}
  <2>1. \A l \in Lanes : Stretches(l) = {}
    BY <1>2 DEF Stretches
  <2>2. \A l \in Lanes : Charged0(Runs(l)) = {}
    BY <2>1 DEF Runs, Charged0
  <2> QED
    BY <1>3, <2>2 DEF HInv
<1>5. ASSUME NEW l \in Lanes PROVE Steady(chan[l]) /\ chan[l].hit_tover < Half - 1
  <2>p. PICK p \in 0 .. Half - 1 : p = ped[l]
    BY SamplesInt
  <2>s. p - Spread \in Int /\ p + Spread \in Int
    BY Constants
  <2>x. PICK x \in Int16 : x = Wrap(p - Spread)
    BY <2>s, WrapType
  <2>y. PICK y \in Int16 : y = Wrap(p + Spread)
    BY <2>s, WrapType
  <2>c. PICK c : c = chan[l]
    OBVIOUS
  <2>1. /\ c.pedestal = p /\ c.quantile25 = x /\ c.quantile75 = y
        /\ c.accum = 0 /\ c.accum25 = 0 /\ c.accum75 = 0 /\ c.hit_charge = 0 /\ c.hit_tover = 0
    BY <1>1, <2>c, <2>p, <2>x, <2>y DEF setState, ChanState
  <2>2. 0 \in -AccLimit .. AccLimit
    BY Constants
  <2>3. c.hit_charge >= 0
    BY <2>1
  <2>4. 0 < Half - 1
    BY Constants DEF ScalarBounds
  <2> QED
    BY <2>1, <2>2, <2>3, <2>4, <2>c DEF Steady
<1> QED
  BY <1>2, <1>4, <1>5 DEF Agree, Charged0

LEMMA SampleAgrees ==
  ASSUME ScalarBounds, HInv, Agree, NEW adcs \in [Lanes -> 0 .. Half - 1], Sample(adcs),
         alg = "FIR", tame'
  PROVE  /\ scalar' = chan' /\ Charged0(naive)' = Handed'
         /\ \A l \in Lanes : Steady(chan'[l]) /\ chan'[l].hit_tover < Half - 1
<1>f. PICK f : f = Finder(chan, adcs)
  OBVIOUS
<1>p. PICK ped : ped = [l \in Lanes |-> Median(Quartiles(chan[l], adcs[l]), adcs[l])]
  OBVIOUS
<1>1. /\ f.state = [l \in Lanes |-> Remember(ped[l], now, Lower(Wrap(adcs[l] - ped[l].pedestal), adcMax))]
      /\ f.signal = [l \in Lanes |-> Filter(ped[l], now, Len(Taps) - 1)]
      /\ f.charge = f.signal
      /\ f.limit = Times64(Clamped(ped, 5), multiplier * Threshold)
  BY <1>f, <1>p DEF Finder, FIR
<1>2. HitType /\ now \in Nat /\ chan \in [Lanes -> Chan] /\ adcs \in [Lanes -> Int]
  <2>1. 0 .. Half - 1 \subseteq Int
    BY Constants
  <2> QED
    BY <2>1 DEF HInv, HitType, TraceType
<1>o. PICK over \in [Lanes -> BOOLEAN] : over = OverOf(f)
  BY <1>2, <1>f, SampleSeen
<1>a. PICK add \in [Lanes -> Int] : add = AddOf(f)
  BY <1>2, <1>f, SampleSeen
<1>3. Follows(chan, f) /\ Seen(over, add)
  BY <1>2, <1>a, <1>f, <1>o, SampleSeen
<1>4. tame /\ \A l \in Lanes : Sigma(f.state[l]) \in 0 .. sigmaMax(5)
  BY <1>f DEF Sample
<1>5. /\ scalar = chan /\ Charged0(naive) = Handed
      /\ \A l \in Lanes : Steady(chan[l]) /\ chan[l].hit_tover < Half - 1
  BY <1>4 DEF Agree
<1>6. ASSUME NEW l \in Lanes PROVE ped[l] \in Chan /\ Sigma(f.state[l]) = Sigma(ped[l])
  <2>0. chan[l] \in Chan /\ adcs[l] \in Int
    BY <1>2
  <2>q. PICK q \in Chan : q = Quartiles(chan[l], adcs[l])
    BY <2>0, QuartilesKeep DEF Kept
  <2>1. ped[l] \in Chan
    BY <1>p, <2>0, <2>q, MedianKeeps DEF Kept
  <2>2. /\ f.state[l].quantile25 = ped[l].quantile25
        /\ f.state[l].quantile75 = ped[l].quantile75
    BY <1>1, <2>1 DEF Remember, Chan
  <2> QED
    BY <2>1, <2>2 DEF Sigma
<1>7. \A l \in Lanes : /\ f.limit[l] = 5 * Sigma(ped[l]) * multiplier
                       /\ 5 * Sigma(ped[l]) * multiplier >= 0
  <2>1. \A l \in Lanes : Sigma(ped[l]) \in 0 .. sigmaMax(5)
    BY <1>4, <1>6
  <2>2. \A l \in Lanes :
          /\ Times64(Clamped(ped, 5), multiplier * Threshold)[l] = 5 * Sigma(ped[l]) * multiplier
          /\ 5 * Sigma(ped[l]) * multiplier >= 0
    BY <2>1, LimitsAgree
  <2> QED
    BY <1>1, <2>2
<1>8. ASSUME NEW l \in Lanes PROVE f.limit[l] \in Int
  <2>1. Sigma(ped[l]) \in Int
    <3>x. PICK x \in Int : x = ped[l].quantile75 - ped[l].quantile25
      BY SMTT(30), <1>6 DEF Chan
    <3>1. Wrap(x) \in Int
      BY WrapType, Constants DEF Int16
    <3> QED
      BY <3>1, <3>x DEF Sigma
  <2>x. PICK x \in Int : x = Sigma(ped[l])
    BY <2>1
  <2>m. PICK m \in Int : m = multiplier
    BY Constants
  <2>2. 5 * x * m \in Int
    OBVIOUS
  <2> QED
    BY <1>7, <2>2, <2>m, <2>x
<1>st. PICK st : st = [l \in Lanes |-> Charged(f.state[l], over[l], f.charge[l])]
  OBVIOUS
<1>9. ASSUME NEW l \in Lanes
      PROVE  /\ process_window_naive(chan[l], adcs[l]).state
                  = IF LeftNow(over)[l]
                    THEN [st[l] EXCEPT !.prev_was_over = over[l], !.hit_charge = 0, !.hit_tover = 0]
                    ELSE [st[l] EXCEPT !.prev_was_over = over[l]]
             /\ process_window_naive(chan[l], adcs[l]).ended = LeftNow(over)[l]
             /\ LeftNow(over)[l] =>
                  /\ process_window_naive(chan[l], adcs[l]).tover = st[l].hit_tover
                  /\ process_window_naive(chan[l], adcs[l]).charge = st[l].hit_charge % (2 * Half)
             /\ Steady(process_window_naive(chan[l], adcs[l]).state)
  <2>c. PICK c \in Chan : c = chan[l] /\ Steady(c) /\ c.hit_tover < Half - 1
    BY <1>2, <1>5
  <2>s. PICK s \in 0 .. Half - 1 : s = adcs[l]
    OBVIOUS
  <2>p. PICK p : p = ped[l] /\ p = Median(Quartiles(c, s), s)
    BY <1>p, <2>c, <2>s
  <2>g. PICK filt : filt = f.signal[l] /\ filt = f.charge[l] /\ filt = Filter(p, now, Len(Taps) - 1)
    BY <1>1, <2>p
  <2>i. PICK limit \in Int : limit = f.limit[l] /\ limit = 5 * Sigma(p) * multiplier /\ limit >= 0
    BY <1>7, <1>8, <2>p
  <2>o. PICK v \in BOOLEAN : v = over[l]
    OBVIOUS
  <2>1. v <=> filt > limit
    BY <1>o, <2>g, <2>i, <2>o DEF OverOf
  <2>d. PICK d : d = f.state[l] /\ d = Remember(p, now, Lower(Wrap(s - p.pedestal), adcMax))
    BY <1>1, <2>p, <2>s
  <2>e. PICK e : e = st[l] /\ e = Charged(d, v, filt)
    BY <1>st, <2>d, <2>g, <2>o
  <2>l. PICK left \in BOOLEAN : left = LeftNow(over)[l] /\ left = (c.prev_was_over /\ ~v)
    BY <2>c, <2>o DEF LeftNow, Chan
  <2>r. PICK r : r = process_window_naive(c, s)
    OBVIOUS
  <2>2. /\ r.state = IF left THEN [e EXCEPT !.prev_was_over = v, !.hit_charge = 0, !.hit_tover = 0]
                     ELSE [e EXCEPT !.prev_was_over = v]
        /\ r.ended = left
        /\ left => r.tover = e.hit_tover /\ r.charge = e.hit_charge % (2 * Half)
        /\ Steady(r.state)
    <3>1. Steady(c) /\ now \in Nat /\ c.hit_tover < Half - 1
      BY <1>2, <2>c
    <3>2. /\ p = Median(Quartiles(c, s), s) /\ filt = Filter(p, now, Len(Taps) - 1)
          /\ limit = 5 * Sigma(p) * multiplier /\ limit >= 0
          /\ d = Remember(p, now, Lower(Wrap(s - p.pedestal), adcMax))
          /\ e = Charged(d, v, filt)
      BY <2>d, <2>e, <2>g, <2>i, <2>p
    <3>3. left <=> c.prev_was_over /\ ~v
      BY <2>l
    <3>4. r = process_window_naive(c, s)
      BY <2>r
    <3>5. LaneFacts(c, s, p, filt, limit, v, d, e, left, r)
      BY <2>1, <3>1, <3>2, <3>3, <3>4 DEF LaneFacts
    <3>6. LaneResult(v, e, left, r)
      BY <2>c, <2>i, <2>l, <2>o, <2>s, <3>5, LaneAgrees
    <3> QED
      BY <3>6 DEF LaneResult
  <2> QED
    BY <2>2, <2>c, <2>e, <2>l, <2>o, <2>r, <2>s
<1>n. PICK n : n = [l \in Lanes |-> process_window_naive(scalar[l], adcs[l])]
  OBVIOUS
<1>10. \A l \in Lanes : n[l] = process_window_naive(chan[l], adcs[l])
  BY <1>5, <1>n
<1>11. /\ chan' = [l \in Lanes |->
                    IF LeftNow(over)[l]
                    THEN [st[l] EXCEPT !.prev_was_over = over[l], !.hit_charge = 0, !.hit_tover = 0]
                    ELSE [st[l] EXCEPT !.prev_was_over = over[l]]]
       /\ scalar' = [l \in Lanes |-> n[l].state]
       /\ naive' = naive \cup {[lane |-> l, start |-> now - n[l].tover, tover |-> n[l].tover,
                                charge |-> n[l].charge] : l \in {k \in Lanes : n[k].ended}}
  BY <1>f, <1>n, <1>o, <1>st DEF Sample, OverOf, LeftNow
<1>12. scalar' = chan' /\ \A l \in Lanes : Steady(chan'[l]) /\ chan'[l].hit_tover < Half - 1
  <2>1. scalar' = chan' /\ \A l \in Lanes : Steady(chan'[l])
    BY <1>9, <1>10, <1>11
  <2>2. ASSUME NEW l \in Lanes PROVE chan'[l].hit_tover < Half - 1
    <3>1. st[l].hit_tover < Half - 1
      BY <1>f, <1>o, <1>st DEF Sample, OverOf
    <3>2. 0 < Half - 1
      BY Constants DEF ScalarBounds
    <3>3. "hit_tover" \in DOMAIN st[l]
      BY <1>2, <1>3, <1>st DEF Charged, Chan, Follows, Kept
    <3>4. chan'[l].hit_tover = 0 \/ chan'[l].hit_tover = st[l].hit_tover
      BY <1>11, <3>3
    <3> QED
      BY <3>1, <3>2, <3>4
  <2> QED
    BY <2>1, <2>2
<1>13. ASSUME NEW l \in Lanes
       PROVE  st[l].hit_charge = NewCharge(over, add)[l] /\ st[l].hit_tover = NewTover(over)[l]
  <2>1. /\ chan[l] \in Chan /\ Kept(chan[l], f.state[l]) /\ f.charge[l] \in Int
        /\ over[l] \in BOOLEAN /\ add[l] = ShiftTap(f.charge[l])
        /\ st[l] = Charged(f.state[l], over[l], f.charge[l])
    BY <1>2, <1>3, <1>a, <1>st DEF Follows, AddOf
  <2>2. /\ st[l].hit_charge = Sat(chan[l].hit_charge + (IF over[l] THEN add[l] ELSE 0))
        /\ st[l].hit_tover = Sat(chan[l].hit_tover + (IF over[l] THEN 1 ELSE 0))
    BY <2>1, ChargedIs
  <2> QED
    BY <2>2 DEF NewCharge, NewTover
<1>14. ASSUME NEW l \in Lanes, LeftNow(over)[l]
       PROVE  [lane |-> l, start |-> now - n[l].tover, tover |-> n[l].tover, charge |-> n[l].charge]
                = TPNow(over, add, l)
  <2>1. n[l].tover = NewTover(over)[l] /\ n[l].charge = NewCharge(over, add)[l] % (2 * Half)
    BY <1>9, <1>10, <1>13, <1>14
  <2> QED
    BY <2>1 DEF TPNow
<1>15. \A l \in Lanes : n[l].ended = LeftNow(over)[l]
  BY <1>9, <1>10
<1>16. \A v : v \in naive' <=> v \in naive \/ \E l \in Lanes : LeftNow(over)[l] /\ v = TPNow(over, add, l)
  <2>1. \A v : v \in naive' <=>
                 \/ v \in naive
                 \/ \E l \in Lanes : /\ n[l].ended
                                     /\ v = [lane |-> l, start |-> now - n[l].tover,
                                             tover |-> n[l].tover, charge |-> n[l].charge]
    BY <1>11
  <2> QED
    BY <1>14, <1>15, <2>1
<1>17. \A l \in Lanes : TPNow(over, add, l).charge = NewCharge(over, add)[l] % (2 * Half)
  BY DEF TPNow
<1>18. \A v : v \in Charged0(naive)' <=>
                \/ v \in Charged0(naive)
                \/ \E l \in Lanes : /\ LeftNow(over)[l] /\ NewCharge(over, add)[l] % (2 * Half) # 0
                                    /\ v = TPNow(over, add, l)
  BY <1>16, <1>17 DEF Charged0
<1>19. \A v : v \in Handed' <=>
                \/ v \in Handed
                \/ \E l \in Lanes : /\ LeftNow(over)[l] /\ NewCharge(over, add)[l] % (2 * Half) # 0
                                    /\ v = TPNow(over, add, l)
  <2>1. HInv'
    BY <1>3, HInvStep
  <2>2. \A v : v \in Handed' <=> \E l \in Lanes : v \in Charged0(Runs(l))'
    BY <2>1 DEF HInv
  <2>3. \A v : v \in Handed <=> \E l \in Lanes : v \in Charged0(Runs(l))
    BY DEF HInv
  <2> QED
    BY <1>3, <2>2, <2>3, ChargedRunsStep
<1>20. Charged0(naive)' = Handed'
  BY <1>5, <1>18, <1>19
<1> QED
  BY <1>12, <1>20

LEMMA NextAgree == ScalarBounds => (HInv /\ Agree /\ [Next]_vars => Agree')
<1> SUFFICES ASSUME ScalarBounds, HInv, Agree, [Next]_vars PROVE Agree'
  OBVIOUS
<1>1. CASE Next
  <2>1. PICK adcs \in [Lanes -> UNION Range(ADCs)] : Sample(adcs)
    BY <1>1 DEF Next
  <2>2. adcs \in [Lanes -> 0 .. Half - 1]
    BY SamplesInt
  <2>3. alg' = alg
    BY <2>1 DEF Sample
  <2> QED
    BY <2>1, <2>2, <2>3, SampleAgrees DEF Agree
<1>2. CASE UNCHANGED vars
  BY <1>2 DEF vars, Agree, Handed, Began, process_swtpg_hits, FoundIn
<1> QED
  BY <1>1, <1>2

LEMMA AgreeFollows == HInv /\ Agree => ScalarAgrees
<1> SUFFICES ASSUME HInv, Agree, WindowDone, alg = "FIR", tame
             PROVE  Range(tps) = Charged0(naive)
  BY DEF ScalarAgrees
<1>1. Range(process_swtpg_hits(output, Began)) = {}
  BY DoneEmpty
<1> QED
  BY <1>1 DEF Agree, Handed

(* The vector finder of ProtoWIB finds what the scalar one finds, as long  *)
(* as the interquartile range of every channel is neither negative nor     *)
(* above the clamp and no time over threshold has saturated: though it     *)
(* multiplies 64-bit elements, leaves a tap out and clamps the threshold.  *)
THEOREM ScalarAgreesTheorem == ASSUME ScalarBounds PROVE Spec => []ScalarAgrees
<1>1. HInv /\ Agree /\ [Next]_vars => Agree'
  BY NextAgree
<1>2. Spec => []HInv
  BY HitInvariant
<1> QED
  BY <1>1, <1>2, InitAgree, AgreeFollows, PTL DEF Spec

----------------------------------------------------------------------------
(* The running sum of AbsRS.                                               *)

(* Wrap takes off a multiple of 2^16.                                      *)
LEMMA WrapMultiple ==
  ASSUME NEW x \in Int
  PROVE  \E q \in Int : x = Wrap(x) + q * (2 * Half)
<1>h. PICK h \in Nat : h = Half /\ h > 0
  BY Constants
<1>w. PICK w \in Nat : w = 2 * h /\ w > 0
  BY <1>h
<1>y. PICK y \in Int : y = x + h
  OBVIOUS
<1>q. PICK q \in Int : q = y \div w
  BY <1>w
<1>1. y = q * w + (y % w)
  BY <1>w, <1>q
<1>p. PICK p \in Int : p = q * w
  BY <1>w
<1>2. Wrap(x) = (y % w) - h /\ y % w \in Int
  BY <1>h, <1>w, <1>y DEF Wrap
<1>3. x = Wrap(x) + p
  BY <1>1, <1>2, <1>p, <1>y
<1> QED
  BY <1>3, <1>p, <1>w, <1>h

(* Two numbers of 16 bits that differ by a multiple of 2^16 are equal.     *)
LEMMA MultipleUnique ==
  ASSUME NEW x \in Int16, NEW y \in Int16, NEW q \in Int, x = y + q * (2 * Half)
  PROVE  x = y
<1>h. PICK h \in Nat : h = Half /\ h > 0
  BY Constants
<1>1. x \in -h .. h - 1 /\ y \in -h .. h - 1 /\ x = y + q * (2 * h)
  BY <1>h DEF Int16
<1>p. PICK p \in Int : p = q * (2 * h)
  BY <1>h
<1>2. CASE q > 0
  <2>1. p >= 2 * h
    BY <1>h, <1>p, <1>2
  <2> QED
    BY <1>1, <1>p, <1>h, <2>1
<1>3. CASE q < 0
  <2>1. p <= -(2 * h)
    BY <1>h, <1>p, <1>3
  <2> QED
    BY <1>1, <1>p, <1>h, <2>1
<1> QED
  BY <1>1, <1>2, <1>3, <1>h

(* AbsRS forms 8 * RS + 5 * |s| from two products of 16 bits in a sum of   *)
(* 16 bits.  Each of the three may overflow: the running sum is right      *)
(* exactly if its true value fits into 16 bits.                            *)
THEOREM RunningSumExact ==
  ASSUME NEW rs \in Int, NEW a \in Int
  PROVE  Wrap(Wrap(8 * rs) + Wrap(5 * a)) = 8 * rs + 5 * a
           <=> 8 * rs + 5 * a \in Int16
<1>x. PICK x \in Int : x = 8 * rs
  OBVIOUS
<1>y. PICK y \in Int : y = 5 * a
  OBVIOUS
<1>h. PICK h \in Nat : h = Half /\ h > 0
  BY Constants
<1>0. Wrap(x) \in Int /\ Wrap(y) \in Int
  BY WrapType, <1>h DEF Int16
<1>z. PICK z \in Int : z = Wrap(x) + Wrap(y)
  BY <1>0
<1>1. Wrap(z) \in Int16
  BY WrapType
<1>2. ASSUME x + y \in Int16 PROVE Wrap(z) = x + y
  <2>p. PICK p \in Int : x = Wrap(x) + p * (2 * Half)
    BY WrapMultiple
  <2>q. PICK q \in Int : y = Wrap(y) + q * (2 * Half)
    BY WrapMultiple
  <2>r. PICK r \in Int : z = Wrap(z) + r * (2 * Half)
    BY WrapMultiple
  <2>1. Wrap(z) \in Int
    BY <1>1, <1>h DEF Int16
  <2>2. PICK t \in Int : t = p + q + r
    OBVIOUS
  <2>m. PICK m \in Nat : m = 2 * Half
    BY <1>h
  <2>wx. PICK wx \in Int : wx = Wrap(x)
    BY <1>0
  <2>wy. PICK wy \in Int : wy = Wrap(y)
    BY <1>0
  <2>wz. PICK wz \in Int : wz = Wrap(z)
    BY <2>1
  <2>3. x = wx + p * m /\ y = wy + q * m /\ wx + wy = wz + r * m
    BY <1>z, <2>p, <2>q, <2>r, <2>m, <2>wx, <2>wy, <2>wz
  <2>4. t * m = p * m + q * m + r * m /\ p * m \in Int /\ q * m \in Int /\ r * m \in Int
    BY <2>2
  <2>5. x + y = wz + t * m
    BY <2>3, <2>4
  <2>6. x + y = Wrap(z) + t * (2 * Half)
    BY <2>5, <2>m, <2>wz
  <2> QED
    BY <1>1, <1>2, <2>6, MultipleUnique
<1> QED
  BY <1>1, <1>2, <1>x, <1>y, <1>z
=============================================================================
