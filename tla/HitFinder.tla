----------------------------- MODULE HitFinder -----------------------------
(***************************************************************************)
(* The hit finders: process_window_avx2 of ProtoWIB ("FIR"), the two of    *)
(* WIB2 ("SWTPG" and "AbsRS"), and the scalar process_window_naive that    *)
(* the first is to agree with.  They follow the pedestal of every channel, *)
(* compare each sample with a threshold and give out a hit when a channel  *)
(* comes back below it, with what it had charge for; hits reach over the   *)
(* end of a window, so all of this is kept from one window to the next.    *)
(* The frame processor turns the hits of a window into trigger primitives. *)
(*                                                                         *)
(* Lanes are the channels that share one 64-bit element of a register: the *)
(* threshold is computed by the compiler's product of 64-bit elements, so  *)
(* they are not independent.  Numbers have their width: they wrap or       *)
(* saturate at Half, 2^15 in the code.  Times are in samples.              *)
(***************************************************************************)
EXTENDS Integers, Sequences, Functions

CONSTANTS
  NumLanes,      \* 4: channels in 64 bits
  Half,          \* 2^15
  Algorithms,    \* which of the finders are run
  ADCs,          \* lane -> the values its samples take
  AccLimit,      \* 10: samples on one side of a quantile that move it
  Spread,        \* 50 or 20: first distance of the quantiles from the median
  multiplier,    \* 64, 1 << tap_exponent
  Taps,          \* the filter, with the 0 start adds to it
  Threshold,     \* 5, software_tpg_threshold
  WindowFrames,  \* 12: samples in a superchunk
  MaxSamples     \* bound on samples

ASSUME HitFinderAssumption ==
  /\ {NumLanes, Half, AccLimit, multiplier, WindowFrames, MaxSamples} \subseteq Nat \ {0}
  /\ Algorithms \subseteq {"FIR", "SWTPG", "AbsRS"}
  /\ ADCs \in [0 .. NumLanes - 1 -> SUBSET (0 .. Half - 1)]
  /\ {Spread, Threshold} \subseteq Nat
  /\ "AbsRS" \in Algorithms => Threshold > 0   \* a divisor there
  /\ Taps \in Seq(Int) /\ Taps # <<>> /\ Taps[Len(Taps)] = 0

VARIABLES
  alg,       \* the finder
  chan,      \* chanState: lane -> what is kept of its channel
  scalar,    \* the same for the scalar finder
  now,       \* samples so far; now % WindowFrames is itime
  output,    \* the registers stored in this window
  tps,       \* the trigger primitives: <<start of the window, register, lane>> -> TP
  naive,     \* the hits of the scalar finder
  trace,     \* history: of every sample, which lanes were over, and its charge
  tame       \* history: every sigma was from 0 to sigmaMax, no stretch Half - 1 long

vars == <<alg, chan, scalar, now, output, tps, naive, trace, tame>>

Lanes == 0 .. NumLanes - 1

-----------------------------------------------------------------------------
(* 16-bit arithmetic *)

Wrap(x) == ((x + Half) % (2 * Half)) - Half
Sat(x)  == IF x >= Half THEN Half - 1 ELSE IF x < -Half THEN -Half ELSE x
Lower(x, y) == IF x < y THEN x ELSE y
Abs(x)  == IF x < 0 THEN -x ELSE x

adcMax      == (Half - 1) \div multiplier
ShiftTap(x) == x \div multiplier

\* _mm256_mulhrs_epi16 by Half / b
DivEpi16(x, b) == (x * (Half \div b) + Half \div 2) \div Half

\* sigma * k on 64-bit elements: what overflows a lane is carried to the next
Times64(sigma, k) ==
  LET U(x) == x % (2 * Half)
      carry[l \in Lanes] ==
        IF l = 0 THEN 0 ELSE (U(sigma[l - 1]) * k + carry[l - 1]) \div (2 * Half)
  IN  [l \in Lanes |-> Wrap(U(sigma[l]) * k + carry[l])]

\* The quantile m follows its accumulator once that is over the limit
Accumulated(m, a) ==
  LET step == IF a > AccLimit THEN 1 ELSE IF -a > AccLimit THEN -1 ELSE 0
  IN  IF step # 0 THEN <<Sat(m + step), 0>> ELSE <<m, a>>

\* The quantile m and its accumulator after sample s, if the mask lets it
frugal_accum_update_avx2(m, s, accum, mask) ==
  IF mask THEN Accumulated(m, Wrap(accum + (IF s > m THEN 1 ELSE IF s = m THEN 0 ELSE -1)))
  ELSE <<m, accum>>

frugal_accum_update(m, s, acc) ==
  LET a == acc + (IF s > m THEN 1 ELSE 0) - (IF s < m THEN 1 ELSE 0)
  IN  IF a > AccLimit THEN <<m + 1, 0>>
      ELSE IF a < -AccLimit THEN <<m - 1, 0>> ELSE <<m, a>>

-----------------------------------------------------------------------------
(* What is kept of a channel *)

ChanState ==
  [pedestal |-> 0, accum |-> 0, quantile25 |-> 0, accum25 |-> 0,
   quantile75 |-> 0, accum75 |-> 0, RS |-> 0, pedestalRS |-> 0, accumRS |-> 0,
   prev_samp |-> [j \in 0 .. Len(Taps) - 1 |-> 0],
   prev_was_over |-> FALSE, hit_charge |-> 0, hit_tover |-> 0]

setState(c, ped) ==
  [c EXCEPT !.pedestal = ped, !.quantile25 = Wrap(ped - Spread), !.quantile75 = Wrap(ped + Spread)]

\* The filter reads the samples before this one; the vector code leaves the
\* last tap out
Filter(c, t, ntaps) ==
  LET filt[x \in 0 .. ntaps] ==
        IF x = 0 THEN 0
        ELSE filt[x - 1] + Taps[x] * c.prev_samp[((x - 1) + t) % Len(Taps)]
  IN  Wrap(filt[ntaps])

Median(c, s) ==
  LET m == frugal_accum_update_avx2(c.pedestal, s, c.accum, TRUE)
  IN  [c EXCEPT !.pedestal = m[1], !.accum = m[2]]

\* Mutant: every sample moves both quartiles
Quartiles_Unmasked(c, s) ==
  LET lo == frugal_accum_update_avx2(c.quantile25, s, c.accum25, TRUE)
      hi == frugal_accum_update_avx2(c.quantile75, s, c.accum75, TRUE)
  IN  [c EXCEPT !.quantile25 = lo[1], !.accum25 = lo[2], !.quantile75 = hi[1], !.accum75 = hi[2]]

\* The quartiles are moved by the samples on their side of the old median
Quartiles(c, s) ==
  LET lo == frugal_accum_update_avx2(c.quantile25, s, c.accum25, s < c.pedestal)
      hi == frugal_accum_update_avx2(c.quantile75, s, c.accum75, s > c.pedestal)
  IN  [c EXCEPT !.quantile25 = lo[1], !.accum25 = lo[2], !.quantile75 = hi[1], !.accum75 = hi[2]]

Remember(c, t, s) == [c EXCEPT !.prev_samp[t % Len(Taps)] = s]
Sigma(c)     == Wrap(c.quantile75 - c.quantile25)
sigmaMax(k)  == Wrap(Half \div (multiplier * k))
Clamped(st, k) == [l \in Lanes |-> Lower(Sigma(st[l]), sigmaMax(k))]

\* Each finder: the new state of the channels, the signal and its threshold
FIR(st, s) ==
  LET ped == [l \in Lanes |-> Median(Quartiles(st[l], s[l]), s[l])]
  IN  [state  |-> [l \in Lanes |-> Remember(ped[l], now, Lower(Wrap(s[l] - ped[l].pedestal), adcMax))],
       signal |-> [l \in Lanes |-> Filter(ped[l], now, Len(Taps) - 1)],
       charge |-> [l \in Lanes |-> Filter(ped[l], now, Len(Taps) - 1)],
       limit  |-> Times64(Clamped(ped, 5), multiplier * Threshold)]

SWTPG(st, s) ==
  LET ped == [l \in Lanes |-> Median(st[l], s[l])]
      sub == [l \in Lanes |-> Lower(Wrap(s[l] - ped[l].pedestal), adcMax)]
  IN  [state |-> ped, signal |-> sub, charge |-> sub, limit |-> [l \in Lanes |-> Wrap(Threshold)]]

AbsRS(st, s) ==
  LET ped  == [l \in Lanes |-> Median(Quartiles(st[l], s[l]), s[l])]
      sum  == [l \in Lanes |-> DivEpi16(Wrap(Wrap(8 * st[l].RS)
                                 + Wrap(5 * Abs(Wrap(s[l] - ped[l].pedestal)))), 10)]
      base == [l \in Lanes |-> frugal_accum_update_avx2(st[l].pedestalRS, sum[l], st[l].accumRS, TRUE)]
      RS   == [l \in Lanes |-> Wrap(sum[l] - base[l][1])]
  IN  [state  |-> [l \in Lanes |-> [ped[l] EXCEPT !.RS = RS[l], !.pedestalRS = base[l][1], !.accumRS = base[l][2]]],
       signal |-> RS,
       charge |-> [l \in Lanes |-> Sat(RS[l] + base[l][1])],
       limit  |-> Times64(Clamped(ped, Threshold), Threshold)]

Finder(st, s) == CASE alg = "FIR" -> FIR(st, s) [] alg = "SWTPG" -> SWTPG(st, s) [] OTHER -> AbsRS(st, s)

-----------------------------------------------------------------------------
(* Hits *)

\* A channel's part in the hit finding, and the hit it has if it leaves
Charged(c, over, charge) ==
  [c EXCEPT !.hit_charge = Sat(c.hit_charge + ShiftTap(IF over THEN charge ELSE 0)),
            !.hit_tover  = Sat(c.hit_tover + (IF over THEN 1 ELSE 0))]

\* Mutant: the charge of every lane is stored
Register_NoMask(st, left) ==
  [timenow    |-> now % WindowFrames,
   hit_charge |-> [l \in Lanes |-> st[l].hit_charge % (2 * Half)],
   hit_tover  |-> [l \in Lanes |-> st[l].hit_tover]]

Register(st, left) ==
  [timenow    |-> now % WindowFrames,
   hit_charge |-> [l \in Lanes |-> IF left[l] THEN st[l].hit_charge % (2 * Half) ELSE 0],
   hit_tover  |-> [l \in Lanes |-> st[l].hit_tover]]

\* process_swtpg_hits, add_hits_to_tphandler: a TP for every lane that has a
\* charge in a register of the window that began at start
FoundIn(out, start) == {k \in {start} \X (DOMAIN out) \X Lanes : out[k[2]].hit_charge[k[3]] # 0}

process_swtpg_hits(out, start) ==
  [k \in FoundIn(out, start) |->
     LET r == out[k[2]]
         l == k[3]
     IN  [lane |-> l, start |-> start + r.timenow - r.hit_tover[l],
          tover |-> r.hit_tover[l], charge |-> r.hit_charge[l]]]

Joined(f, g) == [k \in DOMAIN f \cup DOMAIN g |-> IF k \in DOMAIN f THEN f[k] ELSE g[k]]

\* process_window_naive on one sample: new state, and the hit that ended
process_window_naive(c, s) ==
  LET q    == [c EXCEPT !.quantile25 = IF s < c.pedestal THEN frugal_accum_update(c.quantile25, s, c.accum25)[1] ELSE @,
                        !.accum25    = IF s < c.pedestal THEN frugal_accum_update(c.quantile25, s, c.accum25)[2] ELSE @,
                        !.quantile75 = IF s > c.pedestal THEN frugal_accum_update(c.quantile75, s, c.accum75)[1] ELSE @,
                        !.accum75    = IF s > c.pedestal THEN frugal_accum_update(c.quantile75, s, c.accum75)[2] ELSE @,
                        !.pedestal   = frugal_accum_update(c.pedestal, s, c.accum)[1],
                        !.accum      = frugal_accum_update(c.pedestal, s, c.accum)[2]]
      filt == Filter(q, now, Len(Taps))
      over == filt > 5 * Sigma(q) * multiplier
      gone == q.prev_was_over /\ ~over
      next == Remember(q, now, Lower(s - q.pedestal, adcMax))
  IN  [state |-> IF gone THEN [next EXCEPT !.prev_was_over = FALSE, !.hit_charge = 0, !.hit_tover = 0]
                 ELSE IF over THEN [next EXCEPT !.prev_was_over = TRUE, !.hit_tover = @ + 1,
                                                !.hit_charge = Lower(@ + ShiftTap(filt), Half - 1)]
                 ELSE next,
       ended |-> gone, tover |-> q.hit_tover, charge |-> q.hit_charge % (2 * Half)]

-----------------------------------------------------------------------------

(* find_hits seeds the channels at the first superchunk: WIB2 with the first
   sample of the channel; ProtoWIB indexes the registers as if they were one
   tick, and gives a channel the sample of another channel, some ticks on. *)
Init ==
  /\ alg \in Algorithms
  /\ \E ped \in [Lanes -> UNION Range(ADCs)] :
       /\ alg # "FIR" => \A l \in Lanes : ped[l] \in ADCs[l]
       /\ chan = [l \in Lanes |-> setState(ChanState, ped[l])]
       /\ trace = <<>>
       /\ scalar = chan
  /\ now = 0 /\ output = <<>> /\ tps = <<>> /\ naive = {} /\ tame = TRUE

\* One step of the loop over itime, for the lanes of a register; the end of
\* the window hands the output over
Sample(adcs) ==
  LET f    == Finder(chan, adcs)
      over == [l \in Lanes |-> f.signal[l] > f.limit[l]]
      left == [l \in Lanes |-> chan[l].prev_was_over /\ ~over[l]]
      st   == [l \in Lanes |-> Charged(f.state[l], over[l], f.charge[l])]
      out  == IF \E l \in Lanes : left[l] THEN Append(output, Register(st, left)) ELSE output
      n    == [l \in Lanes |-> process_window_naive(scalar[l], adcs[l])]
      last == now % WindowFrames = WindowFrames - 1
  IN  /\ now < MaxSamples
      /\ (now = 0 /\ alg # "FIR") => \A l \in Lanes : adcs[l] = chan[l].pedestal
      /\ chan' = [l \in Lanes |->
                   IF left[l] THEN [st[l] EXCEPT !.prev_was_over = over[l], !.hit_charge = 0, !.hit_tover = 0]
                   ELSE [st[l] EXCEPT !.prev_was_over = over[l]]]
      /\ output' = IF last THEN <<>> ELSE out
      /\ tps' = IF last THEN Joined(tps, process_swtpg_hits(out, now - (now % WindowFrames))) ELSE tps
      /\ IF alg = "FIR"
         THEN /\ scalar' = [l \in Lanes |-> n[l].state]
              /\ naive' = naive \cup {[lane |-> l, start |-> now - n[l].tover, tover |-> n[l].tover,
                                       charge |-> n[l].charge] : l \in {k \in Lanes : n[k].ended}}
         ELSE UNCHANGED <<scalar, naive>>
      /\ now' = now + 1
      /\ trace' = Append(trace, [l \in Lanes |-> [over |-> over[l], add |-> ShiftTap(f.charge[l])]])
      /\ tame' = (tame /\ \A l \in Lanes : /\ Sigma(f.state[l]) \in 0 .. sigmaMax(5)
                                           /\ st[l].hit_tover < Half - 1)
      /\ UNCHANGED alg

Next == \E adcs \in [Lanes -> UNION Range(ADCs)] :
          (\A l \in Lanes : adcs[l] \in ADCs[l]) /\ Sample(adcs)

Spec == Init /\ [][Next]_vars

-----------------------------------------------------------------------------
(* Properties *)

\* The charge of the n samples from the one at time a on, saturating as it grows
ChargeFrom(l, a) ==
  LET sum[n \in 0 .. now - a] == IF n = 0 THEN 0 ELSE Sat(sum[n - 1] + trace[a + n][l].add)
  IN  sum

Over(l, t) == trace[t + 1][l].over

\* The hits a lane has had: the longest runs of samples over threshold, from
\* r[1] to before r[2], that have come to an end.  A 16-bit time over threshold
\* reaches back Half - 1 samples at most.
Stretches(l) ==
  {r \in (0 .. now - 1) \X (0 .. now - 1) :
     /\ r[1] < r[2] /\ ~Over(l, r[2])
     /\ \A t \in r[1] .. r[2] - 1 : Over(l, t)
     /\ r[1] > 0 => ~Over(l, r[1] - 1)}

HitOf(l, r) ==
  LET tover == Lower(r[2] - r[1], Half - 1)
  IN  [lane |-> l, start |-> r[2] - tover, tover |-> tover,
       charge |-> ChargeFrom(l, r[1])[r[2] - r[1]] % (2 * Half)]

Runs(l) == {HitOf(l, r) : r \in Stretches(l)}

WindowDone == now % WindowFrames = 0
Charged0(hits) == {h \in hits : h.charge # 0}

(* Every stretch of samples over threshold, also one that reaches over the  *)
(* end of windows, becomes one trigger primitive of its channel, with its   *)
(* own start, length and charge, once it is over and its window handed on;  *)
(* only those whose charge comes to nothing are lost (process_swtpg_hits    *)
(* takes a charge of 0 to mean no hit).                                     *)
TPsMatchHits ==
  WindowDone => /\ IsInjective(tps)
                /\ Range(tps) = UNION {Charged0(Runs(l)) : l \in Lanes}

(* The vector finder of ProtoWIB finds what the scalar one finds, though it *)
(* clamps the threshold, leaves out a tap and multiplies whole 64-bit       *)
(* elements, as long as the interquartile range is neither negative nor     *)
(* above the clamp and no stretch has saturated its time over threshold.    *)
ScalarAgrees ==
  WindowDone /\ alg = "FIR" /\ tame => Range(tps) = Charged0(naive)

=============================================================================
