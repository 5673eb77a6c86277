-------------------------------- MODULE AVX2 --------------------------------
(***************************************************************************)
(* The intrinsics that the frame expansion uses, on 256-bit registers.     *)
(* They move bits about and clear them, whatever the bits are, so a        *)
(* register is a function from bit numbers to the names of the bits it     *)
(* holds, and one symbolic frame stands for all frames.  Name 0 is a bit   *)
(* that is zero; Unknown is a bit of memory next to the ADCs; Clash is the *)
(* OR of two bits neither of which is zero.  A mask of immediate bits is   *)
(* the set of the units it selects.                                        *)
(***************************************************************************)
EXTENDS Integers, Sequences

Bits    == 0 .. 255
Unknown == -1
Clash   == -2
Zero    == [n \in Bits |-> 0]

\* Bit b of the ADC of a channel
BitOf(ch, b) == 16 * ch + b + 1

\* The 16-bit slot s of a register
Slot(r, s) == [b \in 0 .. 15 |-> r[16 * s + b]]

\* _mm256_lddqu_si256: 256 bits from the byte offset of a memory
Load(mem, byte) == [n \in Bits |-> mem[8 * byte + n]]

\* _mm256_permutevar8x32_epi32, _mm256_permute4x64_epi64: unit u of w bits
\* comes from unit idx[u + 1]
Permute(r, w, idx) == [n \in Bits |-> r[w * idx[n \div w + 1] + (n % w)]]

\* _mm256_shuffle_epi8 with the same mask for both 128-bit lanes; 255 clears
ShuffleBytes(r, mask) ==
  [n \in Bits |-> LET from == mask[((n \div 8) % 16) + 1]
                  IN  IF from = 255 THEN 0
                      ELSE r[128 * (n \div 128) + 8 * from + (n % 8)]]

\* _mm256_srlv_epi32, _mm256_srli_epi16 ...: unit u is shifted by count[u + 1]
ShiftRight(r, w, count) ==
  [n \in Bits |-> LET p == (n % w) + count[n \div w + 1]
                  IN  IF p < w THEN r[w * (n \div w) + p] ELSE 0]
ShiftLeft(r, w, count) ==
  [n \in Bits |-> LET p == (n % w) - count[n \div w + 1]
                  IN  IF p >= 0 THEN r[w * (n \div w) + p] ELSE 0]
All(n) == [u \in 1 .. 16 |-> n]

\* _mm256_blend_epi16, _mm256_blend_epi32, _mm256_blendv_epi8: the units of b
\* the mask selects, the others of a
Blend(a, b, w, units) ==
  [n \in Bits |-> IF n \div w \in units THEN b[n] ELSE a[n]]

\* _mm256_and_si256 with a mask that is the same in every unit of w bits
Mask(r, w, keep) == [n \in Bits |-> IF n % w \in keep THEN r[n] ELSE 0]

\* _mm256_or_si256
Or(a, b) ==
  [n \in Bits |-> IF a[n] = 0 \/ a[n] = b[n] THEN b[n]
                  ELSE IF b[n] = 0 THEN a[n] ELSE Clash]
=============================================================================
