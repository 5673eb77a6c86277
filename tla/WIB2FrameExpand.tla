-------------------------- MODULE WIB2FrameExpand --------------------------
(***************************************************************************)
(* The expansion of WIB2 frames: 256 ADCs of 14 bits, packed without gaps, *)
(* to 16 ADCs of 16 bits in a register, by wib2/tpg/FrameExpand.hpp.  A    *)
(* register is loaded from 7 words of a frame and one word beyond.         *)
(***************************************************************************)
EXTENDS AVX2

FramesPerMsg   == 12
NumRegisters   == 8   \* per frame and half of the link

\* WIB2Frame::adc_words: bit n of the ADCs of a frame
FrameBit(n) == IF n < 256 * 14 THEN BitOf(n \div 14, n % 14) ELSE Unknown

unpack_one_register(first_word) ==
  LET reg       == Load([n \in Nat |-> FrameBit(n)], 4 * first_word)
      shuf1     == Permute(reg, 32, <<0, 1, 2, 3, 3, 4, 5, 6>>)
      high_half == Mask(ShiftLeft(shuf1, 32, <<2, 6, 10, 14, 0, 4, 8, 12>>),
                        32, 16 .. 29)
      shift2    == ShiftLeft(shuf1, 32, <<0, 4, 8, 12, 0, 2, 6, 10>>)
      shuf2     == Permute(reg, 32, <<0, 0, 1, 2, 2, 3, 4, 5>>)
      shift3    == ShiftRight(shuf2, 32, <<0, 28, 24, 20, 0, 30, 26, 22>>)
      low_half  == Mask(Or(shift2, shift3), 32, 0 .. 13)
      both      == Blend(Or(low_half, high_half), Zero, 16, {8})
      shift4    == Mask(Blend(Zero, ShiftRight(reg, 32, All(18)), 32, {6}),
                        32, 0 .. 13)
  IN  Or(both, Permute(shift4, 32, <<0, 0, 0, 0, 6, 0, 0, 0>>))

\* The registers of the half selection of the link: register iblock of frame
\* iframe goes to place iframe + iblock * FramesPerMsg
expand_wib2_adcs(selection) ==
  LET regs == [iblock \in 0 .. NumRegisters - 1 |->
                 unpack_one_register(7 * (iblock + selection * NumRegisters))]
  IN  [k \in 0 .. NumRegisters * FramesPerMsg - 1 |->
         [time |-> k % FramesPerMsg, reg |-> regs[k \div FramesPerMsg]]]
=============================================================================
