---------------------------- MODULE FrameExpand ----------------------------
(***************************************************************************)
(* The expansion of ProtoWIB frames by wib/tpg/FrameExpand.hpp: the 256    *)
(* ADCs of 12 bits of a frame, packed in the order of the electronics, to  *)
(* 6 registers of collection and 10 of induction channels of 16 bits; and  *)
(* the tables of FrameExpand.cpp that say which channel is where.          *)
(***************************************************************************)
EXTENDS AVX2, FiniteSets

FramesPerMsg         == 12
SamplesPerRegister   == 16
CollectionRegisters  == 6
InductionRegisters   == 10

\* ColdataBlock::segments: bit n of the ADCs of a block.  A segment of 12
\* bytes holds four channels of two ADC chips, one in the even and one in the
\* odd bytes, each as one little-endian number of 48 bits.
SegmentBit(block, n) ==
  LET seg  == n \div 96
      byte == (n % 96) \div 8
      t    == 8 * (byte \div 2) + (n % 8)
      adc  == 2 * (seg \div 2) + (byte % 2)
  IN  IF n < 8 * 96
      THEN BitOf(64 * block + 8 * adc + 4 * (seg % 2) + t \div 12, t % 12)
      ELSE Unknown

\* The low 4 bits and the high 8 of 16 channels out of the register loaded;
\* every other channel is half a byte off
Expand16(raw) ==
  LET lo  == ShuffleBytes(raw, <<0, 2, 2, 4, 6, 8, 8, 10, 1, 3, 3, 5, 7, 9, 9, 11>>)
      hi  == ShuffleBytes(raw, <<0, 255, 4, 255, 6, 255, 10, 255,
                                 1, 255, 5, 255, 7, 255, 11, 255>>)
      odd == {u \in 0 .. 15 : u % 2 = 1}
      lo_blended == Blend(lo, ShiftRight(lo, 16, All(4)), 16, odd)
      hi_blended == Blend(hi, ShiftLeft(hi, 16, All(4)), 16, odd)
  IN  Or(Mask(lo_blended, 8, 0 .. 3), Mask(hi_blended, 8, 4 .. 7))

expand_two_segments(block, first_segment) ==
  LET Mem == [n \in Nat |-> SegmentBit(block, n)]
  IN  Expand16(Permute(Load(Mem, 12 * first_segment), 32, <<0, 1, 2, 0, 3, 4, 5, 0>>))

get_block_all_adcs(block) ==
  [j \in 0 .. 3 |-> expand_two_segments(block, 2 * j)]

\* Blend two expanded registers and move the slots that are not wanted to the
\* end, where they are cleared
CollectionPart(a, b, mask) ==
  Blend(Permute(Blend(a, b, 16, mask), 32, <<0, 1, 3, 4, 6, 7, 0, 0>>), Zero, 32, {6, 7})

\* Mutant: the two slots of the first segment taken for those of the second
collection_blend_mask_First == {0, 1, 2, 3, 6, 7}
collection_blend_mask == {0, 1, 2, 3, 8, 9}

get_block_collection_adcs(block) ==
  LET e == get_block_all_adcs(block)
  IN  [i \in 0 .. 1 |-> CollectionPart(e[2 * i], e[2 * i + 1], collection_blend_mask)]

\* Collection and induction channels apart, of the registers e of a block
Divided(e) ==
  LET coll == {0, 1, 2, 3, 4, 5, 8, 9}
      ind  == 0 .. 15 \ coll
      tmp0 == Permute(e[0], 32, <<5, 0, 0, 0, 0, 0, 0, 0>>)
      tmp2 == Permute(e[2], 32, <<0, 5, 0, 0, 0, 0, 0, 0>>)
      tmp3 == Permute(e[3], 32, <<0, 0, 0, 2, 0, 0, 0, 0>>)
      tmpblend0 == Blend(tmp0, e[1], 32, {2})
      tmpblend1 == Blend(tmp2, tmp3, 32, {3})
  IN  [i \in 0 .. 4 |->
         CASE i \in 0 .. 1 -> CollectionPart(e[2 * i], e[2 * i + 1], coll)
           [] i \in 2 .. 3 -> Blend(e[2 * i - 4], e[2 * i - 3], 16, ind)
           [] i = 4 -> Blend(Blend(tmpblend0, tmpblend1, 32, {1, 3}), Zero, 32, 4 .. 7)]

get_block_divided_adcs(block) == Divided(get_block_all_adcs(block))

\* 8 registers of 12 channels to 6 of 16: the three quads of the last two
\* fill the ends of the others
Compress(adcs_tmp) ==
  [i \in 0 .. CollectionRegisters - 1 |->
     LET q == i % 3
     IN  Blend(adcs_tmp[i], Permute(adcs_tmp[6 + i \div 3], 64, <<q, q, q, q>>), 32, {6, 7})]

get_frame_collection_adcs ==
  LET blocks == [b \in 0 .. 3 |-> get_block_collection_adcs(b)]
  IN  Compress([r \in 0 .. 7 |-> blocks[r \div 2][r % 2]])

\* The registers of a frame from those of its four blocks
DividedFrame(blocks) ==
  LET half(b) == blocks[b][4]
      pair(b) == Blend(half(b), Permute(half(b + 1), 64, <<3, 3, 0, 1>>), 32, 4 .. 7)
  IN  [collection |-> Compress([r \in 0 .. 7 |-> blocks[r \div 2][r % 2]]),
       induction  |-> [r \in 0 .. InductionRegisters - 1 |->
                         IF r < 8 THEN blocks[r \div 2][2 + (r % 2)] ELSE pair(2 * (r - 8))]]

get_frame_divided_adcs ==
  DividedFrame([b \in 0 .. 3 |-> get_block_divided_adcs(b)])

get_frame_all_adcs ==
  [r \in 0 .. 15 |-> get_block_all_adcs(r \div 4)[r % 4]]

\* Mutant: the registers of a frame next to each other
Arrange_ByFrame(regs, n) ==
  [k \in 0 .. n * FramesPerMsg - 1 |-> [time |-> k \div n, reg |-> regs[k % n]]]

\* A superchunk: register iblock of frame iframe goes to place
\* iframe + iblock * FramesPerMsg, so that the times of a channel are adjacent
Arrange(regs, n) ==
  [k \in 0 .. n * FramesPerMsg - 1 |->
     [time |-> k % FramesPerMsg, reg |-> regs[k \div FramesPerMsg]]]

ArrangeAll(frame_regs) ==
  [collection |-> Arrange(frame_regs.collection, CollectionRegisters),
   induction  |-> Arrange(frame_regs.induction, InductionRegisters)]

expand_message_adcs_inplace == ArrangeAll(get_frame_divided_adcs)

\* WindowCollectionADCs: where the vector code finds register ireg, and where
\* the scalar code finds channel ichan, at a time.  get16 takes every message
\* to be as long as one of collection channels.
get256(nregisters, ireg, itime) ==
  (itime \div 12) * nregisters * FramesPerMsg + FramesPerMsg * ireg + (itime % 12)

get16(ichan, itime) ==
  LET register_t0_start == (ichan \div SamplesPerRegister) * SamplesPerRegister * FramesPerMsg
      msg_start_index   == (itime \div 12) * CollectionRegisters * FramesPerMsg * SamplesPerRegister
  IN  msg_start_index + register_t0_start + SamplesPerRegister * (itime % 12)
        + (ichan % SamplesPerRegister)

\* The 16 bits at place index of a RegisterArray, and when they were sampled
Uint16(regs, index) == Slot(regs[index \div 16].reg, index % 16)
TimeOf(regs, index) == regs[index \div 16].time

\* out0 and out1 of expand_segment_collection, the abandoned expansion of
\* collection channels alone: the two registers it blends out of the three
\* that hold a block.  It prints them and returns a RegisterArray it has put
\* nothing into.
collection_blends(block) ==
  LET Mem == [n \in Nat |-> SegmentBit(block, n)]
      raw(i) == Load(Mem, 32 * i)
      blend_mask0 == 0 .. 6 \cup {8, 10, 12, 14, 16, 18, 20, 22} \cup {25, 27, 29, 31}
      blend_mask1 == 0 .. 22 \cup {24, 26, 28, 30}
  IN  <<Blend(raw(0), raw(1), 8, blend_mask0), Blend(raw(1), raw(2), 8, blend_mask1)>>

-----------------------------------------------------------------------------
\* The tables, from position in the registers to channel of the link and to
\* offline channel less the smallest one of its kind
collection_offlines ==
  << 12, 14, 16, 18, 23, 21, 20, 22, 19, 17, 15, 13, 264, 266, 268, 270, 0,
     2, 4, 6, 11, 9, 8, 10, 7, 5, 3, 1, 275, 273, 272, 274, 24, 26, 28, 30,
     35, 33, 32, 34, 31, 29, 27, 25, 271, 269, 267, 265, 36, 38, 40, 42, 47,
     45, 44, 46, 43, 41, 39, 37, 276, 278, 280, 282, 252, 254, 256, 258, 263,
     261, 260, 262, 259, 257, 255, 253, 287, 285, 284, 286, 240, 242, 244,
     246, 251, 249, 248, 250, 247, 245, 243, 241, 283, 281, 279, 277 >>

collection_index_to_chan ==
  << 16, 17, 18, 19, 10, 11, 20, 21, 12, 13, 14, 15, 208, 209, 210, 211, 48,
     49, 50, 51, 42, 43, 52, 53, 44, 45, 46, 47, 202, 203, 212, 213, 80, 81,
     82, 83, 74, 75, 84, 85, 76, 77, 78, 79, 204, 205, 206, 207, 112, 113,
     114, 115, 106, 107, 116, 117, 108, 109, 110, 111, 240, 241, 242, 243,
     144, 145, 146, 147, 138, 139, 148, 149, 140, 141, 142, 143, 234, 235,
     244, 245, 176, 177, 178, 179, 170, 171, 180, 181, 172, 173, 174, 175,
     236, 237, 238, 239 >>

induction_offlines ==
  << 974, 976, 978, 229, 973, 971, 224, 226, 227, 225, 970, 972, 228, 979,
     977, 975, 964, 966, 968, 239, 963, 961, 234, 236, 237, 235, 960, 962,
     238, 969, 967, 965, 984, 986, 988, 219, 983, 981, 214, 216, 217, 215,
     980, 982, 218, 989, 987, 985, 994, 996, 998, 209, 993, 991, 204, 206,
     207, 205, 990, 992, 208, 999, 997, 995, 1174, 1176, 1178, 29, 1173,
     1171, 24, 26, 27, 25, 1170, 1172, 28, 1179, 1177, 1175, 1164, 1166,
     1168, 39, 1163, 1161, 34, 36, 37, 35, 1160, 1162, 38, 1169, 1167, 1165,
     1184, 1186, 1188, 19, 1183, 1181, 14, 16, 17, 15, 1180, 1182, 18, 1189,
     1187, 1185, 1194, 1196, 1198, 9, 1193, 1191, 4, 6, 7, 5, 1190, 1192, 8,
     1199, 1197, 1195, 223, 221, 233, 231, 220, 222, 230, 232, 213, 211, 203,
     201, 210, 212, 200, 202, 23, 21, 33, 31, 20, 22, 30, 32, 13, 11, 3, 1,
     10, 12, 0, 2 >>

induction_index_to_chan ==
  << 0, 1, 2, 3, 8, 9, 26, 27, 4, 5, 22, 23, 28, 29, 30, 31, 32, 33, 34, 35,
     40, 41, 58, 59, 36, 37, 54, 55, 60, 61, 62, 63, 64, 65, 66, 67, 72, 73,
     90, 91, 68, 69, 86, 87, 92, 93, 94, 95, 96, 97, 98, 99, 104, 105, 122,
     123, 100, 101, 118, 119, 124, 125, 126, 127, 128, 129, 130, 131, 136,
     137, 154, 155, 132, 133, 150, 151, 156, 157, 158, 159, 160, 161, 162,
     163, 168, 169, 186, 187, 164, 165, 182, 183, 188, 189, 190, 191, 192,
     193, 194, 195, 200, 201, 218, 219, 196, 197, 214, 215, 220, 221, 222,
     223, 224, 225, 226, 227, 232, 233, 250, 251, 228, 229, 246, 247, 252,
     253, 254, 255, 6, 7, 38, 39, 24, 25, 56, 57, 70, 71, 102, 103, 88, 89,
     120, 121, 134, 135, 166, 167, 152, 153, 184, 185, 198, 199, 230, 231,
     216, 217, 248, 249 >>

Lookup(table, index) ==
  IF index \in 0 .. Len(table) - 1 THEN table[index + 1] ELSE -1

collection_index_to_offline(index) == Lookup(collection_offlines, index)
induction_index_to_offline(index)  == Lookup(induction_offlines, index)
collection_index_to_channel(index) == Lookup(collection_index_to_chan, index)
induction_index_to_channel(index)  == Lookup(induction_index_to_chan, index)
=============================================================================
