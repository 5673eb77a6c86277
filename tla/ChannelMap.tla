----------------------------- MODULE ChannelMap -----------------------------
(***************************************************************************)
(* RegisterToChannelNumber.hpp of wib and wib2: to learn which offline     *)
(* channel each slot of the expanded registers holds, the offline numbers  *)
(* themselves, less the smallest of the link, are put into the ADCs of a   *)
(* test frame, and the test frame is expanded.                             *)
(***************************************************************************)
EXTENDS FrameExpand, FiniteSetsExt

WIB2 == INSTANCE WIB2FrameExpand

LinkChannels == 0 .. 255

Expanded       == expand_message_adcs_inplace
CollectionOnly == get_frame_collection_adcs
AllChannels    == get_frame_all_adcs
WIB2Expanded   == [half \in 0 .. 1 |-> WIB2!expand_wib2_adcs(half)]

\* Mutant: the registers taken to be those of one frame
FirstFrame_Dense(i) == i

\* Where the map finds slot i of the first frame
FirstFrame(i) == (i \div 16) * 16 * 12 + (i % 16)

\* The number in 16 named bits when the ADC of channel ch is adc[ch]
Value(word, adc) ==
  MapThenSumSet(LAMBDA b : IF word[b] = 0 THEN 0
                           ELSE LET bit == word[b] - 1
                                IN  ((adc[bit \div 16] \div 2 ^ (bit % 16)) % 2) * 2 ^ b,
                0 .. 15)

min_ch(offline) == Min({offline[ich] : ich \in LinkChannels})

\* WIBFrame::set_channel, WIB2Frame::set_adc keep the bits of an ADC
TestFrame(offline, width) ==
  [ich \in LinkChannels |-> (offline[ich] - min_ch(offline)) % 2 ^ width]

\* Slot i of the registers of a link whose channels have the offline numbers
get_register_to_offline_channel_map(offline, kind, i) ==
  Value(Uint16(Expanded[kind], FirstFrame(i)), TestFrame(offline, 12)) + min_ch(offline)

get_register_to_offline_channel_map_wib2(offline, half, i) ==
  Value(Uint16(WIB2Expanded[half], FirstFrame(i)), TestFrame(offline, 14)) + min_ch(offline)
=============================================================================
