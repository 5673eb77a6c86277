----------------------------- MODULE MCFindHits -----------------------------
(***************************************************************************)
(* find_hits, from the frame to the trigger primitives: the expansion      *)
(* first, by a walk over every slot of the expanded registers, at every    *)
(* time of a superchunk, of the two kinds of wires of a ProtoWIB link and  *)
(* of the two halves of a WIB2 link; then the finder.  For the finder: two *)
(* lanes of a 64-bit element, one of them with a sample small enough to be *)
(* over a fixed threshold without any charge.                              *)
(***************************************************************************)
EXTENDS HitFinder, ChannelMap, TLC

MCADCs == 0 :> {0, 50} @@ 1 :> {0, 12}
MCTaps == <<4, 12, 0>>

VARIABLES wires,  \* whose registers are looked at, or "expanded": all were
          ichan,  \* which slot of them
          itime   \* at which time

walk == <<wires, ichan, itime>>

NextWires ==
  [w \in {"collection", "induction", "first half", "second half"} |->
     CASE w = "collection" -> "induction" [] w = "induction" -> "first half"
       [] w = "first half" -> "second half" [] OTHER -> "expanded"]
Size(w) == CASE w = "collection" -> 96 [] w = "induction" -> 160 [] OTHER -> 128

Expanding == wires # "expanded"
LastTime  == itime = FramesPerMsg - 1
LastSlot  == ichan = Size(wires) - 1

NextTime == /\ Expanding /\ ~LastTime
            /\ itime' = itime + 1
            /\ UNCHANGED <<wires, ichan>>
NextSlot == /\ Expanding /\ LastTime /\ ~LastSlot
            /\ itime' = 0
            /\ ichan' = ichan + 1
            /\ UNCHANGED wires
NextPart == /\ Expanding /\ LastTime /\ LastSlot
            /\ itime' = 0
            /\ ichan' = 0
            /\ wires' = NextWires[wires]

FindHitsInit == Init /\ wires = "collection" /\ ichan = 0 /\ itime = 0

Expand   == (NextTime \/ NextSlot \/ NextPart) /\ UNCHANGED vars
FindHits == ~Expanding /\ Next /\ UNCHANGED walk

FindHitsNext == Expand \/ FindHits
FindHitsSpec == FindHitsInit /\ [][FindHitsNext]_<<vars, walk>>

WIBLink  == wires \in {"collection", "induction"}
LinkHalf == IF wires = "first half" THEN 0 ELSE 1
Regs     == IF WIBLink THEN Expanded[wires] ELSE WIB2Expanded[LinkHalf]

\* The channel the tables put here.  A WIB2 register holds 16 channels in
\* order, except that the last of them is in slot 8, the only one left free
\* when the others are in place.
WIB2Order(s) == IF s < 8 THEN s ELSE IF s = 8 THEN 15 ELSE s - 1
Channel ==
  CASE wires = "collection" -> collection_index_to_channel(ichan)
    [] wires = "induction"  -> induction_index_to_channel(ichan)
    [] OTHER -> 128 * LinkHalf + 16 * (ichan \div 16) + WIB2Order(ichan % 16)

\* The 12 or 14 bits of an ADC, in order, and zeros above
Adc(ch, width) == [b \in 0 .. 15 |-> IF b < width THEN BitOf(ch, b) ELSE 0]

-----------------------------------------------------------------------------
\* The vector code takes the bits of the packed frame apart with some twenty
\* shuffles, shifts and blends; the tables of FrameExpand.cpp were written
\* down independently.  The slot of every channel holds exactly the bits of
\* that channel's ADC, in order, sampled at the time the slot stands for, and
\* the scalar index get16 and the vector index get256 meet in it.
SlotHoldsItsChannel ==
  Expanding =>
  LET place  == get16(ichan, itime)
      vector == get256(IF wires = "induction" THEN 10 ELSE 6, ichan \div 16, itime)
  IN  /\ Uint16(Regs, place) = Adc(Channel, IF WIBLink THEN 12 ELSE 14)
      /\ TimeOf(Regs, place) = itime
      /\ place = 16 * vector + (ichan % 16)

\* The other ways through the expansion agree with the one the processor uses:
\* the one for collection channels only slot by slot, and the one for all
\* channels in that each channel has one slot.  The two registers that the
\* abandoned one blends, and does not return, hold every bit of every
\* collection channel of a block.
PathsAgree ==
  WIBLink /\ itime = 0 =>
    /\ Cardinality({p \in (0 .. 15) \X (0 .. 15) :
                      Slot(AllChannels[p[1]], p[2]) = Adc(Channel, 12)}) = 1
    /\ wires = "collection" =>
         LET s == collection_blends(Channel \div 64)
         IN  /\ Slot(CollectionOnly[ichan \div 16], ichan % 16) = Uint16(Regs, FirstFrame(ichan))
             /\ \A b \in 0 .. 11 : \E n \in Bits : BitOf(Channel, b) \in {s[1][n], s[2][n]}

\* Offline numbers of the channels of a link: those the tables were made for,
\* and two that reach the largest distance an ADC can hold, in either order
TableMap ==
  [ch \in LinkChannels |->
     IF \E i \in 0 .. 95 : collection_index_to_channel(i) = ch
     THEN 9472 + collection_index_to_offline(CHOOSE i \in 0 .. 95 : collection_index_to_channel(i) = ch)
     ELSE 7680 + induction_index_to_offline(CHOOSE i \in 0 .. 159 : induction_index_to_channel(i) = ch)]
WideMap(width) ==
  LET step == 2 ^ width \div 256
  IN  [ch \in LinkChannels |-> 100 + step * ch + (IF ch = 255 THEN step - 1 ELSE 0)]
Reversed(m) == [ch \in LinkChannels |-> m[255 - ch]]

\* Every trigger primitive carries the offline number of the channel whose
\* samples it was found in: the number the map gives a slot is the one of the
\* channel whose ADC the expansion puts there.  This needs the offline numbers
\* of one link to differ by less than 2^12 (2^14), or the test frame cannot
\* hold them.
OfflineMapRight ==
  Expanding /\ itime = 0 =>
    \A offline \in {TableMap, WideMap(IF WIBLink THEN 12 ELSE 14), Reversed(WideMap(12))} :
      offline[Channel] = IF WIBLink
        THEN get_register_to_offline_channel_map(offline, wires, ichan)
        ELSE get_register_to_offline_channel_map_wib2(offline, LinkHalf, ichan)
=============================================================================
