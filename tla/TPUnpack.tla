------------------------------ MODULE TPUnpack ------------------------------
(***************************************************************************)
(* tp_unpack, the stage RAWWIBTriggerPrimitiveProcessor puts in the place  *)
(* of timestamp_check.  A chunk holds TP frames of the firmware one after  *)
(* the other: a header, the hits, and a pedestal block that is known by    *)
(* its last word, 0xDEADBEEF, each a subframe of 12 bytes.  Nothing tells  *)
(* how long a frame is, so its end is looked for.  Offsets are in          *)
(* subframes.                                                              *)
(***************************************************************************)
EXTENDS Integers, Sequences

CONSTANTS
  MaxTPFrames,  \* bound: TP frames of a chunk
  MaxTPHits     \* bound: hits of a TP frame

ASSUME TPUnpackAssumption == MaxTPFrames \in Nat /\ MaxTPHits \in Nat

VARIABLES
  srcbuffer,  \* subframes: [frame, part, deadbeef], part 0 the header
  whole,      \* the chunk is a multiple of subframes
  stage,      \* "filling", "unpacking" or "done"
  offset,
  stitched,   \* what tp_stitch is called with: [header, pedinfo, blocks]
  tpframes    \* history: how many hits the frames of the chunk have

tpVars == <<srcbuffer, whole, stage, offset, stitched, tpframes>>

TPInit ==
  /\ srcbuffer = <<>> /\ whole = TRUE /\ stage = "filling" /\ offset = 0
  /\ stitched = <<>> /\ tpframes = <<>>

-----------------------------------------------------------------------------
(* The firmware and the link *)

\* A frame of the next number, with nhits hits
TPFrame(nhits) ==
  [i \in 1 .. nhits + 2 |->
     [frame |-> Len(tpframes) + 1, part |-> i - 1, deadbeef |-> i = nhits + 2]]

FillChunk ==
  /\ stage = "filling" /\ Len(tpframes) < MaxTPFrames
  /\ \E nhits \in 0 .. MaxTPHits : /\ srcbuffer' = srcbuffer \o TPFrame(nhits)
                                   /\ tpframes' = Append(tpframes, nhits)
  /\ UNCHANGED <<whole, stage, offset, stitched>>

\* The chunk ends where its memory does, maybe in the middle of a frame
CutChunk ==
  /\ stage = "filling"
  /\ \E cut \in 0 .. Len(srcbuffer) : srcbuffer' = SubSeq(srcbuffer, 1, Len(srcbuffer) - cut)
  /\ whole' \in BOOLEAN
  /\ stage' = IF srcbuffer' = <<>> \/ ~whole' THEN "done" ELSE "unpacking"
  /\ UNCHANGED <<offset, stitched, tpframes>>

-----------------------------------------------------------------------------
(* tp_unpack *)

Subframe(n) == srcbuffer[offset + n + 1]

\* Mutant: the search begins one subframe later
EndOfFrame_FromThree(n) ==
  /\ n >= 3 /\ offset + n < Len(srcbuffer) /\ Subframe(n).deadbeef
  /\ \A k \in 3 .. n - 1 : ~Subframe(k).deadbeef

\* n is the first subframe after the first hit that is a pedestal block
EndOfFrame(n) ==
  /\ n >= 2 /\ offset + n < Len(srcbuffer) /\ Subframe(n).deadbeef
  /\ \A k \in 2 .. n - 1 : ~Subframe(k).deadbeef

\* Mutant: n taken to count the subframes
nhits_NisLength(n) == n - 2

nhits(n) == n - 1

\* The block it copies to the place of the pedestals is the last hit
UnpackFrame ==
  /\ stage = "unpacking"
  /\ \E n \in 2 .. Len(srcbuffer) :
       /\ EndOfFrame(n)
       /\ stitched' = Append(stitched, [header  |-> Subframe(0),
                                        pedinfo |-> Subframe(n - 1),
                                        blocks  |-> [i \in 1 .. nhits(n) |-> Subframe(i)]])
       /\ offset' = offset + 2 + nhits(n)
  /\ UNCHANGED <<srcbuffer, whole, stage, tpframes>>

\* The end of the chunk, or a rest without pedestals
EndUnpack ==
  /\ stage = "unpacking"
  /\ \A n \in 2 .. Len(srcbuffer) : ~EndOfFrame(n)
  /\ stage' = "done"
  /\ UNCHANGED <<srcbuffer, whole, offset, stitched, tpframes>>

tp_unpack == UnpackFrame \/ EndUnpack

\* The next chunk finds nothing of this one
NextChunk ==
  /\ stage = "done"
  /\ srcbuffer' = <<>> /\ whole' = TRUE /\ stage' = "filling" /\ offset' = 0
  /\ stitched' = <<>> /\ tpframes' = <<>>

-----------------------------------------------------------------------------
(* Properties *)

\* The frames of which the chunk holds everything
Complete(f) == whole /\ \E i \in DOMAIN srcbuffer : srcbuffer[i].frame = f /\ srcbuffer[i].deadbeef

\* Where tp_stitch gets hit h of frame f
PlacesOf(f, h) ==
  {p \in (1 .. Len(stitched)) \X (1 .. Len(srcbuffer)) :
     LET blocks == stitched[p[1]].blocks
     IN  p[2] <= Len(blocks) /\ blocks[p[2]].frame = f /\ blocks[p[2]].part = h
           /\ ~blocks[p[2]].deadbeef}

(* A frame comes out of the chunk as it was put in, its header with all of  *)
(* its hits and nothing else, wherever the chunk was cut.  A frame without  *)
(* hits is not expected (the search for its end begins after the first      *)
(* hit) and swallows the frame behind it, but none further on.              *)
UnpackedAsSent ==
  stage = "done" =>
    \A f \in DOMAIN tpframes :
      /\ Complete(f) /\ tpframes[f] > 0
      /\ f > 1 => tpframes[f - 1] > 0
      => \E u \in DOMAIN stitched :
           /\ stitched[u].header.frame = f /\ stitched[u].header.part = 0
           /\ Len(stitched[u].blocks) = tpframes[f]
           /\ \A h \in 1 .. tpframes[f] : stitched[u].blocks[h].frame = f /\ stitched[u].blocks[h].part = h

(* Whatever the frames are, tp_stitch gets every hit of a complete frame    *)
(* once, maybe with the header of another, and none of a frame that was     *)
(* cut off.                                                                 *)
EveryHitStitched ==
  stage = "done" =>
    \A f \in DOMAIN tpframes : \A h \in 1 .. tpframes[f] :
      IF Complete(f) THEN \E p \in PlacesOf(f, h) : PlacesOf(f, h) = {p}
      ELSE PlacesOf(f, h) = {}

=============================================================================
