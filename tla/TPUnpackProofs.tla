--------------------------- MODULE TPUnpackProofs ---------------------------
(***************************************************************************)
(* Proofs about tp_unpack, for chunks of any number of TP frames with any  *)
(* number of hits, cut anywhere.                                           *)
(*                                                                         *)
(* The invariant says where the frames lie in the chunk (at), although the *)
(* code does not know it, and from where to where each call of tp_stitch   *)
(* reached (o).  Every call begins with a frame and ends with one: the     *)
(* same, or the next if the first has no hits.                             *)
(***************************************************************************)
EXTENDS Preprocess, SequenceTheorems, TLAPS

Sub  == [frame : Nat, part : Nat, deadbeef : BOOLEAN]
Unit == [header : Sub, pedinfo : Sub, blocks : Seq(Sub)]

UnpackType ==
  /\ srcbuffer \in Seq(Sub)
  /\ whole \in BOOLEAN
  /\ stage \in {"filling", "unpacking", "done"}
  /\ offset \in Nat
  /\ stitched \in Seq(Unit)
  /\ tpframes \in Seq(Nat)

NFrames == Len(tpframes)
NUnits  == Len(stitched)

(* at[f] subframes are before frame f; the buffer holds the beginning of   *)
(* what was sent.                                                          *)
Layout(at) ==
  /\ at \in [1 .. NFrames + 1 -> Nat]
  /\ at[1] = 0
  /\ \A f \in 1 .. NFrames : at[f + 1] = at[f] + tpframes[f] + 2
  /\ \A f, g \in 1 .. NFrames + 1 : f < g => at[f] < at[g]
  /\ Len(srcbuffer) <= at[NFrames + 1]
  /\ \A i \in DOMAIN srcbuffer :
       \E f \in 1 .. NFrames : at[f] < i /\ i <= at[f + 1]
  /\ \A i \in DOMAIN srcbuffer, f \in 1 .. NFrames :
       at[f] < i /\ i <= at[f + 1] =>
         srcbuffer[i] = [frame |-> f, part |-> i - at[f] - 1,
                         deadbeef |-> i = at[f + 1]]

(* Call u of tp_stitch is about the subframes after o[u], up to o[u + 1].  *)
Origins(at, o) ==
  /\ o \in [1 .. NUnits + 1 -> Nat]
  /\ o[NUnits + 1] = offset
  /\ \A u, v \in 1 .. NUnits + 1 : u < v => o[u] < o[v]
  /\ \A i \in 1 .. offset : \E u \in 1 .. NUnits : o[u] < i /\ i <= o[u + 1]
  /\ \A u \in 1 .. NUnits : \E f \in 1 .. NFrames :
       /\ o[u] = at[f]
       /\ \/ tpframes[f] > 0 /\ o[u + 1] = at[f + 1]
          \/ tpframes[f] = 0 /\ f < NFrames /\ o[u + 1] = at[f + 2]
  /\ \A u \in 1 .. NUnits :
       /\ stitched[u].header = srcbuffer[o[u] + 1]
       /\ Len(stitched[u].blocks) = o[u + 1] - o[u] - 2
       /\ \A b \in 1 .. Len(stitched[u].blocks) :
            stitched[u].blocks[b] = srcbuffer[o[u] + b + 1]

(* offset is where a frame begins.  In the end nothing that is complete is *)
(* left, but for a frame without hits.                                     *)
Stages(at) ==
  /\ offset <= Len(srcbuffer)
  /\ \E f \in 1 .. NFrames + 1 : offset = at[f]
  /\ stage = "filling" =>
       Len(srcbuffer) = at[NFrames + 1] /\ stitched = <<>> /\ offset = 0
  /\ stage = "unpacking" => whole
  /\ ~whole => stitched = <<>>
  /\ stage = "done" /\ whole =>
       \A f \in 1 .. NFrames :
         at[f + 1] <= Len(srcbuffer) /\ tpframes[f] > 0 => at[f + 1] <= offset

UInv ==
  /\ UnpackType
  /\ \E at : /\ Layout(at) /\ Stages(at)
             /\ \E o : Origins(at, o)

----------------------------------------------------------------------------
(* While no call was made there is nothing to say about calls.             *)
LEMMA NoUnits ==
  ASSUME stitched = <<>>, offset = 0, NEW at
  PROVE  Origins(at, [u \in 1 .. 1 |-> 0])
<1>1. NUnits = 0
  BY DEF NUnits
<1> QED
  BY <1>1 DEF Origins

EmptyChunk ==
  /\ srcbuffer = <<>> /\ whole = TRUE /\ stage = "filling" /\ offset = 0
  /\ stitched = <<>> /\ tpframes = <<>>

LEMMA EmptyInv == EmptyChunk => UInv
<1> SUFFICES ASSUME EmptyChunk PROVE UInv
  OBVIOUS
<1> DEFINE at == [f \in 1 .. 1 |-> 0]
<1>1. NFrames = 0 /\ Len(srcbuffer) = 0 /\ DOMAIN srcbuffer = {}
  BY DEF NFrames, EmptyChunk
<1>2. UnpackType
  BY DEF UnpackType, EmptyChunk
<1>3. Layout(at)
  BY <1>1 DEF Layout
<1>4. Stages(at)
  BY <1>1 DEF Stages, EmptyChunk
<1> QED
  BY <1>2, <1>3, <1>4, NoUnits DEF UInv, EmptyChunk

LEMMA InitUnpack == Init => UInv
BY EmptyInv DEF Init, TPInit, EmptyChunk

(* The chunk that is filled next finds nothing of the last one.            *)
LEMMA NextChunkStep == NextChunk => UInv'
<1>1. NextChunk => EmptyChunk'
  BY DEF NextChunk, EmptyChunk
<1> QED
  BY <1>1, EmptyInv, PTL

(* A frame arrives behind the others.                                      *)
LEMMA FillStep == ASSUME UInv, FillChunk PROVE UInv'
<1>1. PICK at : Layout(at) /\ Stages(at)
  BY DEF UInv
<1>n. PICK n \in Nat : n = NFrames
  BY DEF UInv, UnpackType, NFrames
<1>2. PICK hits \in 0 .. MaxTPHits :
        srcbuffer' = srcbuffer \o TPFrame(hits) /\ tpframes' = Append(tpframes, hits)
  BY DEF FillChunk
<1>3. /\ UNCHANGED <<whole, stage, offset, stitched>>
      /\ stage = "filling" /\ stitched = <<>> /\ offset = 0
      /\ Len(srcbuffer) = at[n + 1]
      /\ hits \in Nat
  BY <1>1, <1>n, <1>2, TPUnpackAssumption DEF FillChunk, Stages
<1>4. /\ DOMAIN tpframes = 1 .. n /\ tpframes' \in Seq(Nat)
      /\ Len(tpframes') = n + 1 /\ tpframes'[n + 1] = hits
      /\ \A f \in 1 .. n : tpframes'[f] = tpframes[f]
  BY <1>n, <1>2, <1>3 DEF UInv, UnpackType, NFrames
<1> DEFINE new == TPFrame(hits)
           m == at[n + 1]
<1>5. /\ new \in Seq(Sub) /\ Len(new) = hits + 2
      /\ \A i \in 1 .. hits + 2 :
           new[i] = [frame |-> n + 1, part |-> i - 1, deadbeef |-> i = hits + 2]
  <2>1. new = [i \in 1 .. hits + 2 |->
                 [frame |-> n + 1, part |-> i - 1, deadbeef |-> i = hits + 2]]
    BY <1>n DEF TPFrame, NFrames
  <2>2. hits + 2 \in Nat /\ n + 1 \in Nat
    BY <1>3
  <2>3. \A i \in 1 .. hits + 2 :
          [frame |-> n + 1, part |-> i - 1, deadbeef |-> i = hits + 2] \in Sub
    BY <2>2 DEF Sub
  <2> HIDE DEF new
  <2> QED
    BY <2>1, <2>2, <2>3
<1>6. /\ at \in [1 .. n + 1 -> Nat] /\ m \in Nat
      /\ at[1] = 0
      /\ \A f \in 1 .. n : at[f + 1] = at[f] + tpframes[f] + 2
      /\ \A f, g \in 1 .. n + 1 : f < g => at[f] < at[g]
  BY <1>1, <1>n DEF Layout
<1> HIDE DEF new, m
<1>7. /\ srcbuffer' \in Seq(Sub) /\ Len(srcbuffer') = m + (hits + 2)
      /\ DOMAIN srcbuffer = 1 .. m /\ DOMAIN srcbuffer' = 1 .. m + (hits + 2)
      /\ \A i \in 1 .. m : srcbuffer'[i] = srcbuffer[i]
      /\ \A i \in m + 1 .. m + (hits + 2) : srcbuffer'[i] = new[i - m]
  <2>1. srcbuffer \in Seq(Sub) /\ Len(srcbuffer) = m
    BY <1>3 DEF UInv, UnpackType, m
  <2>2. srcbuffer' = srcbuffer \o new
    BY <1>2 DEF new
  <2>3. /\ srcbuffer \o new \in Seq(Sub)
        /\ Len(srcbuffer \o new) = Len(srcbuffer) + Len(new)
        /\ \A i \in 1 .. Len(srcbuffer) + Len(new) :
             (srcbuffer \o new)[i] = IF i <= Len(srcbuffer) THEN srcbuffer[i]
                                     ELSE new[i - Len(srcbuffer)]
    BY ZenonT(40), <1>5, <2>1, ConcatProperties
  <2>4. \A i \in 1 .. m + (hits + 2) :
          srcbuffer'[i] = IF i <= m THEN srcbuffer[i] ELSE new[i - m]
    BY <1>5, <2>1, <2>2, <2>3
  <2>5. /\ srcbuffer' \in Seq(Sub) /\ Len(srcbuffer') = m + (hits + 2)
        /\ DOMAIN srcbuffer = 1 .. m
    BY <1>5, <2>1, <2>2, <2>3
  <2>6. DOMAIN srcbuffer' = 1 .. m + (hits + 2)
    BY <2>5
  <2> QED
    BY <1>3, <1>6, <2>4, <2>5, <2>6
<1> DEFINE at2 == [f \in 1 .. n + 2 |-> IF f <= n + 1 THEN at[f] ELSE m + hits + 2]
<1>8. /\ at2 \in [1 .. (n + 1) + 1 -> Nat]
      /\ \A f \in 1 .. n + 1 : at2[f] = at[f]
      /\ at2[n + 1] = m /\ at2[n + 2] = m + hits + 2
  BY <1>3, <1>6 DEF m
<1>9. \A f \in 1 .. n + 1 : at[f] <= m
  BY <1>6 DEF m
<1> HIDE DEF at2
<1>10. \A f \in 1 .. n + 1 : at2[f + 1] = at2[f] + tpframes'[f] + 2
  <2>1. ASSUME NEW f \in 1 .. n PROVE at2[f + 1] = at2[f] + tpframes'[f] + 2
    <3>1. f + 1 \in 1 .. n + 1 /\ f \in 1 .. n + 1
      BY <1>n
    <3> QED
      BY <1>4, <1>6, <1>8, <3>1
  <2>2. at2[n + 2] = at2[n + 1] + tpframes'[n + 1] + 2
    BY <1>3, <1>4, <1>6, <1>8
  <2> QED
    BY <2>1, <2>2
<1>11. \A f, g \in 1 .. (n + 1) + 1 : f < g => at2[f] < at2[g]
  <2> SUFFICES ASSUME NEW f \in 1 .. n + 2, NEW g \in 1 .. n + 2, f < g
               PROVE  at2[f] < at2[g]
    OBVIOUS
  <2>1. f \in 1 .. n + 1 /\ at2[f] = at[f] /\ at[f] \in Nat
    BY <1>6, <1>8
  <2>2. CASE g \in 1 .. n + 1
    BY <1>6, <1>8, <2>1, <2>2
  <2>3. CASE g = n + 2
    BY <1>3, <1>6, <1>8, <1>9, <2>1, <2>3
  <2> QED
    BY <2>2, <2>3
<1>12. \A i \in DOMAIN srcbuffer' :
         \E f \in 1 .. n + 1 : at2[f] < i /\ i <= at2[f + 1]
  <2> SUFFICES ASSUME NEW i \in DOMAIN srcbuffer'
               PROVE  \E f \in 1 .. n + 1 : at2[f] < i /\ i <= at2[f + 1]
    OBVIOUS
  <2>1. CASE i \in DOMAIN srcbuffer
    <3>1. PICK f \in 1 .. n : at[f] < i /\ i <= at[f + 1]
      BY <1>1, <1>n, <2>1 DEF Layout
    <3>2. f \in 1 .. n + 1 /\ f + 1 \in 1 .. n + 1
      BY <1>n
    <3> QED
      BY <1>8, <3>1, <3>2
  <2>2. CASE i \notin DOMAIN srcbuffer
    <3>1. at2[n + 1] < i /\ i <= at2[(n + 1) + 1]
      BY <1>3, <1>6, <1>7, <1>8, <2>2
    <3> QED
      BY <3>1
  <2> QED
    BY <2>1, <2>2
<1>13. ASSUME NEW i \in DOMAIN srcbuffer', NEW f \in 1 .. n + 1,
              at2[f] < i, i <= at2[f + 1]
       PROVE  srcbuffer'[i] = [frame |-> f, part |-> i - at2[f] - 1,
                               deadbeef |-> i = at2[f + 1]]
  <2>1. CASE f \in 1 .. n
    <3>1. f + 1 \in 1 .. n + 1 /\ at2[f] = at[f] /\ at2[f + 1] = at[f + 1]
      BY <1>8, <2>1
    <3>2. i \in DOMAIN srcbuffer
      BY <1>6, <1>7, <1>9, <1>13, <3>1
    <3> QED
      BY SMTT(30), <1>1, <1>n, <1>7, <1>13, <2>1, <3>1, <3>2 DEF Layout
  <2>2. CASE f = n + 1
    <3>1. i \in m + 1 .. m + (hits + 2) /\ i - m \in 1 .. hits + 2
      BY <1>3, <1>6, <1>7, <1>8, <1>13, <2>2
    <3>2. srcbuffer'[i] = [frame |-> n + 1, part |-> (i - m) - 1,
                           deadbeef |-> i - m = hits + 2]
      BY <1>5, <1>7, <3>1
    <3>3. i \in Int /\ m \in Int /\ hits \in Int
      BY <1>3, <1>6, <3>1
    <3>4. (i - m = hits + 2) <=> (i = m + hits + 2)
      BY <3>3
    <3> QED
      BY <1>8, <2>2, <3>2, <3>4
  <2> QED
    BY <2>1, <2>2
<1>14. NFrames' = n + 1
  BY <1>4 DEF NFrames
<1>15. Layout(at2)'
  BY <1>6, <1>7, <1>8, <1>10, <1>11, <1>12, <1>13, <1>14 DEF Layout
<1>16. Stages(at2)'
  BY <1>3, <1>6, <1>7, <1>8, <1>14 DEF Stages
<1>17. UnpackType'
  BY <1>3, <1>4, <1>7 DEF UInv, UnpackType
<1>18. Origins(at2, [u \in 1 .. 1 |-> 0])'
  <2>1. stitched' = <<>> /\ offset' = 0 /\ NUnits' = 0
    BY <1>3 DEF NUnits
  <2> QED
    BY <2>1 DEF Origins
<1> QED
  BY <1>15, <1>16, <1>17, <1>18 DEF UInv

(* The chunk ends; the frames lie where they did.                          *)
LEMMA CutStep == ASSUME UInv, CutChunk PROVE UInv'
<1>1. PICK at : Layout(at) /\ Stages(at)
  BY DEF UInv
<1>2. PICK cut \in 0 .. Len(srcbuffer) :
        srcbuffer' = SubSeq(srcbuffer, 1, Len(srcbuffer) - cut)
  BY DEF CutChunk
<1>3. /\ UNCHANGED <<offset, stitched, tpframes>>
      /\ stitched = <<>> /\ offset = 0
      /\ whole' \in BOOLEAN
      /\ stage' = IF srcbuffer' = <<>> \/ ~whole' THEN "done" ELSE "unpacking"
  BY <1>1 DEF CutChunk, Stages
<1>4. srcbuffer \in Seq(Sub) /\ Len(srcbuffer) \in Nat /\ DOMAIN srcbuffer = 1 .. Len(srcbuffer)
  BY DEF UInv, UnpackType
<1>5. PICK l \in 0 .. Len(srcbuffer) : l = Len(srcbuffer) - cut
  <2>1. Len(srcbuffer) - cut \in 0 .. Len(srcbuffer)
    BY <1>4
  <2> QED
    BY <2>1
<1>6. /\ srcbuffer' \in Seq(Sub) /\ Len(srcbuffer') = l
      /\ DOMAIN srcbuffer' = 1 .. l /\ 1 .. l \subseteq DOMAIN srcbuffer
      /\ \A i \in 1 .. l : srcbuffer'[i] = srcbuffer[i]
  <2>1. \A i \in 1 .. l : srcbuffer[i] \in Sub
    BY <1>4
  <2>2. /\ SubSeq(srcbuffer, 1, l) \in Seq(Sub)
        /\ Len(SubSeq(srcbuffer, 1, l)) = IF 1 <= l THEN l - 1 + 1 ELSE 0
        /\ \A i \in 1 .. l - 1 + 1 : SubSeq(srcbuffer, 1, l)[i] = srcbuffer[1 + i - 1]
    BY <1>4, <2>1, SubSeqProperties
  <2>3. srcbuffer' = SubSeq(srcbuffer, 1, l)
    BY <1>2, <1>5
  <2>4. srcbuffer' \in Seq(Sub) /\ Len(srcbuffer') = l
    BY <1>4, <2>2, <2>3
  <2>5. \A i \in 1 .. l : i \in 1 .. l - 1 + 1 /\ 1 + i - 1 = i
    BY <1>4
  <2> QED
    BY <1>4, <2>2, <2>3, <2>4, <2>5
<1>7. NFrames' = NFrames /\ NFrames \in Nat
  BY <1>3 DEF NFrames, UInv, UnpackType
<1>8. Layout(at)'
  <2>1. Len(srcbuffer') <= at[NFrames + 1]
    <3>1. at[NFrames + 1] \in Nat /\ Len(srcbuffer) <= at[NFrames + 1]
      BY <1>1, <1>7 DEF Layout
    <3> QED
      BY <1>4, <1>6, <3>1
  <2>2. \A i \in DOMAIN srcbuffer' : i \in DOMAIN srcbuffer /\ srcbuffer'[i] = srcbuffer[i]
    BY <1>6
  <2>3. tpframes' = tpframes
    BY <1>3
  <2> QED
    BY <1>1, <1>7, <2>1, <2>2, <2>3 DEF Layout
<1>9. Stages(at)'
  <2>1. /\ offset' <= Len(srcbuffer') /\ offset' = at[1] /\ 1 \in 1 .. NFrames + 1
    BY <1>1, <1>3, <1>6, <1>7 DEF Layout
  <2>2. stage' # "filling" /\ (stage' = "unpacking" => whole')
    BY <1>3
  <2>3. ASSUME stage' = "done", whole', NEW f \in 1 .. NFrames,
               at[f + 1] <= Len(srcbuffer')
        PROVE  FALSE
    <3>1. Len(srcbuffer') = 0
      BY <1>3, <1>6, <2>3
    <3>2. /\ 1 \in 1 .. NFrames + 1 /\ f + 1 \in 1 .. NFrames + 1 /\ 1 < f + 1
          /\ at[1] = 0 /\ at[f + 1] \in Nat
      BY <1>1, <1>7 DEF Layout
    <3>3. at[1] < at[f + 1]
      BY <1>1, <3>2 DEF Layout
    <3> QED
      BY <2>3, <3>1, <3>2, <3>3
  <2> QED
    BY <1>3, <1>7, <2>1, <2>2, <2>3 DEF Stages
<1>10. UnpackType'
  BY <1>3, <1>6 DEF UInv, UnpackType
<1>11. Origins(at, [u \in 1 .. 1 |-> 0])'
  <2>1. stitched' = <<>> /\ offset' = 0 /\ NUnits' = 0
    BY <1>3 DEF NUnits
  <2> QED
    BY <2>1 DEF Origins
<1> QED
  BY <1>8, <1>9, <1>10, <1>11 DEF UInv

----------------------------------------------------------------------------
(* The frame that a subframe belongs to, and what of it is a pedestal.     *)
LEMMA Places ==
  ASSUME UnpackType, NEW at, Layout(at), NEW i \in DOMAIN srcbuffer
  PROVE  /\ i \in Nat /\ NFrames \in Nat
         /\ \E f \in 1 .. NFrames :
              /\ at[f] < i /\ i <= at[f + 1]
              /\ srcbuffer[i].frame = f /\ srcbuffer[i].part = i - at[f] - 1
              /\ srcbuffer[i].deadbeef <=> i = at[f + 1]
<1>1. i \in Nat /\ NFrames \in Nat
  BY DEF UnpackType, NFrames
<1>2. PICK f \in 1 .. NFrames : at[f] < i /\ i <= at[f + 1]
  BY DEF Layout
<1>3. srcbuffer[i] = [frame |-> f, part |-> i - at[f] - 1,
                      deadbeef |-> i = at[f + 1]]
  BY <1>2 DEF Layout
<1> DEFINE e == srcbuffer[i]
           r == [frame |-> f, part |-> i - at[f] - 1, deadbeef |-> i = at[f + 1]]
<1>4. r.frame = f /\ r.part = i - at[f] - 1 /\ (r.deadbeef <=> i = at[f + 1])
  OBVIOUS
<1>5. e = r
  BY <1>3
<1> HIDE DEF e, r
<1>6. e.frame = f /\ e.part = i - at[f] - 1 /\ (e.deadbeef <=> i = at[f + 1])
  BY <1>4, <1>5
<1> QED
  BY <1>1, <1>2, <1>6 DEF e

(* Where frames begin, in order.                                           *)
LEMMA Starts ==
  ASSUME UnpackType, NEW at, Layout(at)
  PROVE  /\ NFrames \in Nat
         /\ \A f \in 1 .. NFrames + 1 : at[f] \in Nat
         /\ \A f \in 1 .. NFrames : /\ f + 1 \in 1 .. NFrames + 1
                                    /\ at[f + 1] = at[f] + tpframes[f] + 2
                                    /\ tpframes[f] \in Nat
         /\ \A f, g \in 1 .. NFrames + 1 : f < g => at[f] < at[g]
         /\ \A f, g \in 1 .. NFrames + 1 : f < g => at[f + 1] <= at[g]
<1>1. NFrames \in Nat /\ DOMAIN tpframes = 1 .. NFrames
  BY DEF UnpackType, NFrames
<1>2. /\ \A f \in 1 .. NFrames + 1 : at[f] \in Nat
      /\ \A f, g \in 1 .. NFrames + 1 : f < g => at[f] < at[g]
  BY <1>1 DEF Layout
<1>3. \A f \in 1 .. NFrames : /\ f + 1 \in 1 .. NFrames + 1
                              /\ at[f + 1] = at[f] + tpframes[f] + 2
                              /\ tpframes[f] \in Nat
  BY SMTT(30), <1>1 DEF Layout, UnpackType
<1>4. ASSUME NEW f \in 1 .. NFrames + 1, NEW g \in 1 .. NFrames + 1, f < g
      PROVE  at[f + 1] <= at[g]
  <2>1. f + 1 \in 1 .. NFrames + 1 /\ (f + 1 = g \/ f + 1 < g)
    BY <1>1, <1>4
  <2> QED
    BY <1>2, <2>1
<1> QED
  BY <1>1, <1>2, <1>3, <1>4

LEMMA Pedestals ==
  ASSUME UnpackType, NEW at, Layout(at), NEW i \in DOMAIN srcbuffer
  PROVE  srcbuffer[i].deadbeef <=> \E g \in 1 .. NFrames : i = at[g + 1]
<1>1. PICK f \in 1 .. NFrames :
        /\ at[f] < i /\ i <= at[f + 1]
        /\ srcbuffer[i].deadbeef <=> i = at[f + 1]
  BY Places
<1>2. ASSUME NEW g \in 1 .. NFrames, i = at[g + 1] PROVE g = f
  <2>1. /\ f \in 1 .. NFrames + 1 /\ g \in 1 .. NFrames + 1
        /\ at[f] \in Nat /\ at[g] \in Nat /\ at[g + 1] \in Nat /\ at[f + 1] \in Nat
        /\ at[g] < at[g + 1]
    BY Starts
  <2>2. CASE g < f
    BY <1>1, <1>2, <2>1, <2>2, Starts
  <2>3. CASE f < g
    BY <1>1, <1>2, <2>1, <2>3, Starts
  <2> QED
    BY <2>1, <2>2, <2>3
<1> QED
  BY <1>1, <1>2

(* Positions as offsets from the beginning of a frame.                     *)
LEMMA Between ==
  ASSUME NEW a \in Nat, NEW n \in Nat, NEW e \in Nat, e < a + n + 1, e >= a + 3
  PROVE  \E k \in 2 .. n - 1 : a + k + 1 = e
<1>1. PICK k \in Int : k = e - a - 1
  OBVIOUS
<1>2. k \in 2 .. n - 1 /\ a + k + 1 = e
  BY <1>1
<1> QED
  BY <1>2

LEMMA Inside ==
  ASSUME NEW a \in Nat, NEW n \in Nat, NEW k \in 2 .. n - 1, NEW l \in Nat,
         a + n + 1 <= l
  PROVE  a + k + 1 \in 1 .. l /\ a + k + 1 < a + n + 1 /\ a + k + 1 >= a + 3
OBVIOUS

(* The pedestals that the search finds are those of the frame, or of the   *)
(* next one if the frame has no hits.                                      *)
LEMMA FrameEnd ==
  ASSUME UnpackType, NEW at, Layout(at), NEW f \in 1 .. NFrames + 1,
         offset = at[f], NEW n \in Nat, EndOfFrame(n)
  PROVE  /\ f \in 1 .. NFrames
         /\ \/ tpframes[f] > 0 /\ offset + n + 1 = at[f + 1]
            \/ tpframes[f] = 0 /\ f < NFrames /\ offset + n + 1 = at[f + 2]
<1> DEFINE pos == offset + n + 1
<1>1. /\ offset \in Nat /\ pos \in Nat /\ n >= 2
      /\ DOMAIN srcbuffer = 1 .. Len(srcbuffer) /\ Len(srcbuffer) \in Nat
      /\ pos \in DOMAIN srcbuffer
      /\ srcbuffer[pos].deadbeef
      /\ \A k \in 2 .. n - 1 : ~ srcbuffer[offset + k + 1].deadbeef
  BY DEF UnpackType, EndOfFrame, Subframe
<1>2. PICK g \in 1 .. NFrames : pos = at[g + 1]
  BY <1>1, Pedestals
<1>3. /\ NFrames \in Nat /\ f \in Nat /\ g \in 1 .. NFrames + 1
      /\ at[f] \in Nat /\ at[g] \in Nat /\ at[g + 1] \in Nat
  BY Starts
<1>4. f <= g
  <2>1. g < f => at[g + 1] <= at[f]
    BY <1>3, Starts
  <2> QED
    BY <1>1, <1>2, <1>3, <2>1
<1>5. f \in 1 .. NFrames
  BY <1>3, <1>4
<1>6. at[f + 1] = at[f] + tpframes[f] + 2 /\ tpframes[f] \in Nat
  BY <1>5, Starts
(* No pedestals were passed on the way.                                    *)
<1>7. ASSUME NEW h \in 1 .. NFrames, at[h + 1] \in Nat,
             at[h + 1] < pos, at[h + 1] >= offset + 3
      PROVE  FALSE
  <2>1. PICK e \in Nat : e = at[h + 1]
    BY <1>7
  <2>2. e < offset + n + 1 /\ e >= offset + 3
    BY <1>7, <2>1
  <2>3. PICK k \in 2 .. n - 1 : offset + k + 1 = e
    <3>1. offset \in Nat
      BY <1>1
    <3> QED
      BY ZenonT(40), <2>2, <3>1, Between
  <2>4. e \in DOMAIN srcbuffer
    BY SMTT(30), <1>1, <2>2
  <2>5. srcbuffer[e].deadbeef
    BY <2>1, <2>4, Pedestals
  <2> QED
    BY <1>1, <2>3, <2>5
<1> HIDE DEF pos
<1>8. CASE tpframes[f] > 0
  <2>1. f < g => at[f + 1] <= at[g] /\ at[g] < at[g + 1]
    BY <1>3, <1>5, Starts
  <2>2. ~ f < g
    <3>1. at[f + 1] \in Nat /\ at[f + 1] >= offset + 3
      BY SMTT(30), <1>1, <1>6, <1>8
    <3>2. f < g => at[f + 1] < pos
      BY <1>2, <1>3, <2>1, <3>1
    <3> QED
      BY <1>5, <1>7, <3>1, <3>2
  <2>3. f = g
    BY <1>3, <1>4, <2>2
  <2> QED
    BY <1>2, <1>5, <1>8, <2>3 DEF pos
<1>9. CASE tpframes[f] = 0
  <2>1. pos >= offset + 3
    BY <1>1 DEF pos
  <2>2. f # g
    BY <1>1, <1>2, <1>3, <1>6, <1>9, <2>1
  <2>3. f < g /\ f < NFrames
    BY <1>3, <1>4, <2>2
  <2>4. f + 1 \in 1 .. NFrames /\ f + 1 \in 1 .. NFrames + 1
    BY <1>3, <2>3
  <2>5. /\ at[f + 1] = at[f] + 2
        /\ at[(f + 1) + 1] = at[f + 1] + tpframes[f + 1] + 2
        /\ tpframes[f + 1] \in Nat
    BY <1>3, <1>6, <1>9, <2>4, Starts
  <2>6. f + 1 < g => at[(f + 1) + 1] <= at[g] /\ at[g] < at[g + 1]
    BY <1>3, <2>4, Starts
  <2>7. ~ f + 1 < g
    <3>1. at[f + 1] \in Nat /\ at[f + 1] = offset + 2
      BY SMTT(30), <1>1, <2>5
    <3>2. at[(f + 1) + 1] \in Nat /\ at[(f + 1) + 1] >= offset + 3
      <4>1. PICK a \in Nat : a = at[f + 1]
        BY <3>1
      <4>2. PICK t \in Nat : t = tpframes[f + 1]
        BY <2>5
      <4>3. at[(f + 1) + 1] = a + t + 2 /\ a = offset + 2 /\ offset \in Nat
        BY <1>1, <2>5, <3>1, <4>1, <4>2
      <4> QED
        BY <4>3
    <3>3. f + 1 < g => at[(f + 1) + 1] < pos
      BY <1>2, <1>3, <2>6, <3>2
    <3> QED
      BY <1>7, <2>4, <3>2, <3>3
  <2>8. g = f + 1 /\ g + 1 = f + 2
    BY <1>3, <2>3, <2>7
  <2> QED
    BY <1>2, <1>5, <1>9, <2>3, <2>8 DEF pos
<1> QED
  BY <1>6, <1>8, <1>9

(* It finds them if they are in the chunk.                                 *)
LEMMA EndFound ==
  ASSUME UnpackType, NEW at, Layout(at), NEW f \in 1 .. NFrames, offset = at[f],
         NEW g \in 1 .. NFrames, at[g + 1] <= Len(srcbuffer),
         \/ g = f /\ tpframes[f] > 0
         \/ g = f + 1 /\ tpframes[f] = 0
  PROVE  \E n \in 2 .. Len(srcbuffer) : EndOfFrame(n)
<1>1. /\ NFrames \in Nat /\ f \in 1 .. NFrames + 1 /\ g \in 1 .. NFrames + 1
      /\ at[f] \in Nat /\ at[g] \in Nat /\ at[g + 1] \in Nat
      /\ at[f + 1] = at[f] + tpframes[f] + 2 /\ tpframes[f] \in Nat
      /\ at[g + 1] = at[g] + tpframes[g] + 2 /\ tpframes[g] \in Nat
  BY Starts
<1>2. /\ Len(srcbuffer) \in Nat /\ DOMAIN srcbuffer = 1 .. Len(srcbuffer)
  BY DEF UnpackType
<1>n. offset \in Nat
  BY DEF UnpackType
<1>e. at[g + 1] >= offset + 3
  <2>1. CASE g = f /\ tpframes[f] > 0
    BY <1>1, <1>n, <2>1
  <2>2. CASE g = f + 1 /\ tpframes[f] = 0
    <3>1. PICK a \in Nat : a = at[g]
      BY <1>1
    <3>2. PICK t \in Nat : t = tpframes[g]
      BY <1>1
    <3>o. PICK o \in Nat : o = offset
      BY <1>n
    <3>e. PICK e \in Nat : e = at[g + 1]
      BY <1>1
    <3>3. a = o + 2
      BY <1>1, <2>2, <3>1, <3>o
    <3>4. e = a + t + 2
      BY <1>1, <3>1, <3>2, <3>e
    <3>5. e >= o + 3
      BY SMTT(30), <3>1, <3>2, <3>3, <3>4, <3>e, <3>o
    <3> QED
      BY <3>5, <3>e, <3>o
  <2> QED
    BY <2>1, <2>2
<1>3. PICK n \in 2 .. Len(srcbuffer) : offset + n + 1 = at[g + 1]
  <2>1. PICK e \in Nat : e = at[g + 1]
    BY <1>1
  <2>2. PICK l \in Nat : l = Len(srcbuffer)
    BY <1>2
  <2>3. e < offset + l + 1 /\ e >= offset + 3
    BY SMTT(30), <1>e, <1>n, <2>1, <2>2
  <2>4. PICK k \in 2 .. l - 1 : offset + k + 1 = e
    BY <1>n, <2>3, Between
  <2>5. k \in 2 .. l
    BY <2>2, <2>4
  <2> QED
    BY <2>1, <2>2, <2>4, <2>5
<1>4. srcbuffer[offset + n + 1].deadbeef
  <2>1. at[g + 1] \in DOMAIN srcbuffer
    BY <1>1, <1>2
  <2> QED
    BY <1>3, <2>1, Pedestals
<1>5. ASSUME NEW k \in 2 .. n - 1, srcbuffer[offset + k + 1].deadbeef
      PROVE  FALSE
  <2>1. /\ offset + k + 1 \in DOMAIN srcbuffer
        /\ offset + k + 1 < at[g + 1] /\ offset + k + 1 >= at[f] + 3
    <3>1. PICK l \in Nat : l = Len(srcbuffer)
      BY <1>2
    <3>2. n \in Nat /\ offset + n + 1 <= l
      BY <1>3, <3>1
    <3>3. PICK a \in Nat : a = offset
      BY <1>n
    <3>4. /\ a + k + 1 \in 1 .. l /\ a + k + 1 < a + n + 1
          /\ a + k + 1 >= a + 3
      BY <3>2, <3>3, Inside
    <3> QED
      BY <1>2, <1>3, <3>1, <3>3, <3>4
  <2>2. PICK h \in 1 .. NFrames : offset + k + 1 = at[h + 1]
    BY <1>5, <2>1, Pedestals
  <2>3. h \in 1 .. NFrames + 1 /\ at[h] \in Nat /\ at[h + 1] \in Nat
        /\ at[h] < at[h + 1]
    BY Starts
  <2>4. h < g
    <3>1. g < h => at[g + 1] <= at[h]
      BY <1>1, <2>3, Starts
    <3>2. h # g
      BY <1>1, <2>1, <2>2
    <3> QED
      BY <1>1, <2>1, <2>2, <2>3, <3>1, <3>2
  <2>5. f <= h
    <3>1. h < f => at[h + 1] <= at[f]
      BY <1>1, <2>3, Starts
    <3> QED
      BY SMTT(30), <1>1, <2>1, <2>2, <2>3, <3>1
  <2>6. h = f /\ tpframes[f] = 0
    <3>1. f \in Nat /\ h \in Nat /\ g \in Nat
      BY <1>1
    <3>2. CASE g = f
      BY <2>4, <2>5, <3>1, <3>2
    <3>3. CASE g = f + 1 /\ tpframes[f] = 0
      BY <2>4, <2>5, <3>1, <3>3
    <3> QED
      BY <3>2, <3>3
  <2> QED
    BY SMTT(30), <1>1, <2>1, <2>2, <2>6
<1>6. EndOfFrame(n)
  <2>1. n >= 2 /\ offset + n < Len(srcbuffer)
    BY <1>1, <1>2, <1>3, <1>n
  <2> QED
    BY <1>4, <1>5, <2>1 DEF EndOfFrame, Subframe
<1> QED
  BY <1>3, <1>6

(* A call of tp_stitch reaches to the pedestals.                           *)
LEMMA UnpackStep == ASSUME UInv, UnpackFrame PROVE UInv'
<1>1. PICK at : Layout(at) /\ Stages(at) /\ \E o : Origins(at, o)
  BY DEF UInv
<1>2. PICK o : Origins(at, o)
  BY <1>1
<1>3. PICK n \in 2 .. Len(srcbuffer) :
        /\ EndOfFrame(n)
        /\ stitched' = Append(stitched, [header  |-> Subframe(0),
                                         pedinfo |-> Subframe(n - 1),
                                         blocks  |-> [i \in 1 .. nhits(n) |-> Subframe(i)]])
        /\ offset' = offset + 2 + nhits(n)
  BY DEF UnpackFrame
<1>4. /\ UNCHANGED <<srcbuffer, whole, stage, tpframes>>
      /\ stage = "unpacking" /\ whole
  BY <1>1 DEF UnpackFrame, Stages
<1>5. UnpackType /\ offset \in Nat /\ Len(srcbuffer) \in Nat
      /\ DOMAIN srcbuffer = 1 .. Len(srcbuffer) /\ n \in Nat /\ n >= 2
  BY <1>3 DEF UInv, UnpackType
<1>6. PICK f \in 1 .. NFrames + 1 : offset = at[f]
  BY <1>1 DEF Stages
<1>7. /\ f \in 1 .. NFrames
      /\ \/ tpframes[f] > 0 /\ offset + n + 1 = at[f + 1]
         \/ tpframes[f] = 0 /\ f < NFrames /\ offset + n + 1 = at[f + 2]
  BY <1>1, <1>3, <1>5, <1>6, FrameEnd
<1>8. offset' = offset + n + 1 /\ offset' \in Nat
  BY <1>3, <1>5 DEF nhits
<1>9. offset + n + 1 <= Len(srcbuffer)
  BY <1>3, <1>5 DEF EndOfFrame
<1>10. PICK blocks : blocks = [i \in 1 .. n - 1 |-> srcbuffer[offset + i + 1]]
  OBVIOUS
<1>11. PICK header : header = srcbuffer[offset + 1]
  OBVIOUS
<1>12. PICK pedinfo : pedinfo = srcbuffer[offset + (n - 1) + 1]
  OBVIOUS
<1>13. \A i \in 0 .. n : offset + i + 1 \in DOMAIN srcbuffer /\ srcbuffer[offset + i + 1] \in Sub
  <2>1. \A i \in DOMAIN srcbuffer : srcbuffer[i] \in Sub
    BY DEF UInv, UnpackType
  <2> QED
    BY <1>5, <1>9, <2>1
<1>14. /\ header \in Sub /\ pedinfo \in Sub
       /\ blocks \in Seq(Sub) /\ Len(blocks) = n - 1
       /\ \A i \in 1 .. n - 1 : blocks[i] = srcbuffer[offset + i + 1]
  <2>1. n - 1 \in Nat /\ 0 \in 0 .. n /\ n - 1 \in 0 .. n /\ offset + 0 + 1 = offset + 1
    BY <1>5
  <2>2. \A i \in 1 .. n - 1 : i \in 0 .. n
    BY <1>5
  <2>3. \A i \in 1 .. n - 1 : srcbuffer[offset + i + 1] \in Sub
    BY <1>13, <2>2
  <2>4. header \in Sub /\ pedinfo \in Sub
    BY <1>11, <1>12, <1>13, <2>1
  <2>5. blocks \in Seq(Sub) /\ Len(blocks) = n - 1
    BY <1>10, <2>1, <2>3
  <2> QED
    BY <1>10, <2>4, <2>5
<1> DEFINE unit == [header |-> header, pedinfo |-> pedinfo, blocks |-> blocks]
<1>15. stitched' = Append(stitched, unit)
  <2>1. offset + 0 + 1 = offset + 1
    BY <1>5
  <2> QED
    BY <1>3, <1>10, <1>11, <1>12, <2>1 DEF Subframe, nhits
<1>16. unit \in Unit /\ unit.header = header /\ unit.blocks = blocks
  BY <1>14 DEF Unit
<1> HIDE DEF unit
<1>17. PICK l \in Nat : l = NUnits
  BY DEF UInv, UnpackType, NUnits
<1>18. /\ stitched' \in Seq(Unit) /\ Len(stitched') = l + 1
       /\ stitched'[l + 1] = unit
       /\ \A u \in 1 .. l : stitched'[u] = stitched[u]
  BY <1>15, <1>16, <1>17 DEF UInv, UnpackType, NUnits
<1>19. NUnits' = l + 1 /\ NFrames' = NFrames /\ NFrames \in Nat
  BY <1>4, <1>5, <1>18 DEF NUnits, NFrames, UnpackType
<1>20. UnpackType'
  BY <1>4, <1>5, <1>8, <1>18 DEF UnpackType
<1>21. Layout(at)'
  BY <1>1, <1>4, <1>19 DEF Layout
<1>22. Stages(at)'
  <2>1. \E g \in 1 .. NFrames + 1 : offset' = at[g]
    <3>1. CASE offset + n + 1 = at[f + 1]
      <4>1. f + 1 \in 1 .. NFrames + 1
        BY <1>7, <1>19
      <4> QED
        BY <1>8, <3>1, <4>1
    <3>2. CASE f < NFrames /\ offset + n + 1 = at[f + 2]
      <4>1. f + 2 \in 1 .. NFrames + 1
        BY <1>7, <1>19, <3>2
      <4> QED
        BY <1>8, <3>2, <4>1
    <3> QED
      BY <1>7, <3>1, <3>2
  <2> QED
    BY <1>4, <1>8, <1>9, <1>19, <2>1 DEF Stages
<1>o. PICK o2 : o2 = [u \in 1 .. l + 2 |-> IF u <= l + 1 THEN o[u] ELSE offset + n + 1]
  OBVIOUS
<1>23. /\ o \in [1 .. l + 1 -> Nat] /\ o[l + 1] = offset
       /\ \A u, v \in 1 .. l + 1 : u < v => o[u] < o[v]
       /\ \A i \in 1 .. offset : \E u \in 1 .. l : o[u] < i /\ i <= o[u + 1]
  BY <1>2, <1>17 DEF Origins
<1>24. /\ o2 \in [1 .. (l + 1) + 1 -> Nat]
       /\ \A u \in 1 .. l + 1 : o2[u] = o[u]
       /\ o2[l + 1] = offset /\ o2[l + 2] = offset + n + 1
       /\ o2[(l + 1) + 1] = offset + n + 1
  <2>1. offset + n + 1 \in Nat
    BY <1>5
  <2> QED
    BY <1>o, <1>23, <2>1
<1>25. \A u \in 1 .. l + 1 : o[u] \in Nat /\ o[u] <= offset
  <2> SUFFICES ASSUME NEW u \in 1 .. l + 1 PROVE o[u] \in Nat /\ o[u] <= offset
    OBVIOUS
  <2>1. u = l + 1 \/ u < l + 1
    OBVIOUS
  <2>2. l + 1 \in 1 .. l + 1 /\ o[u] \in Nat
    BY <1>23
  <2>3. CASE u = l + 1
    BY <1>5, <1>23, <2>3
  <2>4. CASE u < l + 1
    <3>1. o[u] < o[l + 1]
      BY <1>23, <2>2, <2>4
    <3> QED
      BY <1>5, <1>23, <2>2, <3>1
  <2> QED
    BY <2>1, <2>3, <2>4
<1>26. \A u, v \in 1 .. (l + 1) + 1 : u < v => o2[u] < o2[v]
  <2> SUFFICES ASSUME NEW u \in 1 .. l + 2, NEW v \in 1 .. l + 2, u < v
               PROVE  o2[u] < o2[v]
    OBVIOUS
  <2>1. u \in 1 .. l + 1 /\ o2[u] = o[u]
    BY <1>24
  <2>2. CASE v \in 1 .. l + 1
    BY <1>23, <1>24, <2>1, <2>2
  <2>3. CASE v = l + 2
    <3>1. o[u] \in Nat /\ o[u] <= offset
      BY <1>25, <2>1
    <3> QED
      BY <1>5, <1>24, <2>1, <2>3, <3>1
  <2> QED
    BY <2>2, <2>3
<1>27. \A i \in 1 .. offset' : \E u \in 1 .. l + 1 : o2[u] < i /\ i <= o2[u + 1]
  <2> SUFFICES ASSUME NEW i \in 1 .. offset + n + 1
               PROVE  \E u \in 1 .. l + 1 : o2[u] < i /\ i <= o2[u + 1]
    BY <1>8
  <2>1. CASE i <= offset
    <3>1. i \in 1 .. offset
      BY <1>5, <2>1
    <3>2. PICK u \in 1 .. l : o[u] < i /\ i <= o[u + 1]
      BY <1>23, <3>1
    <3>3. u \in 1 .. l + 1 /\ u + 1 \in 1 .. l + 1
      OBVIOUS
    <3> QED
      BY <1>24, <3>2, <3>3
  <2>2. CASE i > offset
    <3>1. o2[l + 1] < i /\ i <= o2[(l + 1) + 1]
      BY <1>5, <1>24, <2>2
    <3> QED
      BY <3>1
  <2> QED
    BY <1>5, <2>1, <2>2
<1>28. \A u \in 1 .. l + 1 : \E g \in 1 .. NFrames :
         /\ o2[u] = at[g]
         /\ \/ tpframes[g] > 0 /\ o2[u + 1] = at[g + 1]
            \/ tpframes[g] = 0 /\ g < NFrames /\ o2[u + 1] = at[g + 2]
  <2>1. ASSUME NEW u \in 1 .. l
        PROVE  \E g \in 1 .. NFrames :
                 /\ o2[u] = at[g]
                 /\ \/ tpframes[g] > 0 /\ o2[u + 1] = at[g + 1]
                    \/ tpframes[g] = 0 /\ g < NFrames /\ o2[u + 1] = at[g + 2]
    <3>1. u \in 1 .. l + 1 /\ u + 1 \in 1 .. l + 1
      OBVIOUS
    <3>2. o2[u] = o[u] /\ o2[u + 1] = o[u + 1]
      BY <1>24, <3>1
    <3> QED
      BY <1>2, <1>17, <3>2 DEF Origins
  <2>2. /\ o2[l + 1] = at[f]
        /\ \/ tpframes[f] > 0 /\ o2[(l + 1) + 1] = at[f + 1]
           \/ tpframes[f] = 0 /\ f < NFrames /\ o2[(l + 1) + 1] = at[f + 2]
    BY <1>6, <1>7, <1>24
  <2>3. \A u \in 1 .. l + 1 : u \in 1 .. l \/ u = l + 1
    OBVIOUS
  <2> QED
    BY <1>7, <2>1, <2>2, <2>3
<1>29. \A u \in 1 .. l + 1 :
         /\ stitched'[u].header = srcbuffer[o2[u] + 1]
         /\ Len(stitched'[u].blocks) = o2[u + 1] - o2[u] - 2
         /\ \A b \in 1 .. Len(stitched'[u].blocks) :
              stitched'[u].blocks[b] = srcbuffer[o2[u] + b + 1]
  <2>1. ASSUME NEW u \in 1 .. l
        PROVE  /\ stitched'[u].header = srcbuffer[o2[u] + 1]
               /\ Len(stitched'[u].blocks) = o2[u + 1] - o2[u] - 2
               /\ \A b \in 1 .. Len(stitched'[u].blocks) :
                    stitched'[u].blocks[b] = srcbuffer[o2[u] + b + 1]
    <3>1. u \in 1 .. l + 1 /\ u + 1 \in 1 .. l + 1
      OBVIOUS
    <3>2. o2[u] = o[u] /\ o2[u + 1] = o[u + 1] /\ stitched'[u] = stitched[u]
      BY <1>18, <1>24, <3>1
    <3> QED
      BY <1>2, <1>17, <3>2 DEF Origins
  <2>2. /\ stitched'[l + 1].header = srcbuffer[o2[l + 1] + 1]
        /\ Len(stitched'[l + 1].blocks) = n - 1
        /\ \A b \in 1 .. n - 1 :
             stitched'[l + 1].blocks[b] = srcbuffer[o2[l + 1] + b + 1]
    BY <1>11, <1>14, <1>16, <1>18, <1>24
  <2>3. o2[(l + 1) + 1] - o2[l + 1] - 2 = n - 1
    BY <1>5, <1>24
  <2>4. \A u \in 1 .. l + 1 : u \in 1 .. l \/ u = l + 1
    OBVIOUS
  <2> QED
    BY <2>1, <2>2, <2>3, <2>4
<1>30. Origins(at, o2)'
  BY <1>4, <1>8, <1>19, <1>24, <1>26, <1>27, <1>28, <1>29 DEF Origins
<1> QED
  BY <1>20, <1>21, <1>22, <1>30 DEF UInv

(* Where the search fails only frames without hits may be left.            *)
LEMMA EndStep == ASSUME UInv, EndUnpack PROVE UInv'
<1>1. PICK at : Layout(at) /\ Stages(at) /\ \E o : Origins(at, o)
  BY DEF UInv
<1>2. PICK o : Origins(at, o)
  BY <1>1
<1>3. /\ UNCHANGED <<srcbuffer, whole, offset, stitched, tpframes>>
      /\ stage = "unpacking" /\ stage' = "done"
      /\ \A n \in 2 .. Len(srcbuffer) : ~EndOfFrame(n)
  BY DEF EndUnpack
<1>4. UnpackType /\ NFrames' = NFrames /\ NUnits' = NUnits
  BY <1>3 DEF UInv, NFrames, NUnits
<1>5. UnpackType'
  BY <1>3, <1>4 DEF UnpackType
<1>6. Layout(at)' /\ Origins(at, o)'
  BY <1>1, <1>2, <1>3, <1>4 DEF Layout, Origins
<1>7. PICK f \in 1 .. NFrames + 1 : offset = at[f]
  BY <1>1 DEF Stages
<1>8. ASSUME NEW g \in 1 .. NFrames, at[g + 1] <= Len(srcbuffer), tpframes[g] > 0
      PROVE  at[g + 1] <= offset
  <2>1. /\ NFrames \in Nat /\ g \in 1 .. NFrames + 1 /\ g + 1 \in 1 .. NFrames + 1
        /\ at[g + 1] \in Nat /\ at[f] \in Nat /\ at[g] \in Nat /\ at[g] < at[g + 1]
    BY <1>1, <1>4, Starts
  <2>2. CASE g < f
    BY <1>1, <1>4, <1>7, <2>1, <2>2, Starts
  <2>3. CASE g = f
    BY <1>1, <1>3, <1>4, <1>7, <1>8, <2>3, EndFound
  <2>4. CASE g > f
    <3>1. f \in 1 .. NFrames
      BY <2>1, <2>4
    <3>2. tpframes[f] \in Nat /\ at[f + 1] <= at[g] /\ Len(srcbuffer) \in Nat
      BY <1>1, <1>4, <2>1, <2>4, <3>1, Starts DEF UnpackType
    <3>3. f + 1 \in 1 .. NFrames /\ at[f + 1] \in Nat
      BY <1>1, <1>4, <2>1, <2>4, <3>1, Starts
    <3>4. at[f + 1] <= Len(srcbuffer)
      BY <1>8, <2>1, <3>2, <3>3
    <3>5. at[(f + 1) + 1] <= Len(srcbuffer)
      <4>1. f + 1 = g \/ f + 1 < g
        BY <2>1, <2>4, <3>1
      <4>2. CASE f + 1 = g
        BY <1>8, <4>2
      <4>3. CASE f + 1 < g
        <5>1. f + 1 \in 1 .. NFrames + 1 /\ at[(f + 1) + 1] <= at[g] /\ at[(f + 1) + 1] \in Nat
          BY <1>1, <1>4, <2>1, <3>3, <4>3, Starts
        <5> QED
          BY <1>8, <2>1, <3>2, <5>1
      <4> QED
        BY <4>1, <4>2, <4>3
    <3>6. CASE tpframes[f] > 0
      BY <1>1, <1>3, <1>4, <1>7, <3>1, <3>4, <3>6, EndFound
    <3>7. CASE tpframes[f] = 0
      BY <1>1, <1>3, <1>4, <1>7, <3>1, <3>3, <3>5, <3>7, EndFound
    <3> QED
      BY <3>2, <3>6, <3>7
  <2> QED
    BY <2>1, <2>2, <2>3, <2>4
<1>9. Stages(at)'
  BY <1>1, <1>3, <1>4, <1>8 DEF Stages
<1> QED
  BY <1>5, <1>6, <1>9 DEF UInv

LEMMA UnpackSteps ==
  [Next]_vars =>
    \/ FillChunk \/ CutChunk \/ UnpackFrame \/ EndUnpack \/ NextChunk
    \/ UNCHANGED tpVars
<1>1. ASSUME Next PROVE \/ FillChunk \/ CutChunk \/ UnpackFrame \/ EndUnpack \/ NextChunk
                        \/ UNCHANGED tpVars
  <2>1. CASE Start
    BY <2>1 DEF Start
  <2>2. CASE Stop
    BY <2>2 DEF Stop
  <2>3. CASE Superchunk
    BY <2>3 DEF Superchunk
  <2>4. CASE Frame
    BY <2>4 DEF Frame
  <2>5. CASE Loss
    BY <2>5 DEF Loss
  <2>6. CASE Chunk
    BY <2>6 DEF Chunk, tp_unpack
  <2> QED
    BY <1>1, <2>1, <2>2, <2>3, <2>4, <2>5, <2>6 DEF Next
<1> QED
  BY <1>1 DEF vars

(* Whatever is in the chunk and wherever it was cut, tp_unpack's offset is *)
(* always the beginning of a frame, and what tp_stitch was called with are *)
(* the frames before it, one after the other, a frame without hits along   *)
(* with its successor.                                                     *)
THEOREM UnpackInvariant == Spec => []UInv
<1>1. UInv /\ [Next]_vars => UInv'
  <2> SUFFICES ASSUME UInv, [Next]_vars PROVE UInv'
    OBVIOUS
  <2>1. CASE UNCHANGED tpVars
    <3>1. /\ srcbuffer' = srcbuffer /\ whole' = whole /\ stage' = stage
          /\ offset' = offset /\ stitched' = stitched /\ tpframes' = tpframes
      BY <2>1 DEF tpVars
    <3>2. NFrames' = NFrames /\ NUnits' = NUnits
      BY <3>1 DEF NFrames, NUnits
    <3>3. PICK at : Layout(at) /\ Stages(at) /\ \E o : Origins(at, o)
      BY DEF UInv
    <3>4. PICK o : Origins(at, o)
      BY <3>3
    <3>5. Layout(at)'
      BY <3>1, <3>2, <3>3 DEF Layout
    <3>6. Stages(at)'
      BY <3>1, <3>2, <3>3 DEF Stages
    <3>7. Origins(at, o)'
      BY <3>1, <3>2, <3>4 DEF Origins
    <3>8. UnpackType'
      BY <3>1 DEF UInv, UnpackType
    <3> QED
      BY <3>5, <3>6, <3>7, <3>8 DEF UInv
  <2> QED
    BY <2>1, UnpackSteps, FillStep, CutStep, UnpackStep, EndStep, NextChunkStep
<1> QED
  BY <1>1, InitUnpack, PTL DEF Spec

----------------------------------------------------------------------------
(* What the chunk has of a frame.                                          *)
LEMMA PartOfFrame ==
  ASSUME UnpackType, NEW at, Layout(at), NEW f \in 1 .. NFrames,
         NEW i \in DOMAIN srcbuffer, at[f] < i, i <= at[f + 1]
  PROVE  /\ srcbuffer[i].frame = f /\ srcbuffer[i].part = i - at[f] - 1
         /\ srcbuffer[i].deadbeef <=> i = at[f + 1]
<1> DEFINE r == [frame |-> f, part |-> i - at[f] - 1, deadbeef |-> i = at[f + 1]]
<1>1. srcbuffer[i] = r
  BY DEF Layout
<1>2. r.frame = f /\ r.part = i - at[f] - 1 /\ (r.deadbeef <=> i = at[f + 1])
  OBVIOUS
<1> HIDE DEF r
<1> QED
  BY <1>1, <1>2

(* A frame is complete if its last subframe is there.                      *)
LEMMA CompleteEnds ==
  ASSUME UnpackType, NEW at, Layout(at), NEW f \in 1 .. NFrames
  PROVE  Complete(f) <=> whole /\ at[f + 1] <= Len(srcbuffer)
<1>1. DOMAIN srcbuffer = 1 .. Len(srcbuffer) /\ Len(srcbuffer) \in Nat
  BY DEF UnpackType
<1>2. /\ f \in 1 .. NFrames + 1 /\ f + 1 \in 1 .. NFrames + 1
      /\ at[f] \in Nat /\ at[f + 1] \in Nat /\ at[f] < at[f + 1]
  BY Starts
<1>3. ASSUME NEW i \in DOMAIN srcbuffer, srcbuffer[i].frame = f, srcbuffer[i].deadbeef
      PROVE  i = at[f + 1]
  BY <1>3, Places
<1>4. ASSUME at[f + 1] <= Len(srcbuffer)
      PROVE  /\ at[f + 1] \in DOMAIN srcbuffer
             /\ srcbuffer[at[f + 1]].frame = f /\ srcbuffer[at[f + 1]].deadbeef
  <2>1. at[f + 1] \in DOMAIN srcbuffer
    BY <1>1, <1>2, <1>4
  <2>2. PICK e \in Nat : e = at[f + 1]
    BY <1>2
  <2>3. e \in DOMAIN srcbuffer /\ at[f] < e /\ e <= at[f + 1]
    BY <1>2, <2>1, <2>2
  <2>4. srcbuffer[e].frame = f /\ srcbuffer[e].deadbeef
    BY <2>2, <2>3, PartOfFrame
  <2> QED
    BY <2>1, <2>2, <2>4
<1> QED
  BY <1>1, <1>3, <1>4 DEF Complete

(* The frame of a subframe and its part in it are those of no other.       *)
LEMMA PartsUnique ==
  ASSUME UnpackType, NEW at, Layout(at), NEW f \in 1 .. NFrames,
         NEW i \in DOMAIN srcbuffer, srcbuffer[i].frame = f
  PROVE  at[f] < i /\ i <= at[f + 1] /\ i = at[f] + srcbuffer[i].part + 1
<1>1. PICK g \in 1 .. NFrames :
        /\ at[g] < i /\ i <= at[g + 1]
        /\ srcbuffer[i].frame = g /\ srcbuffer[i].part = i - at[g] - 1
  BY Places
<1>2. i \in Nat /\ at[g] \in Nat /\ g = f
  BY <1>1, Places, Starts
<1> QED
  BY <1>1, <1>2

(* The place in the blocks of what is between a header and pedestals.      *)
LEMMA BlockPlace ==
  ASSUME NEW a \in Nat, NEW e \in Nat, NEW b \in Nat, b >= 1, b <= e - a - 2
  PROVE  a + b + 1 \in Nat /\ a < a + b + 1 /\ a + b + 1 < e /\ a + b + 1 >= 1
OBVIOUS

LEMMA PlaceBlock ==
  ASSUME NEW a \in Nat, NEW e \in Nat, NEW i \in Nat,
         a < i, i < e, i # a + 1
  PROVE  \E b \in Nat : b >= 1 /\ b <= e - a - 2 /\ b <= i /\ a + b + 1 = i
<1>1. PICK b \in Int : b = i - a - 1
  OBVIOUS
<1>2. b \in Nat /\ b >= 1 /\ b <= e - a - 2 /\ b <= i /\ a + b + 1 = i
  BY <1>1
<1> QED
  BY <1>2

(* No frame begins within another.                                         *)
LEMMA NoneInside ==
  ASSUME UnpackType, NEW at, Layout(at), NEW f \in 1 .. NFrames,
         NEW g \in 1 .. NFrames + 1, at[f] < at[g]
  PROVE  f < g /\ at[f + 1] <= at[g]
<1>1. f \in 1 .. NFrames + 1 /\ at[f] \in Nat /\ at[g] \in Nat /\ NFrames \in Nat
  BY Starts
<1>2. ~ g < f /\ g # f
  BY <1>1, Starts
<1>3. f < g
  BY <1>1, <1>2
<1> QED
  BY <1>1, <1>3, Starts

(* A call, and what of the chunk it is about.                              *)
LEMMA Call ==
  ASSUME UnpackType, NEW at, Layout(at), Stages(at), NEW o, Origins(at, o),
         NEW u \in 1 .. NUnits
  PROVE  /\ o[u] \in Nat /\ o[u + 1] \in Nat /\ o[u] < o[u + 1]
         /\ o[u + 1] <= offset /\ offset <= Len(srcbuffer)
         /\ Len(stitched[u].blocks) = o[u + 1] - o[u] - 2
         /\ Len(stitched[u].blocks) \in Nat
         /\ stitched[u].header = srcbuffer[o[u] + 1]
         /\ \A b \in 1 .. Len(stitched[u].blocks) :
              stitched[u].blocks[b] = srcbuffer[o[u] + b + 1]
         /\ \E g \in 1 .. NFrames :
              /\ o[u] = at[g]
              /\ \/ tpframes[g] > 0 /\ o[u + 1] = at[g + 1]
                 \/ tpframes[g] = 0 /\ g < NFrames /\ o[u + 1] = at[g + 2]
         /\ \E y \in 1 .. NFrames + 1 : o[u + 1] = at[y]
<1>1. NUnits \in Nat /\ offset \in Nat /\ stitched[u] \in Unit /\ NFrames \in Nat
  BY DEF UnpackType, NUnits, NFrames
<1>2. u \in 1 .. NUnits + 1 /\ u + 1 \in 1 .. NUnits + 1 /\ NUnits + 1 \in 1 .. NUnits + 1
      /\ u < u + 1 /\ (u + 1 = NUnits + 1 \/ u + 1 < NUnits + 1)
  BY <1>1
<1>3. o[u] \in Nat /\ o[u + 1] \in Nat /\ o[u] < o[u + 1] /\ o[NUnits + 1] = offset
  BY <1>2 DEF Origins
<1>4. o[u + 1] <= offset
  <2>1. CASE u + 1 = NUnits + 1
    BY <1>1, <1>3, <2>1
  <2>2. CASE u + 1 < NUnits + 1
    <3>1. o[u + 1] < o[NUnits + 1]
      BY <1>2, <2>2 DEF Origins
    <3> QED
      BY <1>1, <1>3, <3>1
  <2> QED
    BY <1>2, <2>1, <2>2
<1>5. offset <= Len(srcbuffer)
  BY DEF Stages
<1>6. /\ Len(stitched[u].blocks) = o[u + 1] - o[u] - 2
      /\ stitched[u].header = srcbuffer[o[u] + 1]
      /\ \A b \in 1 .. Len(stitched[u].blocks) :
           stitched[u].blocks[b] = srcbuffer[o[u] + b + 1]
  BY DEF Origins
<1>7. Len(stitched[u].blocks) \in Nat
  BY <1>1 DEF Unit
<1>8. PICK g \in 1 .. NFrames :
        /\ o[u] = at[g]
        /\ \/ tpframes[g] > 0 /\ o[u + 1] = at[g + 1]
           \/ tpframes[g] = 0 /\ g < NFrames /\ o[u + 1] = at[g + 2]
  BY DEF Origins
<1>9. \E y \in 1 .. NFrames + 1 : o[u + 1] = at[y]
  <2>1. g + 1 \in 1 .. NFrames + 1 /\ (g < NFrames => g + 2 \in 1 .. NFrames + 1)
    BY <1>1
  <2> QED
    BY <1>8, <2>1
<1> QED
  BY <1>3, <1>4, <1>5, <1>6, <1>7, <1>8, <1>9

LEMMA AsSent == UInv => UnpackedAsSent
<1> SUFFICES ASSUME UInv, stage = "done",
                    NEW f \in DOMAIN tpframes, Complete(f), tpframes[f] > 0,
                    f > 1 => tpframes[f - 1] > 0
             PROVE  \E u \in DOMAIN stitched :
                      /\ stitched[u].header.frame = f /\ stitched[u].header.part = 0
                      /\ Len(stitched[u].blocks) = tpframes[f]
                      /\ \A h \in 1 .. tpframes[f] :
                           stitched[u].blocks[h].frame = f /\ stitched[u].blocks[h].part = h
  BY DEF UnpackedAsSent
<1>1. PICK at : Layout(at) /\ Stages(at) /\ \E o : Origins(at, o)
  BY DEF UInv
<1>2. PICK o : Origins(at, o)
  BY <1>1
<1>3. /\ UnpackType /\ offset \in Nat /\ f \in 1 .. NFrames /\ NFrames \in Nat
      /\ DOMAIN stitched = 1 .. NUnits /\ DOMAIN srcbuffer = 1 .. Len(srcbuffer)
      /\ Len(srcbuffer) \in Nat
  BY DEF UInv, UnpackType, NFrames, NUnits
<1>4. /\ f \in 1 .. NFrames + 1 /\ at[f] \in Nat /\ at[f + 1] \in Nat
      /\ tpframes[f] \in Nat /\ at[f + 1] = at[f] + tpframes[f] + 2
  BY <1>1, <1>3, Starts
<1>5. at[f + 1] <= offset
  <2>1. whole /\ at[f + 1] <= Len(srcbuffer)
    BY <1>1, <1>3, CompleteEnds
  <2> QED
    BY <1>1, <1>3, <2>1 DEF Stages
<1>r. at[f + 1] <= Len(srcbuffer)
  BY <1>1, <1>3, CompleteEnds
<1>6. PICK u \in 1 .. NUnits : o[u] < at[f] + 1 /\ at[f] + 1 <= o[u + 1]
  <2>1. at[f] + 1 \in 1 .. offset
    BY SMTT(30), <1>3, <1>4, <1>5
  <2> QED
    BY <1>2, <2>1 DEF Origins
<1>7. /\ o[u] \in Nat /\ o[u + 1] \in Nat /\ offset <= Len(srcbuffer)
      /\ Len(stitched[u].blocks) = o[u + 1] - o[u] - 2
      /\ stitched[u].header = srcbuffer[o[u] + 1]
      /\ \A b \in 1 .. Len(stitched[u].blocks) :
           stitched[u].blocks[b] = srcbuffer[o[u] + b + 1]
  BY <1>1, <1>2, <1>3, Call
<1>8. PICK g \in 1 .. NFrames :
        /\ o[u] = at[g]
        /\ \/ tpframes[g] > 0 /\ o[u + 1] = at[g + 1]
           \/ tpframes[g] = 0 /\ g < NFrames /\ o[u + 1] = at[g + 2]
  BY <1>2 DEF Origins
<1>9. g = f
  <2>1. g \in 1 .. NFrames + 1 /\ at[g] \in Nat
    BY <1>1, <1>3, Starts
  <2>2. ~ f < g
    <3>1. at[g] < at[f] + 1
      BY <1>6, <1>8
    <3>2. ~ at[f] < at[g]
      BY <1>4, <2>1, <3>1
    <3> QED
      BY <1>1, <1>3, <1>4, <2>1, <3>2, Starts
  <2>3. ASSUME g < f PROVE FALSE
    <3>1. CASE tpframes[g] > 0 /\ o[u + 1] = at[g + 1]
      <4>1. at[g + 1] <= at[f]
        BY <1>1, <1>3, <1>4, <2>1, <2>3, Starts
      <4>2. o[u + 1] <= at[f] /\ at[f] + 1 <= o[u + 1]
        BY <1>6, <3>1, <4>1
      <4>3. at[f] \in Nat /\ o[u + 1] \in Nat
        BY <1>4, <1>7
      <4> QED
        BY <4>2, <4>3
    <3>2. CASE tpframes[g] = 0 /\ o[u + 1] = at[g + 2]
      <4>1. f \in Nat /\ g \in Nat /\ g >= 1
        BY <1>3
      <4>2. g + 1 # f
        <5>1. ASSUME g + 1 = f PROVE FALSE
          <6>1. f > 1 /\ f - 1 = g
            BY <4>1, <5>1
          <6> QED
            BY <3>2, <6>1
        <5> QED
          BY <5>1
      <4>3. g + 1 < f /\ g + 1 \in 1 .. NFrames + 1 /\ (g + 1) + 1 = g + 2
        BY <1>3, <2>3, <4>1, <4>2
      <4>4. at[g + 2] <= at[f]
        BY <1>1, <1>3, <1>4, <4>3, Starts
      <4>5. o[u + 1] <= at[f] /\ at[f] + 1 <= o[u + 1]
        BY <1>6, <3>2, <4>4
      <4> QED
        BY SMTT(30), <1>4, <1>7, <4>5
    <3> QED
      BY <1>8, <3>1, <3>2
  <2> QED
    BY <1>3, <2>2, <2>3
<1>10. o[u] = at[f] /\ o[u + 1] = at[f + 1]
  BY <1>4, <1>8, <1>9
<1>11. Len(stitched[u].blocks) = tpframes[f]
  BY SMTT(30), <1>4, <1>7, <1>10
<1>12. stitched[u].header.frame = f /\ stitched[u].header.part = 0
  <2>1. PICK i \in Nat : i = at[f] + 1
    BY <1>4
  <2>2. i \in DOMAIN srcbuffer /\ at[f] < i /\ i <= at[f + 1]
    <3>1. i >= 1 /\ at[f] < i /\ i <= at[f + 1]
      BY <1>4, <2>1
    <3>2. i <= Len(srcbuffer)
      BY <1>3, <1>4, <1>r, <3>1
    <3> QED
      BY <1>3, <3>1, <3>2
  <2>3. srcbuffer[i].frame = f /\ srcbuffer[i].part = i - at[f] - 1
    BY <1>1, <1>3, <2>2, PartOfFrame
  <2>4. i - at[f] - 1 = 0
    BY <1>4, <2>1
  <2> QED
    BY <1>7, <1>10, <2>1, <2>3, <2>4
<1>13. ASSUME NEW h \in 1 .. tpframes[f]
       PROVE  stitched[u].blocks[h].frame = f /\ stitched[u].blocks[h].part = h
  <2>1. PICK i \in Nat : i = at[f] + h + 1
    BY <1>4
  <2>2. i \in DOMAIN srcbuffer /\ at[f] < i /\ i <= at[f + 1]
    <3>1. i >= 1 /\ at[f] < i /\ i <= at[f + 1]
      BY <1>4, <2>1
    <3>2. i <= Len(srcbuffer)
      BY SMTT(30), <1>3, <1>4, <1>r, <3>1
    <3> QED
      BY <1>3, <3>1, <3>2
  <2>3. srcbuffer[i].frame = f /\ srcbuffer[i].part = i - at[f] - 1
    BY <1>1, <1>3, <2>2, PartOfFrame
  <2>4. i - at[f] - 1 = h
    BY <1>4, <2>1
  <2>5. stitched[u].blocks[h] = srcbuffer[i]
    BY <1>7, <1>10, <1>11, <2>1
  <2> QED
    BY <2>3, <2>4, <2>5
<1> QED
  BY <1>3, <1>11, <1>12, <1>13

(* A place of a hit in what tp_stitch got is its place in the chunk.       *)
LEMMA PlaceOfHit ==
  ASSUME UnpackType, NEW at, Layout(at), Stages(at), NEW o, Origins(at, o),
         NEW f \in 1 .. NFrames, NEW h \in 1 .. tpframes[f], NEW p \in PlacesOf(f, h)
  PROVE  /\ p = <<p[1], p[2]>> /\ p[1] \in 1 .. NUnits /\ p[2] \in Nat /\ p[2] >= 1
         /\ o[p[1]] + p[2] + 1 = at[f] + h + 1
         /\ o[p[1]] < at[f] + h + 1 /\ at[f] + h + 1 < o[p[1] + 1]
<1>1. PICK u \in 1 .. NUnits, b \in 1 .. Len(srcbuffer) :
        p = <<u, b>> /\ p[1] = u /\ p[2] = b
  BY DEF PlacesOf, NUnits
<1>2. /\ b <= Len(stitched[u].blocks)
      /\ stitched[u].blocks[b].frame = f /\ stitched[u].blocks[b].part = h
  BY <1>1 DEF PlacesOf
<1>3. Len(srcbuffer) \in Nat /\ DOMAIN srcbuffer = 1 .. Len(srcbuffer) /\ offset \in Nat
  BY DEF UnpackType
<1>4. /\ o[u] \in Nat /\ o[u + 1] \in Nat /\ o[u + 1] <= offset
      /\ offset <= Len(srcbuffer)
      /\ Len(stitched[u].blocks) = o[u + 1] - o[u] - 2
      /\ Len(stitched[u].blocks) \in Nat
      /\ \A c \in 1 .. Len(stitched[u].blocks) :
           stitched[u].blocks[c] = srcbuffer[o[u] + c + 1]
  BY Call
<1>5. stitched[u].blocks[b] = srcbuffer[o[u] + b + 1]
  <2>1. b \in 1 .. Len(stitched[u].blocks)
    BY <1>2, <1>3, <1>4
  <2> QED
    BY <1>4, <2>1
<1>6. PICK i \in Nat : i = o[u] + b + 1
  BY <1>4
<1>7. o[u] < i /\ i < o[u + 1] /\ i >= 1
  <2>1. b \in Nat /\ b >= 1 /\ b <= o[u + 1] - o[u] - 2
    BY <1>2, <1>3, <1>4
  <2> QED
    BY <1>4, <1>6, <2>1, BlockPlace
<1>8. i \in DOMAIN srcbuffer
  <2>1. i <= Len(srcbuffer)
    BY <1>3, <1>4, <1>7
  <2> QED
    BY <1>3, <1>7, <2>1
<1>9. i = at[f] + h + 1
  <2>1. srcbuffer[i].frame = f /\ srcbuffer[i].part = h
    BY <1>2, <1>5, <1>6
  <2> QED
    BY <1>8, <2>1, PartsUnique
<1> QED
  BY <1>1, <1>6, <1>7, <1>9

(* Hits lie between the header and the pedestals of their frame.           *)
LEMMA HitInside ==
  ASSUME UnpackType, NEW at, Layout(at), NEW f \in 1 .. NFrames,
         NEW h \in 1 .. tpframes[f]
  PROVE  /\ at[f] + h + 1 \in Nat /\ at[f] + h + 1 < at[f + 1]
         /\ at[f] \in Nat /\ at[f + 1] \in Nat
         /\ \A y \in 1 .. NFrames + 1 : at[y] # at[f] + h + 1 /\ at[y] # at[f] + h
<1>1. /\ at[f] \in Nat /\ at[f + 1] \in Nat /\ tpframes[f] \in Nat
      /\ at[f + 1] = at[f] + tpframes[f] + 2
  BY Starts
<1>2. PICK a \in Nat : a = at[f]
  BY <1>1
<1>3. PICK e \in Nat : e = at[f + 1]
  BY <1>1
<1>4. h \in Nat /\ h >= 1 /\ h <= e - a - 2
  BY <1>1, <1>2, <1>3
<1>5. a + h + 1 \in Nat /\ a + h + 1 < e /\ a < a + h
  BY <1>4
<1>6. ASSUME NEW y \in 1 .. NFrames + 1, at[y] = a + h + 1 \/ at[y] = a + h
      PROVE  FALSE
  <2>1. a < at[y] /\ at[y] < e /\ at[y] \in Nat
    BY <1>4, <1>5, <1>6
  <2>2. e <= at[y]
    BY <1>2, <1>3, <2>1, NoneInside
  <2> QED
    BY <2>1, <2>2
<1> QED
  BY <1>1, <1>2, <1>3, <1>5, <1>6

LEMMA EveryHit == UInv => EveryHitStitched
<1> SUFFICES ASSUME UInv, stage = "done",
                    NEW f \in DOMAIN tpframes, NEW h \in 1 .. tpframes[f]
             PROVE  IF Complete(f) THEN \E p \in PlacesOf(f, h) : PlacesOf(f, h) = {p}
                    ELSE PlacesOf(f, h) = {}
  BY DEF EveryHitStitched
<1>1. PICK at : Layout(at) /\ Stages(at) /\ \E o : Origins(at, o)
  BY DEF UInv
<1>2. PICK o : Origins(at, o)
  BY <1>1
<1>3. /\ UnpackType /\ offset \in Nat /\ f \in 1 .. NFrames /\ NFrames \in Nat
      /\ DOMAIN srcbuffer = 1 .. Len(srcbuffer) /\ NUnits = Len(stitched)
      /\ Len(srcbuffer) \in Nat /\ NUnits \in Nat
  BY DEF UInv, UnpackType, NFrames, NUnits
<1>4. PICK i \in Nat : i = at[f] + h + 1
  BY <1>1, <1>3, HitInside
<1>5. /\ i < at[f + 1] /\ at[f] \in Nat /\ at[f + 1] \in Nat /\ at[f] < i
      /\ \A y \in 1 .. NFrames + 1 : at[y] # i /\ at[y] + 1 # i
  <2>1. /\ i < at[f + 1] /\ at[f] \in Nat /\ at[f + 1] \in Nat
        /\ \A y \in 1 .. NFrames + 1 : at[y] # i /\ at[y] # at[f] + h
    BY <1>1, <1>3, <1>4, HitInside
  <2>2. \A y \in 1 .. NFrames + 1 : at[y] \in Nat
    BY <1>1, <1>3, Starts
  <2>3. h \in Nat /\ h >= 1
    OBVIOUS
  <2>4. at[f] < i
    BY <1>4, <2>1, <2>3
  <2>5. ASSUME NEW y \in 1 .. NFrames + 1, at[y] + 1 = i PROVE FALSE
    BY <1>4, <2>1, <2>2, <2>3, <2>5
  <2> QED
    BY <2>1, <2>4, <2>5
<1>6. CASE Complete(f)
  <2>1. at[f + 1] <= offset /\ offset <= Len(srcbuffer)
    <3>1. whole /\ at[f + 1] <= Len(srcbuffer)
      BY <1>1, <1>3, <1>6, CompleteEnds
    <3>2. tpframes[f] > 0
      BY <1>1, <1>3, Starts
    <3> QED
      BY <1>1, <1>3, <3>1, <3>2 DEF Stages
  <2>2. i \in 1 .. offset /\ i \in DOMAIN srcbuffer
    BY <1>3, <1>5, <2>1
  <2>3. PICK u \in 1 .. NUnits : o[u] < i /\ i <= o[u + 1]
    BY <1>2, <2>2 DEF Origins
  <2>4. /\ o[u] \in Nat /\ o[u + 1] \in Nat /\ o[u + 1] <= offset
        /\ Len(stitched[u].blocks) = o[u + 1] - o[u] - 2
        /\ Len(stitched[u].blocks) \in Nat
        /\ \A c \in 1 .. Len(stitched[u].blocks) :
             stitched[u].blocks[c] = srcbuffer[o[u] + c + 1]
        /\ \E y \in 1 .. NFrames + 1 : o[u + 1] = at[y]
    BY <1>1, <1>2, <1>3, Call
  <2>5. i # o[u + 1] /\ i # o[u] + 1
    <3>1. PICK g \in 1 .. NFrames : o[u] = at[g]
      BY <1>2 DEF Origins
    <3>2. g \in 1 .. NFrames + 1
      BY <1>3
    <3> QED
      BY <1>5, <2>4, <3>1, <3>2
  <2>6. PICK b \in Nat : /\ b >= 1 /\ b <= o[u + 1] - o[u] - 2 /\ b <= i
                         /\ o[u] + b + 1 = i
    <3>1. o[u] < i /\ i < o[u + 1] /\ i # o[u] + 1
      BY <2>3, <2>4, <2>5
    <3> QED
      BY ZenonT(40), <2>4, <3>1, PlaceBlock
  <2>7. /\ b >= 1 /\ b <= Len(stitched[u].blocks) /\ b <= Len(srcbuffer)
        /\ o[u] + b + 1 = i
    <3>1. i <= Len(srcbuffer)
      BY <1>3, <2>2
    <3>2. b <= Len(srcbuffer)
      BY <1>3, <2>6, <3>1
    <3> QED
      BY <2>4, <2>6, <3>2
  <2>8. stitched[u].blocks[b] = srcbuffer[i]
    <3>1. b \in 1 .. Len(stitched[u].blocks)
      BY <2>4, <2>7
    <3> QED
      BY <2>4, <2>7, <3>1
  <2>9. srcbuffer[i].frame = f /\ srcbuffer[i].part = h /\ ~srcbuffer[i].deadbeef
    <3>1. i <= at[f + 1] /\ i # at[f + 1]
      BY <1>5
    <3>2. /\ srcbuffer[i].frame = f /\ srcbuffer[i].part = i - at[f] - 1
          /\ (srcbuffer[i].deadbeef <=> i = at[f + 1])
      BY SMTT(30), <1>1, <1>3, <1>5, <2>2, <3>1, PartOfFrame
    <3>3. i - at[f] - 1 = h
      BY <1>4, <1>5
    <3> QED
      BY <3>1, <3>2, <3>3
  <2>10. <<u, b>> \in PlacesOf(f, h)
    <3>1. <<u, b>> \in (1 .. Len(stitched)) \X (1 .. Len(srcbuffer))
      BY <1>3, <2>7
    <3> QED
      BY <2>7, <2>8, <2>9, <3>1 DEF PlacesOf
  <2>11. ASSUME NEW p \in PlacesOf(f, h) PROVE p = <<u, b>>
    <3>1. PICK v \in 1 .. NUnits : v = p[1]
      BY <1>1, <1>2, <1>3, PlaceOfHit
    <3>2. PICK c \in Nat : c = p[2]
      BY <1>1, <1>2, <1>3, PlaceOfHit
    <3>3. p = <<v, c>> /\ o[v] + c + 1 = i /\ o[v] < i /\ i < o[v + 1]
      BY <1>1, <1>2, <1>3, <1>4, <3>1, <3>2, PlaceOfHit
    <3>4. o[v] \in Nat /\ o[v + 1] \in Nat
      BY <1>1, <1>2, <1>3, Call
    <3>5. v = u
      <4>1. /\ u \in 1 .. NUnits + 1 /\ v \in 1 .. NUnits + 1
            /\ u + 1 \in 1 .. NUnits + 1 /\ v + 1 \in 1 .. NUnits + 1
        BY <1>3
      <4>2. \A x, y \in 1 .. NUnits + 1 : x < y => o[x] < o[y]
        BY <1>2 DEF Origins
      <4>3. ASSUME u < v PROVE FALSE
        <5>1. u + 1 = v \/ u + 1 < v
          BY <1>3, <4>3
        <5>2. o[u + 1] <= o[v]
          BY SMTT(30), <2>4, <3>4, <4>1, <4>2, <5>1
        <5> QED
          BY SMTT(30), <2>3, <2>4, <3>3, <3>4, <5>2
      <4>4. ASSUME v < u PROVE FALSE
        <5>1. v + 1 = u \/ v + 1 < u
          BY <1>3, <4>4
        <5>2. o[v + 1] <= o[u]
          BY <2>4, <3>4, <4>1, <4>2, <5>1
        <5> QED
          BY SMTT(30), <2>3, <2>4, <3>3, <3>4, <5>2
      <4> QED
        BY <1>3, <4>3, <4>4
    <3>6. c = b
      <4>1. o[u] + c + 1 = o[u] + b + 1
        BY <2>7, <3>3, <3>5
      <4> QED
        BY SMTT(30), <2>4, <4>1
    <3> QED
      BY <3>3, <3>5, <3>6
  <2>12. PlacesOf(f, h) = {<<u, b>>}
    BY <2>10, <2>11
  <2> QED
    BY <1>6, <2>10, <2>12
<1>7. CASE ~Complete(f)
  <2>1. ASSUME NEW p \in PlacesOf(f, h) PROVE FALSE
    <3>1. PICK v \in 1 .. NUnits : v = p[1]
      BY <1>1, <1>2, <1>3, PlaceOfHit
    <3>2. i < o[v + 1]
      BY <1>1, <1>2, <1>3, <1>4, <3>1, PlaceOfHit
    <3>3. o[v + 1] \in Nat /\ o[v + 1] <= offset /\ offset <= Len(srcbuffer)
      BY <1>1, <1>2, <1>3, Call
    <3>4. PICK y \in 1 .. NFrames + 1 : o[v + 1] = at[y]
      BY <1>1, <1>2, <1>3, Call
    <3>5. at[f] < at[y]
      BY <1>5, <3>2, <3>3, <3>4
    <3>6. at[f + 1] <= at[y]
      BY <1>1, <1>3, <3>5, NoneInside
    <3>7. at[f + 1] <= Len(srcbuffer)
      BY SMTT(30), <1>3, <1>5, <3>3, <3>4, <3>6
    <3>8. whole
      <4>1. stitched # <<>>
        BY <1>3
      <4> QED
        BY <1>1, <4>1 DEF Stages
    <3> QED
      BY <1>1, <1>3, <1>7, <3>7, <3>8, CompleteEnds
  <2>2. PlacesOf(f, h) = {}
    BY <2>1
  <2> QED
    BY <1>7, <2>2
<1> QED
  BY <1>6, <1>7

----------------------------------------------------------------------------
(* A TP frame comes out of its chunk as it was put in: tp_unpack hands     *)
(* tp_stitch the header with all of the hits and nothing else, wherever    *)
(* the chunk ends, if the frame before it has hits.                        *)
THEOREM UnpackedAsSentTheorem == Spec => []UnpackedAsSent
BY UnpackInvariant, AsSent, PTL

(* tp_unpack hands tp_stitch every hit of a complete frame exactly once,   *)
(* whatever the frames around it are, and none of a frame cut off.         *)
THEOREM EveryHitStitchedTheorem == Spec => []EveryHitStitched
BY UnpackInvariant, EveryHit, PTL

=============================================================================
