----------------------------- MODULE TPStitcher -----------------------------
(***************************************************************************)
(* tp_stitch of RAWWIBTriggerPrimitiveProcessor: the firmware finds hits   *)
(* in frames of a fixed number of ticks, one frame for one channel, and    *)
(* cuts a hit that reaches over the end of its frame.  The stitcher puts   *)
(* the parts together again.  A hit that may go on is kept in m_A, with    *)
(* the start time of its last part in m_T, until the channel's next hit    *)
(* shows whether it did.                                                   *)
(*                                                                         *)
(* A hit is known by its place in the history hits; a trigger primitive    *)
(* (TP) by the hits it was put together from, which stand for the sums of  *)
(* their lengths and charges.                                              *)
(*                                                                         *)
(* Two conversions are kept.  Times of hits are computed in double and     *)
(* come out as multiples of Ulp (1 for times below 2^53, 16 for those of   *)
(* the experiment), and differences of times are computed in int, from     *)
(* -IntHalf to IntHalf - 1.                                                *)
(***************************************************************************)
EXTENDS Integers, Sequences, FiniteSets

CONSTANTS
  Channels,        \* wires: pairs of channel and fiber number
  LastTick,        \* 63: the last tick of a frame
  TickLength,      \* m_time_tick
  StitchConstant,  \* m_stitch_constant, the length of a frame
  Ulp,             \* distance of the doubles nearest to a time
  IntHalf,         \* 2^31
  Timestamps,      \* the times frames may have
  Peaks,           \* values of adc_peak
  MaxHits,         \* bound on hits
  MaxRuns          \* bound on start commands

ASSUME StitcherAssumption ==
  /\ LastTick \in Nat
  /\ TickLength \in Nat
  /\ StitchConstant \in Nat
  /\ Ulp \in Nat \ {0}
  /\ IntHalf \in Nat \ {0}
  /\ Timestamps \subseteq Nat
  /\ Peaks \subseteq Nat
  /\ MaxHits \in Nat
  /\ MaxRuns \in Nat

(* conf makes m_stitch_constant the number of ticks of a frame times the   *)
(* tick length: 64 * 25 in the experiment, where Ulp is 16.                *)
ASSUME FrameAssumption ==
  /\ LastTick * TickLength <= StitchConstant
  /\ StitchConstant < IntHalf
  /\ StitchConstant % (2 * Ulp) = 0

VARIABLES
  m_A,      \* per channel: the TP that may go on
  m_T,      \* per channel: the start time of its last part
  frame,    \* the frame under way: [channel, timestamp, tick]
  run,      \* number of the run
  hits,     \* history: the hits, in order of arrival
  handed    \* history: the TPs handed to add_tp, [tp, channel, run]

vars == <<m_A, m_T, frame, run, hits, handed>>

Ticks == 0 .. LastTick

Hit == [channel : Channels, timestamp : Timestamps, start : Ticks, end : Ticks,
        continue : BOOLEAN, peak : Peaks, run : Nat]

TP == [parts : SUBSET Nat, time_start : Nat, adc_peak : Peaks, time_peak : Nat]

NoTP == [parts |-> {}]
NoTime == -1
NoFrame == [tick |-> LastTick + 1]

TypeOK ==
  /\ m_A \in [Channels -> TP \cup {NoTP}]
  /\ m_T \in [Channels -> Nat \cup {NoTime}]
  /\ \A c \in Channels : m_A[c] = NoTP <=> m_T[c] = NoTime
  /\ frame \in [channel : Channels, timestamp : Timestamps, tick : Nat]
                 \cup {NoFrame}
  /\ run \in 0 .. MaxRuns
  /\ hits \in Seq(Hit)
  /\ handed \in Seq([tp : TP, channel : Channels, run : Nat])

Init ==
  /\ m_A = [c \in Channels |-> NoTP]
  /\ m_T = [c \in Channels |-> NoTime]
  /\ frame = NoFrame
  /\ run = 0
  /\ hits = <<>>
  /\ handed = <<>>

----------------------------------------------------------------------------
(* The double nearest to a time, the even one of two.                      *)
Round(t) ==
  LET q == t \div Ulp
      r == t % Ulp
  IN  IF 2 * r < Ulp \/ (2 * r = Ulp /\ q % 2 = 0) THEN q * Ulp
      ELSE (q + 1) * Ulp

(* ts_0 + start_time * m_time_tick: the timestamp is made a double first.  *)
TimeStart(hit) == Round(Round(hit.timestamp) + hit.start * TickLength)

(* static_cast<int>(t) - static_cast<int>(u); an overflow wraps around.    *)
Diff(t, u) == ((t - u + IntHalf) % (2 * IntHalf)) - IntHalf

(* Variants of the next test, used to see that the properties notice a     *)
(* bug.                                                                    *)

\* a continuation by its start tick alone
ContinuesAnyTime(hit) == m_A[hit.channel] # NoTP /\ hit.start = 0

\* time is compared with the start of the TP, not of its last part
ContinuesFromStart(hit) ==
  /\ m_A[hit.channel] # NoTP
  /\ hit.start = 0
  /\ Diff(TimeStart(hit), m_A[hit.channel].time_start) <= StitchConstant

(* The current hit is the continuation of the TP that is kept.             *)
Continues(hit) ==
  LET c == hit.channel
  IN  /\ m_A[c] # NoTP
      /\ hit.start = 0
      /\ \/ Diff(TimeStart(hit), m_A[c].time_start) <= StitchConstant
         \/ Diff(TimeStart(hit), m_T[c]) <= StitchConstant

(* trigprim, the TP of the current hit alone; its number is the next one.  *)
Single(hit) ==
  [parts |-> {Len(hits) + 1}, time_start |-> TimeStart(hit),
   adc_peak |-> hit.peak, time_peak |-> Len(hits) + 1]

\* the later of two equal peaks
MergedLaterPeak(hit) ==
  LET tp == m_A[hit.channel]
      higher == hit.peak >= tp.adc_peak
  IN  [tp EXCEPT
         !.parts = @ \cup {Len(hits) + 1},
         !.adc_peak = IF higher THEN hit.peak ELSE @,
         !.time_peak = IF higher THEN Len(hits) + 1 ELSE @]

(* The TP that is kept, with the current hit added.  time_peak is the peak *)
(* time of one of the parts.                                               *)
Merged(hit) ==
  LET tp == m_A[hit.channel]
      higher == hit.peak > tp.adc_peak
  IN  [tp EXCEPT
         !.parts = @ \cup {Len(hits) + 1},
         !.adc_peak = IF higher THEN hit.peak ELSE @,
         !.time_peak = IF higher THEN Len(hits) + 1 ELSE @]

Kept(c) == IF m_A[c] = NoTP THEN <<>> ELSE <<m_A[c]>>

(* add_tp and try_sending_tpsets of the handler, for one TP or two.        *)
Hand(c, tps) ==
  handed' = handed \o
    [i \in DOMAIN tps |-> [tp |-> tps[i], channel |-> c, run |-> run]]

Keep(hit, tp) ==
  /\ m_A' = [m_A EXCEPT ![hit.channel] = tp]
  /\ m_T' = [m_T EXCEPT ![hit.channel] = TimeStart(hit)]

Clear(c) ==
  /\ m_A' = [m_A EXCEPT ![c] = NoTP]
  /\ m_T' = [m_T EXCEPT ![c] = NoTime]

(* The end of the loop body: on to the next hit of the frame.              *)
NextHit(hit) ==
  /\ hits' = Append(hits, hit)
  /\ frame' = [frame EXCEPT !.tick = hit.end + 1]
  /\ UNCHANGED run

----------------------------------------------------------------------------
(* Variants of the code, used to see that the properties notice a bug.     *)

\* the new TP takes the place of the kept one, which does not go out
StartsOverKept(hit) ==
  /\ ~Continues(hit)
  /\ hit.continue \/ hit.end = LastTick
  /\ Keep(hit, Single(hit))
  /\ NextHit(hit)
  /\ UNCHANGED handed

\* the current hit goes out before the one that was kept
SingleBeforeKept(hit) ==
  /\ ~Continues(hit)
  /\ ~hit.continue /\ hit.end # LastTick
  /\ Hand(hit.channel, <<Single(hit)>> \o Kept(hit.channel))
  /\ Clear(hit.channel)
  /\ NextHit(hit)

\* what was kept goes out and stays
SingleKeeps(hit) ==
  /\ ~Continues(hit)
  /\ ~hit.continue /\ hit.end # LastTick
  /\ Hand(hit.channel, Kept(hit.channel) \o <<Single(hit)>>)
  /\ NextHit(hit)
  /\ UNCHANGED <<m_A, m_T>>

----------------------------------------------------------------------------
(* A frame arrives.  The frames of a channel do not overlap in a run.      *)
NextFrame(c, ts) ==
  /\ run > 0
  /\ Len(hits) < MaxHits
  /\ \A i \in DOMAIN hits :
       hits[i].channel = c /\ hits[i].run = run
         => hits[i].timestamp + StitchConstant <= ts
  /\ frame' = [channel |-> c, timestamp |-> ts, tick |-> 0]
  /\ UNCHANGED <<m_A, m_T, run, hits, handed>>

(* The hit completes the TP that is kept.                                  *)
CompletesTP(hit) ==
  /\ Continues(hit)
  /\ ~hit.continue /\ hit.end # LastTick
  /\ Hand(hit.channel, <<Merged(hit)>>)
  /\ Clear(hit.channel)
  /\ NextHit(hit)

(* The hit is the last part of the TP, although it ends with the frame.    *)
(* It has been added to m_A already when it is found to be bad.            *)
EndsBadly(hit) ==
  /\ Continues(hit)
  /\ ~hit.continue /\ hit.end = LastTick
  /\ Hand(hit.channel, <<Merged(hit)>>)
  /\ Clear(hit.channel)
  /\ NextHit(hit)

(* The hit is a part of the TP and goes on.                                *)
ExtendsTP(hit) ==
  /\ Continues(hit)
  /\ hit.continue
  /\ Keep(hit, Merged(hit))
  /\ NextHit(hit)
  /\ UNCHANGED handed

(* The hit is a TP of its own; what was kept did not go on.                *)
SingleTP(hit) ==
  /\ ~Continues(hit)
  /\ ~hit.continue /\ hit.end # LastTick
  /\ Hand(hit.channel, Kept(hit.channel) \o <<Single(hit)>>)
  /\ Clear(hit.channel)
  /\ NextHit(hit)

(* The hit may go on; what was kept did not.                               *)
StartsTP(hit) ==
  /\ ~Continues(hit)
  /\ hit.continue \/ hit.end = LastTick
  /\ Hand(hit.channel, Kept(hit.channel))
  /\ Keep(hit, Single(hit))
  /\ NextHit(hit)

(* The hits the frame may still hold: after the last one, and going on     *)
(* only at the end of the frame.                                           *)
HitsOfFrame ==
  {hit \in [channel : {frame.channel}, timestamp : {frame.timestamp},
            start : frame.tick .. LastTick, end : frame.tick .. LastTick,
            continue : BOOLEAN, peak : Peaks, run : {run}] :
     hit.start <= hit.end /\ (hit.continue => hit.end = LastTick)}

StitchHit(hit) ==
  CompletesTP(hit) \/ EndsBadly(hit) \/ ExtendsTP(hit) \/ SingleTP(hit)
    \/ StartsTP(hit)

Stitch ==
  /\ frame.tick <= LastTick
  /\ Len(hits) < MaxHits
  /\ \E hit \in HitsOfFrame : StitchHit(hit)

(* start, between two frames: the handler is reset, m_A and m_T are not.   *)
Start ==
  /\ run < MaxRuns
  /\ run' = run + 1
  /\ frame' = NoFrame
  /\ UNCHANGED <<m_A, m_T, hits, handed>>

Next ==
  \/ \E c \in Channels, ts \in Timestamps : NextFrame(c, ts)
  \/ Stitch
  \/ Start

Spec == Init /\ [][Next]_vars
----------------------------------------------------------------------------
(* The TPs of a channel, and the hit before a given one on its channel.    *)
HandedTPs(c) == {handed[i].tp : i \in {k \in DOMAIN handed : handed[k].channel = c}}
TPs(c) == HandedTPs(c) \cup ({m_A[c]} \ {NoTP})

Follows(j, i) ==
  /\ i < j /\ hits[i].channel = hits[j].channel
  /\ \A k \in DOMAIN hits :
       i < k /\ k < j => hits[k].channel # hits[j].channel

(* Every hit leaves in exactly one TP, of its channel, or is still kept,   *)
(* whatever path it takes through the loop body; a stitched hit that ends  *)
(* badly too, as the code has it (the comment there says otherwise, see    *)
(* BadHitLeftOut).                                                         *)
EveryHitOnce ==
  /\ \A c \in Channels :
       UNION {tp.parts : tp \in TPs(c)} = {i \in DOMAIN hits : hits[i].channel = c}
  /\ \A i, j \in DOMAIN handed :
       i # j => handed[i].tp.parts \cap handed[j].tp.parts = {}
  /\ \A i \in DOMAIN handed, c \in Channels :
       handed[i].tp.parts \cap m_A[c].parts = {}

(* "the current hit is bad; add one TriggerPrimitive from previous         *)
(* stitched hits except the current hit": of a TP made of several hits     *)
(* none but the first ends with its frame without going on.                *)
BadHitLeftOut ==
  \A i \in DOMAIN handed : \A p, q \in handed[i].tp.parts :
    p < q => hits[q].continue \/ hits[q].end # LastTick

(* A channel's TPs leave in the order of their hits, and a TP is made of   *)
(* hits in a row: "this assumes hits come ordered in time".                *)
HandedInOrder ==
  /\ \A i, j \in DOMAIN handed :
       i < j /\ handed[i].channel = handed[j].channel =>
         \A p \in handed[i].tp.parts, q \in handed[j].tp.parts : p < q
  /\ \A i \in DOMAIN handed :
       \A p \in handed[i].tp.parts, q \in m_A[handed[i].channel].parts : p < q

OneRun(tp) == \A p, q \in tp.parts : hits[p].run = hits[q].run

(* What is stitched belongs together: a part that is not the first starts  *)
(* with its frame, and at most m_stitch_constant after the part before.    *)
(* Only a TP of a single run and shorter than int can count.               *)
StitchedNeighbours ==
  \A c \in Channels : \A tp \in TPs(c) : \A i, j \in tp.parts :
    Follows(j, i) =>
      /\ hits[j].start = 0
      /\ OneRun(tp) /\ TimeStart(hits[j]) - tp.time_start < IntHalf
           => TimeStart(hits[j]) - TimeStart(hits[i]) <= StitchConstant

(* The firmware cut a hit at the end of i's frame and the beginning of j's. *)
Cut(i, j) ==
  /\ Follows(j, i)
  /\ hits[i].run = hits[j].run
  /\ hits[i].continue
  /\ hits[j].start = 0
  /\ hits[j].timestamp = hits[i].timestamp + StitchConstant

(* A hit that goes on at the end of its frame and the one that starts the  *)
(* channel's next frame end up in one TP, in spite of the rounding (the    *)
(* length of a frame is a multiple of 2 * Ulp).                            *)
HitsRejoined ==
  \A i, j \in DOMAIN hits :
    Cut(i, j) => \E tp \in TPs(hits[j].channel) : {i, j} \subseteq tp.parts

(* A TP starts with its first part, and its peak is the first of its       *)
(* parts' highest ones.                                                    *)
FieldsOfParts ==
  \A c \in Channels : \A tp \in TPs(c) :
    /\ \E i \in tp.parts :
         /\ \A p \in tp.parts : i <= p
         /\ tp.time_start = TimeStart(hits[i])
    /\ tp.time_peak \in tp.parts
    /\ hits[tp.time_peak].peak = tp.adc_peak
    /\ \A p \in tp.parts :
         IF p < tp.time_peak THEN hits[p].peak < tp.adc_peak
         ELSE hits[p].peak <= tp.adc_peak

(* start clears neither m_A nor m_T: hits of an earlier run do leave in a  *)
(* TP of a later one, but no more than one TP of a channel in all.         *)
Stale(i) == \E p \in handed[i].tp.parts : hits[p].run < handed[i].run

StaleOncePerRun ==
  \A i, j \in DOMAIN handed :
    Stale(i) /\ Stale(j)
      /\ handed[i].channel = handed[j].channel /\ handed[i].run = handed[j].run
    => i = j
============================================================================
