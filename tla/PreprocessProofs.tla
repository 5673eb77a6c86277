-------------------------- MODULE PreprocessProofs --------------------------
(***************************************************************************)
(* Proofs about Preprocess for every processor, superchunk length, number  *)
(* of channels, limit, threshold and period.                               *)
(*                                                                         *)
(* The gaps: m_previous_ts of a channel is the time of the last superchunk *)
(* that arrived, which is older than all that are still to come; so the    *)
(* interval a superchunk registers lies between the two, and leaves what   *)
(* was said about older superchunks as it was (GapInv).  The sink: every   *)
(* frame sent raises a counter that never passes the threshold (ErrInv).   *)
(***************************************************************************)
EXTENDS Preprocess, TLAPS, FiniteSetTheorems

Interval   == [from : Int, to : Int, channel : Channels, run : Nat]
Superchunks == [run : Nat, channel : Channels, k : Nat, stamps : [1 .. get_num_frames -> Int]]

TSType ==
  /\ processor \in Processors
  /\ m_emulator_mode \in BOOLEAN
  /\ run \in Nat
  /\ m_previous_ts \in [Channels -> Int]
  /\ m_first_ts_fake \in BOOLEAN /\ m_problem_reported \in BOOLEAN
  /\ m_ts_error_ctr \in Nat
  /\ m_error_registry \in Seq(Interval)
  /\ sent \in [Channels -> Nat]
  /\ stored \in Seq(Superchunks)

ErrType ==
  /\ m_error_occurrence_counters \in [ErrorBits -> Nat]
  /\ m_frames_processed \in Nat
  /\ m_err_frame_sink \in [ErrorBits -> Nat]
  /\ decays \in [ErrorBits -> Nat]

(* No bit is counted beyond the threshold, and the frames sent for it are  *)
(* accounted for by its counter and by how often that went down.           *)
ErrInv ==
  \A j \in ErrorBits :
    /\ m_error_occurrence_counters[j] <= Threshold
    /\ m_err_frame_sink[j] <= m_error_occurrence_counters[j] + decays[j]

(* Nothing is of a run to come.                                            *)
RunsInv ==
  /\ \A i \in DOMAIN stored : stored[i].run <= run
  /\ \A i \in DOMAIN m_error_registry : m_error_registry[i].run <= run

Emulated == m_emulator_mode /\ processor \notin {"DAPHNEStream", "SSP"}

(* In emulator mode m_previous_ts is where the last superchunk of the run  *)
(* began.                                                                  *)
EmuInv ==
  Emulated =>
    /\ m_error_registry = <<>>
    /\ processor = "DAPHNE" /\ m_first_ts_fake => stored = <<>>
    /\ \A i \in DOMAIN stored :
         stored[i].stamps[get_num_frames] = stored[i].stamps[1] + get_num_frames - 1
    /\ \A i \in DOMAIN stored :
         stored[i].run = run /\ (\A n \in i + 1 .. Len(stored) : stored[n].channel # stored[i].channel)
           => m_previous_ts[stored[i].channel] = stored[i].stamps[1]

(* Without the emulator m_previous_ts is the time of the last superchunk   *)
(* that arrived, or 0, and nothing after it is registered as missing.      *)
LastIs(c, last) ==
  /\ m_previous_ts[c] = FirstOf(last)
  /\ last <= sent[c]
  /\ \A k \in Arrived(c) : 1 <= k /\ k <= last
  /\ last = 0 \/ last \in Arrived(c)
  /\ \A k \in Nat : k > last => ~Reported(c, k)
  /\ \A k \in 1 .. last :
       (processor = "TDE" => \E first \in Arrived(c) : first <= k)
         => (Reported(c, k) <=> k \notin Arrived(c))

GapInv == Checked /\ ~m_emulator_mode => \A c \in Links : \E last \in Nat : LastIs(c, last)

-----------------------------------------------------------------------------
(* frame_error_check *)

LEMMA InitErr == Init => ErrType /\ ErrInv
<1> SUFFICES ASSUME Init PROVE ErrType /\ ErrInv
  OBVIOUS
<1> QED BY FrameErrorsAssumption DEF Init, ErrInit, ErrType, ErrInv

LEMMA StepErr == ErrType /\ ErrInv /\ [Next]_vars => (ErrType /\ ErrInv)'
<1> SUFFICES ASSUME ErrType, ErrInv, [Next]_vars PROVE (ErrType /\ ErrInv)'
  OBVIOUS
<1> USE DEF ErrType, ErrInv
<1>1. CASE Frame
  <2>1. PICK wib_errors \in SUBSET ErrorBits, by \in SUBSET ErrorBits : CheckFrame(wib_errors, by)
    BY <1>1 DEF Frame, frame_error_check
  <2>2. \A j \in ErrorBits : Decay(j) \in 0 .. 1 /\ Decay(j) <= m_error_occurrence_counters[j]
    BY DEF Decay
  <2>3. \A j \in ErrorBits : Decayed[j] \in Nat /\ Decayed[j] + Decay(j) = m_error_occurrence_counters[j]
    BY <2>2 DEF Decayed
  <2>4. ErrType'
    <3>1. m_error_occurrence_counters' \in [ErrorBits -> Nat]
      BY <2>1, <2>3 DEF CheckFrame
    <3>2. m_frames_processed' \in Nat
      BY <2>1 DEF CheckFrame
    <3>3. m_err_frame_sink' \in [ErrorBits -> Nat]
      BY <2>1 DEF CheckFrame
    <3>4. decays' \in [ErrorBits -> Nat]
      BY <2>1, <2>2 DEF CheckFrame
    <3> QED BY <3>1, <3>2, <3>3, <3>4
  <2>5. ASSUME NEW j \in ErrorBits
        PROVE  /\ m_error_occurrence_counters'[j] <= Threshold
               /\ m_err_frame_sink'[j] <= m_error_occurrence_counters'[j] + decays'[j]
    <3>1. m_error_occurrence_counters'[j] = Decayed[j] + (IF j \in Eligible(wib_errors) THEN 1 ELSE 0)
      BY <2>1 DEF CheckFrame
    <3>2. m_err_frame_sink'[j] = m_err_frame_sink[j] + (IF j \in by THEN 1 ELSE 0)
      BY <2>1 DEF CheckFrame
    <3>3. decays'[j] = decays[j] + Decay(j)
      BY <2>1 DEF CheckFrame
    <3>4. j \in by => j \in Eligible(wib_errors)
      BY <2>1 DEF CheckFrame
    <3>5. j \in Eligible(wib_errors) => Decayed[j] < Threshold
      BY DEF Eligible
    <3>6. m_err_frame_sink[j] <= m_error_occurrence_counters[j] + decays[j]
      OBVIOUS
    <3>7. m_error_occurrence_counters[j] \in Nat /\ decays[j] \in Nat /\ m_err_frame_sink[j] \in Nat
          /\ m_error_occurrence_counters[j] <= Threshold
      OBVIOUS
    <3>8. m_error_occurrence_counters'[j] <= Threshold
      BY <3>1, <3>5, <3>7, <2>2, <2>3, FrameErrorsAssumption
    <3>9. m_err_frame_sink'[j] <= m_error_occurrence_counters'[j] + decays'[j]
      BY <3>1, <3>2, <3>3, <3>4, <3>6, <3>7, <2>2, <2>3
    <3> QED BY <3>8, <3>9
  <2> QED BY <2>4, <2>5
<1>2. CASE Start
  BY <1>2 DEF Start, StartErrors, errVars
<1>3. CASE UNCHANGED <<m_error_occurrence_counters, m_frames_processed, m_err_frame_sink, decays>>
  BY <1>3
<1> QED BY <1>1, <1>2, <1>3 DEF Next, Stop, Superchunk, Loss, Chunk, errVars, vars

(* The sink for errored frames gets at most Threshold frames for a bit,    *)
(* and one more for every time the counter of the bit went down.           *)
THEOREM SinkIsBounded == Spec => []ErrorSinkBounded
<1>1. ErrType /\ ErrInv => ErrorSinkBounded
  <2> SUFFICES ASSUME ErrType, ErrInv, NEW j \in ErrorBits
               PROVE  m_err_frame_sink[j] <= Threshold + decays[j]
    BY DEF ErrorSinkBounded
  <2>1. /\ m_error_occurrence_counters[j] \in Nat /\ decays[j] \in Nat /\ m_err_frame_sink[j] \in Nat
        /\ m_error_occurrence_counters[j] <= Threshold
        /\ m_err_frame_sink[j] <= m_error_occurrence_counters[j] + decays[j]
    BY DEF ErrType, ErrInv
  <2> QED BY <2>1, FrameErrorsAssumption
<1> QED BY <1>1, InitErr, StepErr, PTL DEF Spec

-----------------------------------------------------------------------------
(* Steps of the first stage *)

LEMMA Sizes ==
  /\ get_num_frames \in Nat \ {0}
  /\ Links \subseteq Channels
<1>1. SomeChannel \in Channels
  BY TimestampsAssumption DEF SomeChannel
<1> QED BY <1>1, TimestampsAssumption DEF get_num_frames, Links

(* The timestamp the check sees.                                           *)
Seen(c) == IF m_emulator_mode THEN EmulatedFirst(c) ELSE FirstOf(sent[c] + 1)

LEMMA SeenInt ==
  ASSUME TSType, NEW c \in Channels
  PROVE  Seen(c) \in Int
<1>1. sent[c] + 1 \in Int /\ m_previous_ts[c] \in Int
  BY DEF TSType
<1>2. FirstOf(sent[c] + 1) \in Int
  BY <1>1, Sizes DEF FirstOf
<1> QED BY <1>1, <1>2, Sizes, TimestampsAssumption DEF Seen, EmulatedFirst

(* What a timestamp check leaves.                                          *)
LEMMA CheckEffect ==
  ASSUME TSType, NEW c \in Links, timestamp_check(c)
  PROVE  /\ UNCHANGED <<processor, m_emulator_mode, run>>
         /\ sent' = [sent EXCEPT ![c] = @ + 1]
         /\ m_previous_ts' = IF processor = "SSP" THEN m_previous_ts ELSE [m_previous_ts EXCEPT ![c] = Seen(c)]
         /\ m_error_registry' = IF Mismatch(c, Seen(c)) THEN Append(m_error_registry, MissingFrames(c, Seen(c)))
                                ELSE m_error_registry
         /\ m_ts_error_ctr' = m_ts_error_ctr + (IF Mismatch(c, Seen(c)) THEN 1 ELSE 0)
         /\ m_problem_reported' = (m_problem_reported \/ m_ts_error_ctr' > ProblemLimit)
         /\ m_first_ts_fake' = (m_first_ts_fake /\ ~(m_emulator_mode /\ processor = "DAPHNE"))
         /\ stored' = Append(stored, [run |-> run, channel |-> c, k |-> sent[c] + 1,
                                      stamps |-> Consecutive(Seen(c))])
         /\ MissingFrames(c, Seen(c)) \in Interval
         /\ [run |-> run, channel |-> c, k |-> sent[c] + 1, stamps |-> Consecutive(Seen(c))] \in Superchunks
<1>1. c \in Channels /\ Seen(c) \in Int /\ get_num_frames \in Nat \ {0}
  BY Sizes, SeenInt
<1>2. run \in Nat /\ sent[c] + 1 \in Nat /\ m_previous_ts[c] \in Int
  BY <1>1 DEF TSType
<1>3. MissingFrames(c, Seen(c)) \in Interval
  BY <1>1, <1>2 DEF MissingFrames, Interval
<1>4. Consecutive(Seen(c)) \in [1 .. get_num_frames -> Int]
  BY <1>1 DEF Consecutive
<1>5. [run |-> run, channel |-> c, k |-> sent[c] + 1, stamps |-> Consecutive(Seen(c))] \in Superchunks
  BY <1>1, <1>2, <1>4 DEF Superchunks
<1> QED BY <1>3, <1>5 DEF timestamp_check, Seen

TSSame == UNCHANGED <<processor, m_emulator_mode, run, m_previous_ts, m_first_ts_fake, m_problem_reported,
                      m_ts_error_ctr, m_error_registry, stored>>

(* Every step starts a run, checks a superchunk, or leaves all but the     *)
(* number of superchunks sent.                                             *)
LEMMA StepKinds ==
  ASSUME [Next]_vars
  PROVE  \/ start
         \/ \E c \in Links : timestamp_check(c)
         \/ TSSame /\ \E c \in Links : sent' = [sent EXCEPT ![c] = @ + 1]
         \/ TSSame /\ sent' = sent
<1>1. Start => start
  BY DEF Start
<1>2. Stop => TSSame /\ sent' = sent
  BY DEF Stop, stop, TSSame
<1>3. Superchunk => \E c \in Links : timestamp_check(c)
  BY DEF Superchunk
<1>4. Frame \/ Chunk => TSSame /\ sent' = sent
  BY DEF Frame, Chunk, tsVars, TSSame
<1>5. Loss => TSSame /\ \E c \in Links : sent' = [sent EXCEPT ![c] = @ + 1]
  BY DEF Loss, Lose, TSSame
<1>6. UNCHANGED vars => TSSame /\ sent' = sent
  BY DEF vars, tsVars, TSSame
<1> QED BY <1>1, <1>2, <1>3, <1>4, <1>5, <1>6 DEF Next

LEMMA AppendFacts ==
  ASSUME NEW S, NEW q \in Seq(S), NEW x \in S
  PROVE  /\ Append(q, x) \in Seq(S)
         /\ Len(Append(q, x)) = Len(q) + 1 /\ Len(q) \in Nat
         /\ DOMAIN q = 1 .. Len(q) /\ DOMAIN Append(q, x) = 1 .. Len(q) + 1
         /\ \A i \in DOMAIN q : i \in DOMAIN Append(q, x) /\ Append(q, x)[i] = q[i]
         /\ Append(q, x)[Len(q) + 1] = x
         /\ \A i \in DOMAIN Append(q, x) : i \in DOMAIN q \/ i = Len(q) + 1
  OBVIOUS

LEMMA Elements ==
  ASSUME NEW S, NEW q \in Seq(S)
  PROVE  \A i \in DOMAIN q : q[i] \in S
  OBVIOUS

LEMMA InitTS == Init => TSType /\ RunsInv
<1> SUFFICES ASSUME Init PROVE TSType /\ RunsInv
  OBVIOUS
<1>1. <<>> \in Seq(Interval) /\ <<>> \in Seq(Superchunks)
  OBVIOUS
<1>2. TSType
  <2>1. m_previous_ts \in [Channels -> Int] /\ sent \in [Channels -> Nat] /\ run \in Nat /\ m_ts_error_ctr \in Nat
    BY DEF Init, TSInit
  <2>2. m_first_ts_fake \in BOOLEAN /\ m_problem_reported \in BOOLEAN /\ m_emulator_mode \in BOOLEAN
    BY DEF Init, TSInit
  <2>3. processor \in Processors /\ m_error_registry = <<>> /\ stored = <<>>
    BY DEF Init, TSInit
  <2> QED BY <1>1, <2>1, <2>2, <2>3 DEF TSType
<1>3. RunsInv
  BY DEF Init, TSInit, RunsInv
<1> QED BY <1>2, <1>3

LEMMA StepTS == TSType /\ RunsInv /\ [Next]_vars => (TSType /\ RunsInv)'
<1> SUFFICES ASSUME TSType, RunsInv, [Next]_vars PROVE (TSType /\ RunsInv)'
  OBVIOUS
<1>1. CASE start
  <2>1. UNCHANGED <<processor, m_emulator_mode, m_first_ts_fake, m_error_registry, sent, stored>> /\ run' = run + 1
    BY <1>1 DEF start
  <2>2. m_previous_ts' \in [Channels -> Int] /\ m_problem_reported' \in BOOLEAN /\ m_ts_error_ctr' \in Nat
    <3>1. CASE ForgetsAtStart
      <4>1. m_previous_ts' = [c \in Channels |-> 0] /\ m_problem_reported' = FALSE /\ m_ts_error_ctr' = 0
        BY <1>1, <3>1 DEF start
      <4>2. m_problem_reported' \in BOOLEAN
        BY <4>1
      <4>3. m_previous_ts' \in [Channels -> Int] /\ m_ts_error_ctr' \in Nat
        BY <4>1
      <4> QED BY <4>2, <4>3
    <3>2. CASE ~ForgetsAtStart
      BY <1>1, <3>2 DEF start, TSType
    <3> QED BY <3>1, <3>2
  <2>3. TSType'
    BY <2>1, <2>2 DEF TSType, Superchunks, get_num_frames
  <2>4. \A i \in DOMAIN stored : stored[i].run \in Nat
    <3>1. \A i \in DOMAIN stored : stored[i] \in Superchunks
      BY Elements DEF TSType
    <3> QED BY <3>1 DEF Superchunks
  <2>5. \A i \in DOMAIN m_error_registry : m_error_registry[i].run \in Nat
    <3>1. \A i \in DOMAIN m_error_registry : m_error_registry[i] \in Interval
      BY Elements DEF TSType
    <3> QED BY <3>1 DEF Interval
  <2>6. RunsInv'
    <3>1. run \in Nat
      BY DEF TSType
    <3>2. \A n \in Nat : n <= run => n <= run'
      BY <2>1, <3>1
    <3> QED BY <2>1, <2>4, <2>5, <3>2 DEF RunsInv
  <2> QED BY <2>3, <2>6
<1>2. CASE \E c \in Links : timestamp_check(c)
  <2>1. PICK c \in Links : timestamp_check(c)
    BY <1>2
  <2> DEFINE m == MissingFrames(c, Seen(c))
             s == [run |-> run, channel |-> c, k |-> sent[c] + 1, stamps |-> Consecutive(Seen(c))]
  <2>2. /\ UNCHANGED <<processor, m_emulator_mode, run>>
        /\ sent' = [sent EXCEPT ![c] = @ + 1]
        /\ m_error_registry' = Append(m_error_registry, m) \/ m_error_registry' = m_error_registry
        /\ stored' = Append(stored, s)
        /\ m \in Interval /\ s \in Superchunks
    BY <2>1, CheckEffect
  <2>3. c \in Channels /\ Seen(c) \in Int
    BY Sizes, SeenInt
  <2>4. m.run = run /\ s.run = run
    BY DEF MissingFrames
  <2> HIDE DEF m, s
  <2>5. m_previous_ts' \in [Channels -> Int]
    BY <2>1, <2>3, CheckEffect DEF TSType
  <2>6. m_ts_error_ctr' \in Nat
    <3>1. m_ts_error_ctr' = m_ts_error_ctr \/ m_ts_error_ctr' = m_ts_error_ctr + 1
      <4>1. CASE Mismatch(c, Seen(c))
        BY <2>1, <2>3, <4>1, CheckEffect, Sizes
      <4>2. CASE ~Mismatch(c, Seen(c))
        <5>1. m_ts_error_ctr' = m_ts_error_ctr + 0
          BY <2>1, <4>2, CheckEffect, Zenon
        <5> QED BY <5>1 DEF TSType
      <4> QED BY <4>1, <4>2
    <3> QED BY <3>1 DEF TSType
  <2>7. m_first_ts_fake' \in BOOLEAN /\ m_problem_reported' \in BOOLEAN
    BY <2>1, CheckEffect DEF TSType
  <2>8. m_error_registry' \in Seq(Interval) /\ stored' \in Seq(Superchunks)
    <3>1. m_error_registry \in Seq(Interval) /\ stored \in Seq(Superchunks)
      BY DEF TSType
    <3>2. Append(m_error_registry, m) \in Seq(Interval)
      BY <2>2, <3>1, AppendFacts
    <3>3. Append(stored, s) \in Seq(Superchunks)
      BY <2>2, <3>1, AppendFacts
    <3> QED BY <2>2, <3>1, <3>2, <3>3
  <2>9. sent' \in [Channels -> Nat]
    BY <2>2, <2>3 DEF TSType
  <2>10. Superchunks' = Superchunks
    BY <2>2 DEF Superchunks, get_num_frames
  <2>11. TSType'
    BY <2>2, <2>5, <2>6, <2>7, <2>8, <2>9, <2>10 DEF TSType
  <2>12. RunsInv'
    <3>1. \A i \in DOMAIN stored' : (i \in DOMAIN stored /\ stored'[i] = stored[i]) \/ stored'[i] = s
      <4>1. stored \in Seq(Superchunks)
        BY DEF TSType
      <4> QED BY <2>2, <4>1, AppendFacts
    <3>2. \A i \in DOMAIN m_error_registry' :
            (i \in DOMAIN m_error_registry /\ m_error_registry'[i] = m_error_registry[i]) \/ m_error_registry'[i] = m
      <4>1. m_error_registry \in Seq(Interval)
        BY DEF TSType
      <4>2. \A i \in DOMAIN Append(m_error_registry, m) :
              (i \in DOMAIN m_error_registry /\ Append(m_error_registry, m)[i] = m_error_registry[i])
              \/ Append(m_error_registry, m)[i] = m
        BY <2>2, <4>1, AppendFacts
      <4>3. CASE m_error_registry' = m_error_registry
        BY <4>3
      <4>4. CASE m_error_registry' = Append(m_error_registry, m)
        BY <4>2, <4>4
      <4> QED BY <2>2, <4>3, <4>4
    <3>3. run <= run
      BY DEF TSType
    <3> QED BY <2>2, <2>4, <3>1, <3>2, <3>3 DEF RunsInv
  <2> QED BY <2>11, <2>12
<1>3. CASE TSSame /\ (sent' = sent \/ \E c \in Links : sent' = [sent EXCEPT ![c] = @ + 1])
  <2>1. sent' \in [Channels -> Nat]
    <3>1. CASE sent' = sent
      BY <3>1 DEF TSType
    <3>2. ASSUME NEW c \in Links, sent' = [sent EXCEPT ![c] = @ + 1] PROVE sent' \in [Channels -> Nat]
      BY <3>2, Sizes DEF TSType
    <3> QED BY <1>3, <3>1, <3>2
  <2>2. TSType'
    BY <1>3, <2>1 DEF TSSame, TSType, Superchunks, get_num_frames
  <2> QED BY <1>3, <2>2 DEF TSSame, RunsInv
<1> QED BY <1>1, <1>2, <1>3, StepKinds

(* The variables of the timestamp check have their types, and nothing that  *)
(* was stored or registered is of a run to come.                           *)
THEOREM TypeCorrect == Spec => [](TSType /\ RunsInv)
BY InitTS, StepTS, PTL DEF Spec

-----------------------------------------------------------------------------
(* The count of gaps *)

LEMMA GapsFinite ==
  ASSUME TSType
  PROVE  IsFiniteSet(Gaps) /\ Cardinality(Gaps) \in Nat /\ Gaps \subseteq 1 .. Len(m_error_registry)
         /\ Len(m_error_registry) \in Nat
<1>1. Len(m_error_registry) \in Nat /\ DOMAIN m_error_registry = 1 .. Len(m_error_registry)
  BY DEF TSType
<1>2. IsFiniteSet(1 .. Len(m_error_registry))
  BY <1>1, FS_Interval
<1>3. Gaps \subseteq 1 .. Len(m_error_registry)
  BY <1>1 DEF Gaps
<1>4. IsFiniteSet(Gaps)
  BY <1>2, <1>3, FS_Subset
<1> QED BY <1>1, <1>3, <1>4, FS_CardinalityType

LEMMA InitProblem == Init => ProblemAfterLimit
<1> SUFFICES ASSUME Init PROVE ProblemAfterLimit
  OBVIOUS
<1>1. Gaps = {}
  BY DEF Init, TSInit, Gaps
<1>2. Cardinality(Gaps) = 0
  BY <1>1, FS_EmptySet
<1>3. ~(Cardinality(Gaps) > ProblemLimit) /\ m_ts_error_ctr = Cardinality(Gaps)
  BY <1>2, TimestampsAssumption DEF Init, TSInit
<1> QED BY <1>3 DEF Init, TSInit, ProblemAfterLimit

LEMMA StepProblem == TSType /\ RunsInv /\ ProblemAfterLimit /\ [Next]_vars => ProblemAfterLimit'
<1> SUFFICES ASSUME TSType, RunsInv, ProblemAfterLimit, [Next]_vars PROVE ProblemAfterLimit'
  OBVIOUS
<1>0. Cardinality(Gaps) \in Nat /\ ProblemLimit \in Int /\ m_ts_error_ctr = Cardinality(Gaps)
  BY GapsFinite, TimestampsAssumption DEF ProblemAfterLimit
<1>1. CASE start /\ ForgetsAtStart
  <2>1. m_problem_reported' = FALSE /\ m_ts_error_ctr' = 0 /\ run' = run + 1
        /\ m_error_registry' = m_error_registry /\ processor' = processor
    BY <1>1 DEF start
  <2>2. \A i \in DOMAIN m_error_registry : m_error_registry[i].run # run'
    <3>1. \A i \in DOMAIN m_error_registry : m_error_registry[i] \in Interval
      BY Elements DEF TSType
    <3>2. \A i \in DOMAIN m_error_registry : m_error_registry[i].run \in Nat
      BY <3>1 DEF Interval
    <3>3. run \in Nat
      BY DEF TSType
    <3> QED BY <2>1, <3>2, <3>3 DEF RunsInv
  <2>3. Gaps' = {}
    BY <1>1, <2>1, <2>2 DEF Gaps, Known, ForgetsAtStart
  <2>4. Cardinality(Gaps)' = 0
    BY <2>3, FS_EmptySet
  <2>5. ~(Cardinality(Gaps)' > ProblemLimit) /\ m_ts_error_ctr' = Cardinality(Gaps)'
    BY <2>1, <2>4, TimestampsAssumption
  <2> QED BY <2>1, <2>5 DEF ProblemAfterLimit
<1>2. CASE start /\ ~ForgetsAtStart
  <2>1. UNCHANGED <<processor, m_problem_reported, m_ts_error_ctr, m_error_registry>>
    BY <1>2 DEF start
  <2>2. Gaps' = Gaps
    BY <1>2, <2>1 DEF Gaps, Known, ForgetsAtStart
  <2> QED BY <2>1, <2>2 DEF ProblemAfterLimit
<1>3. CASE \E c \in Links : timestamp_check(c)
  <2>1. PICK c \in Links : timestamp_check(c)
    BY <1>3
  <2>2. UNCHANGED <<processor, run>>
    BY <2>1, CheckEffect
  <2>3. CASE Mismatch(c, Seen(c))
    <3> DEFINE m == MissingFrames(c, Seen(c))
               new == Len(m_error_registry) + 1
    <3>1. /\ m_error_registry' = Append(m_error_registry, m) /\ m \in Interval
          /\ m_ts_error_ctr' = m_ts_error_ctr + 1
          /\ m_problem_reported' = (m_problem_reported \/ m_ts_error_ctr' > ProblemLimit)
      BY <2>1, <2>3, CheckEffect
    <3>2. m.run = run
      BY DEF MissingFrames
    <3> HIDE DEF m
    <3>3. m_error_registry \in Seq(Interval)
      BY DEF TSType
    <3>4. /\ DOMAIN m_error_registry' = 1 .. new /\ m_error_registry'[new] = m
          /\ DOMAIN m_error_registry = 1 .. Len(m_error_registry) /\ Len(m_error_registry) \in Nat
          /\ \A i \in DOMAIN m_error_registry : m_error_registry'[i] = m_error_registry[i]
      BY <3>1, <3>3, AppendFacts
    <3>5. Gaps' = Gaps \cup {new}
      BY <2>2, <3>2, <3>4 DEF Gaps, Known, ForgetsAtStart
    <3>6. new \notin Gaps
      BY <3>4 DEF Gaps
    <3>7. Cardinality(Gaps)' = Cardinality(Gaps) + 1
      BY <3>5, <3>6, GapsFinite, FS_AddElement
    <3>8. m_ts_error_ctr' = Cardinality(Gaps)'
      BY <1>0, <3>1, <3>7
    <3>9. Cardinality(Gaps) > ProblemLimit => Cardinality(Gaps)' > ProblemLimit
      BY <1>0, <3>7
    <3> QED BY <3>1, <3>8, <3>9 DEF ProblemAfterLimit
  <2>4. CASE ~Mismatch(c, Seen(c))
    <3>1. m_error_registry' = m_error_registry /\ m_ts_error_ctr' = m_ts_error_ctr + 0
          /\ m_problem_reported' = (m_problem_reported \/ m_ts_error_ctr' > ProblemLimit)
      BY <2>1, <2>4, CheckEffect, Zenon
    <3>2. Gaps' = Gaps
      BY <2>2, <3>1 DEF Gaps, Known, ForgetsAtStart
    <3>3. m_ts_error_ctr' = Cardinality(Gaps)
      BY <1>0, <3>1
    <3> QED BY <3>1, <3>2, <3>3 DEF ProblemAfterLimit
  <2> QED BY <2>3, <2>4
<1>4. CASE TSSame
  <2>1. Gaps' = Gaps
    BY <1>4 DEF TSSame, Gaps, Known, ForgetsAtStart
  <2> QED BY <1>4, <2>1 DEF TSSame, ProblemAfterLimit
<1> QED BY <1>1, <1>2, <1>3, <1>4, StepKinds

(* m_problem_reported is set exactly when more than ProblemLimit gaps were  *)
(* registered in the run, and m_ts_error_ctr counts them.                   *)
THEOREM ProblemReported == Spec => []ProblemAfterLimit
BY InitTS, StepTS, InitProblem, StepProblem, PTL DEF Spec

-----------------------------------------------------------------------------
(* Emulated timestamps *)

LEMMA EmulatedFollows ==
  ASSUME TSType, EmuInv, Emulated, NEW c \in Links
  PROVE  /\ ~Mismatch(c, Seen(c))
         /\ stored # <<>> => Seen(c) = m_previous_ts[c] + get_num_frames
<1>1. c \in Channels /\ m_previous_ts[c] \in Int /\ get_num_frames \in Nat
  BY Sizes DEF TSType
<1>2. CASE processor = "DAPHNE"
  <2>1. get_num_frames = Frames /\ ~Checked
    BY <1>2 DEF get_num_frames, Checked
  <2>2. Seen(c) = IF m_first_ts_fake THEN m_previous_ts[c] ELSE m_previous_ts[c] + Frames
    BY <1>2 DEF Seen, EmulatedFirst, Emulated
  <2>3. stored # <<>> => ~m_first_ts_fake
    BY <1>2 DEF EmuInv
  <2>4. stored # <<>> => Seen(c) = m_previous_ts[c] + get_num_frames
    BY <2>1, <2>2, <2>3
  <2> QED BY <2>1, <2>4 DEF Mismatch
<1>3. CASE processor # "DAPHNE"
  <2>1. Seen(c) = m_previous_ts[c] + get_num_frames
    BY <1>3 DEF Seen, EmulatedFirst, Emulated
  <2>2. Seen(c) - m_previous_ts[c] = get_num_frames
    BY <1>1, <2>1
  <2> QED BY <2>1, <2>2 DEF Mismatch
<1> QED BY <1>2, <1>3

LEMMA InitEmulated == Init => EmuInv /\ EmulatedContiguous
<1> SUFFICES ASSUME Init PROVE EmuInv /\ EmulatedContiguous
  OBVIOUS
<1> QED BY DEF Init, TSInit, EmuInv, EmulatedContiguous

LEMMA StepEmulated ==
  TSType /\ RunsInv /\ EmuInv /\ EmulatedContiguous /\ [Next]_vars => (EmuInv /\ EmulatedContiguous)'
<1> SUFFICES ASSUME TSType, RunsInv, EmuInv, EmulatedContiguous, [Next]_vars, Emulated'
             PROVE  (EmuInv /\ EmulatedContiguous)'
  BY DEF EmuInv, EmulatedContiguous, Emulated
<1>0. stored \in Seq(Superchunks) /\ DOMAIN stored = 1 .. Len(stored) /\ Len(stored) \in Nat
  BY DEF TSType
<1>1. CASE start
  <2>1. UNCHANGED <<processor, m_emulator_mode, m_first_ts_fake, m_error_registry, stored>> /\ run' = run + 1
    BY <1>1 DEF start
  <2>2. \A i \in DOMAIN stored : stored[i].run # run'
    <3>1. \A i \in DOMAIN stored : stored[i] \in Superchunks
      BY <1>0, Elements
    <3>2. \A i \in DOMAIN stored : stored[i].run \in Nat
      BY <3>1 DEF Superchunks
    <3>3. run \in Nat
      BY DEF TSType
    <3> QED BY <2>1, <3>2, <3>3 DEF RunsInv
  <2>3. Emulated /\ get_num_frames' = get_num_frames
    BY <2>1 DEF Emulated, get_num_frames
  <2>4. EmuInv'
    BY <2>1, <2>2, <2>3 DEF EmuInv
  <2>5. EmulatedContiguous'
    BY <2>1, <2>3 DEF EmulatedContiguous
  <2> QED BY <2>4, <2>5
<1>2. CASE \E c \in Links : timestamp_check(c)
  <2>1. PICK c \in Links : timestamp_check(c)
    BY <1>2
  <2> DEFINE s == [run |-> run, channel |-> c, k |-> sent[c] + 1, stamps |-> Consecutive(Seen(c))]
             new == Len(stored) + 1
             n == get_num_frames
  <2>2. /\ UNCHANGED <<processor, m_emulator_mode, run>>
        /\ stored' = Append(stored, s)
        /\ s \in Superchunks
        /\ m_first_ts_fake' = (m_first_ts_fake /\ ~(m_emulator_mode /\ processor = "DAPHNE"))
    BY <2>1, CheckEffect
  <2>3. Emulated /\ n' = n /\ n \in Nat \ {0} /\ c \in Channels /\ Seen(c) \in Int
    BY <2>2, Sizes, SeenInt DEF Emulated, get_num_frames
  <2>4. s.run = run /\ s.channel = c /\ s.stamps[1] = Seen(c) /\ s.stamps[n] = Seen(c) + n - 1
    <3>1. s.run = run /\ s.channel = c /\ s.stamps = Consecutive(Seen(c))
      OBVIOUS
    <3>2. 1 \in 1 .. n /\ n \in 1 .. n
      BY <2>3
    <3>3. Consecutive(Seen(c))[1] = Seen(c) + 1 - 1 /\ Consecutive(Seen(c))[n] = Seen(c) + n - 1
      BY <3>2 DEF Consecutive
    <3> QED BY <2>3, <3>1, <3>3
  <2> HIDE DEF s, n
  <2>5. m_previous_ts' = [m_previous_ts EXCEPT ![c] = Seen(c)] /\ (~m_first_ts_fake' \/ processor # "DAPHNE")
    BY <2>1, <2>2, <2>3, CheckEffect DEF Emulated
  <2>6. m_previous_ts'[c] = Seen(c) /\ \A d \in Channels : d # c => m_previous_ts'[d] = m_previous_ts[d]
    <3>1. m_previous_ts' = [m_previous_ts EXCEPT ![c] = Seen(c)]
      BY <2>1, <2>3, CheckEffect DEF Emulated
    <3> QED BY <2>3, <3>1 DEF TSType
  <2>7. m_error_registry' = <<>>
    <3>1. ~Mismatch(c, Seen(c))
      BY <2>3, EmulatedFollows
    <3> QED BY <2>1, <2>3, <3>1, CheckEffect DEF EmuInv
  <2>8. /\ DOMAIN stored' = 1 .. new /\ stored'[new] = s /\ Len(stored') = new
        /\ \A i \in DOMAIN stored : i \in DOMAIN stored' /\ stored'[i] = stored[i]
        /\ \A i \in DOMAIN stored' : i \in DOMAIN stored \/ i = new
    BY <1>0, <2>2, AppendFacts
  <2>9. \A i \in DOMAIN stored : stored[i].channel \in Channels
    <3>1. \A i \in DOMAIN stored : stored[i] \in Superchunks
      BY <1>0, Elements
    <3> QED BY <3>1 DEF Superchunks
  <2> USE DEF Emulated
  <2>10. EmuInv'
    <3>1. processor' = "DAPHNE" => ~m_first_ts_fake'
      BY <2>2, <2>3
    <3>2. ASSUME NEW i \in DOMAIN stored'
          PROVE  stored'[i].stamps[n] = stored'[i].stamps[1] + n - 1
      BY <2>3, <2>4, <2>8 DEF EmuInv, n
    <3>3. ASSUME NEW i \in DOMAIN stored', stored'[i].run = run,
                 \A j \in i + 1 .. new : stored'[j].channel # stored'[i].channel
          PROVE  m_previous_ts'[stored'[i].channel] = stored'[i].stamps[1]
      <4>1. CASE i = new
        BY <2>4, <2>6, <2>8, <4>1
      <4>2. CASE i \in DOMAIN stored
        <5>1. new \in i + 1 .. new
          BY <1>0, <4>2
        <5>2. stored[i].channel # c
          BY <2>4, <2>8, <3>3, <4>2, <5>1
        <5>3. \A j \in i + 1 .. Len(stored) : stored[j].channel # stored[i].channel
          BY <1>0, <2>8, <3>3, <4>2
        <5>4. stored[i].run = run
          BY <2>8, <3>3, <4>2
        <5>5. m_previous_ts[stored[i].channel] = stored[i].stamps[1]
          BY <2>3, <4>2, <5>3, <5>4 DEF EmuInv
        <5> QED BY <2>6, <2>8, <2>9, <4>2, <5>2, <5>5
      <4> QED BY <2>8, <4>1, <4>2
    <3> QED BY ZenonT(40), <2>2, <2>3, <2>7, <2>8, <3>1, <3>2, <3>3 DEF EmuInv, n
  <2>11. EmulatedContiguous'
    <3>1. ASSUME NEW i \in DOMAIN stored', NEW j \in DOMAIN stored',
                 i < j, stored'[i].channel = stored'[j].channel, stored'[i].run = stored'[j].run,
                 \A k \in i + 1 .. j - 1 : stored'[k].channel # stored'[i].channel
          PROVE  stored'[j].stamps[1] = stored'[i].stamps[n] + 1
      <4>1. i \in DOMAIN stored
        BY <1>0, <2>8, <3>1
      <4>2. CASE j \in DOMAIN stored
        <5>1. \A k \in i + 1 .. j - 1 : k \in DOMAIN stored
          BY <1>0, <4>1, <4>2
        <5>2. \A k \in i + 1 .. j - 1 : stored[k].channel # stored[i].channel
          BY <2>8, <3>1, <4>1, <5>1
        <5> QED BY ZenonT(40), <2>3, <2>8, <3>1, <4>1, <4>2, <5>2 DEF EmulatedContiguous, n
      <4>3. CASE j = new
        <5>1. \A k \in i + 1 .. Len(stored) : k \in i + 1 .. j - 1 /\ k \in DOMAIN stored
          BY <1>0, <4>1, <4>3
        <5>2. \A k \in i + 1 .. Len(stored) : stored[k].channel # stored[i].channel
          BY <2>8, <3>1, <4>1, <5>1
        <5>3. stored[i].run = run /\ stored[i].channel = c
          BY <2>4, <2>8, <3>1, <4>1, <4>3
        <5>4. m_previous_ts[c] = stored[i].stamps[1]
          BY <2>3, <4>1, <5>2, <5>3 DEF EmuInv
        <5>5. stored[i].stamps[n] = stored[i].stamps[1] + n - 1
          BY <2>3, <4>1 DEF EmuInv, n
        <5>6. Seen(c) = m_previous_ts[c] + n
          <6>1. stored # <<>>
            BY <1>0, <4>1
          <6> QED BY <2>3, <6>1, EmulatedFollows DEF n
        <5>7. m_previous_ts[c] \in Int
          BY <2>3 DEF TSType
        <5>8. Seen(c) = stored[i].stamps[n] + 1
          BY <2>3, <5>4, <5>5, <5>6, <5>7
        <5> QED BY <2>4, <2>8, <4>1, <4>3, <5>8
      <4> QED BY <2>8, <4>2, <4>3
    <3> QED BY <2>2, <2>3, <2>7, <3>1 DEF EmulatedContiguous, n
  <2> QED BY <2>10, <2>11
<1>3. CASE TSSame
  BY <1>3 DEF TSSame, EmuInv, EmulatedContiguous, Emulated, get_num_frames
<1> QED BY <1>1, <1>2, <1>3, StepKinds

(* In emulator mode the timestamps of a run increment by one tick          *)
(* difference from frame to frame, and no gap is registered.               *)
THEOREM EmulatedIncrements == Spec => []EmulatedContiguous
BY InitTS, StepTS, InitEmulated, StepEmulated, PTL DEF Spec

-----------------------------------------------------------------------------
(* Gaps *)

LEMMA Times ==
  ASSUME NEW n \in Nat \ {0}, NEW a \in Int, NEW b \in Int
  PROVE  /\ n * a < n * b <=> a < b
         /\ n * a <= n * b <=> a <= b
         /\ n * a + n = n * (a + 1)
         /\ n * a = 0 <=> a = 0
  OBVIOUS

LEMMA Successor ==
  ASSUME NEW n \in Nat \ {0}, NEW a \in Int, NEW b \in Int
  PROVE  n * b - n * a = n <=> b = a + 1
OBVIOUS

Arrives == Checked /\ ~m_emulator_mode

LEMMA ArrivedInt ==
  ASSUME TSType, NEW c \in Channels
  PROVE  Arrived(c) \subseteq Nat
<1>1. \A i \in DOMAIN stored : stored[i] \in Superchunks
  BY Elements DEF TSType
<1>2. \A i \in DOMAIN stored : stored[i].k \in Nat
  BY <1>1 DEF Superchunks
<1> QED BY <1>2 DEF Arrived

LEMMA InitGaps == Init => GapInv
<1> SUFFICES ASSUME Init, NEW c \in Links PROVE LastIs(c, 0)
  BY DEF GapInv
<1>1. c \in Channels /\ get_num_frames * 0 = 0
  BY Sizes
<1>2. Arrived(c) = {} /\ Gaps = {}
  BY DEF Init, TSInit, Arrived, Gaps
<1>3. m_previous_ts[c] = FirstOf(0) /\ 0 <= sent[c]
  BY <1>1 DEF Init, TSInit, FirstOf
<1> QED BY <1>2, <1>3 DEF LastIs, Reported

(* What a check does to what has arrived and what is registered.           *)
LEMMA CheckGaps ==
  ASSUME TSType, Arrives, NEW c \in Links, timestamp_check(c), NEW last \in Nat, LastIs(c, last),
         NEW K \in Nat, K = sent[c] + 1
  PROVE  LastIs(c, K)'
<1> DEFINE n == get_num_frames
           s == [run |-> run, channel |-> c, k |-> sent[c] + 1, stamps |-> Consecutive(Seen(c))]
           m == MissingFrames(c, Seen(c))
<1>1. n \in Nat \ {0} /\ c \in Channels /\ sent[c] \in Nat /\ K \in Nat /\ last < K
  BY Sizes DEF TSType, LastIs
<1>2. /\ UNCHANGED <<processor, m_emulator_mode, run>>
      /\ sent' = [sent EXCEPT ![c] = @ + 1]
      /\ m_error_registry' = IF Mismatch(c, Seen(c)) THEN Append(m_error_registry, m) ELSE m_error_registry
      /\ stored' = Append(stored, s)
      /\ m \in Interval /\ s \in Superchunks
  BY CheckEffect
<1>3. Seen(c) = n * K /\ m_previous_ts[c] = n * last
  BY DEF Seen, Arrives, FirstOf, LastIs
<1>4. s.run = run /\ s.channel = c /\ s.k = K
  OBVIOUS
<1>5. m.run = run /\ m.channel = c /\ m.from = n * last + n /\ m.to = n * K
  BY <1>3 DEF MissingFrames
<1> HIDE DEF s, m
<1>6. m_previous_ts'[c] = n * K
  <2>1. processor # "SSP"
    BY DEF Arrives, Checked
  <2>2. m_previous_ts' = [m_previous_ts EXCEPT ![c] = Seen(c)]
    BY <2>1, CheckEffect
  <2> QED BY <1>1, <1>3, <2>2 DEF TSType
<1>7. n' = n /\ sent'[c] = K
  BY <1>1, <1>2 DEF TSType, get_num_frames
<1>8. Mismatch(c, Seen(c)) <=> K # last + 1 /\ ~(processor = "TDE" /\ last = 0)
  <2>1. n * K - n * last = n <=> K = last + 1
    <3>1. last \in Int /\ K \in Int
      OBVIOUS
    <3> HIDE DEF n
    <3> QED BY ZenonT(40), <1>1, <3>1, Successor
  <2>2. n * last = 0 <=> last = 0
    BY <1>1, Times
  <2>3. Mismatch(c, Seen(c)) <=> (processor = "TDE" => n * last # 0) /\ n * K - n * last # n
    BY <1>3 DEF Mismatch, Arrives
  <2> QED BY <2>1, <2>2, <2>3
<1>9. Arrived(c)' = Arrived(c) \cup {K}
  <2>1. stored \in Seq(Superchunks)
    BY DEF TSType
  <2>2. /\ \A i \in DOMAIN stored : i \in DOMAIN stored' /\ stored'[i] = stored[i]
        /\ Len(stored) + 1 \in DOMAIN stored' /\ stored'[Len(stored) + 1] = s
        /\ \A i \in DOMAIN stored' : i \in DOMAIN stored \/ i = Len(stored) + 1
    BY <1>2, <2>1, AppendFacts
  <2>3. \A r : Known(r)' <=> Known(r)
    BY <1>2 DEF Known, ForgetsAtStart
  <2>4. Known(run)
    BY DEF Known
  <2> QED BY <1>4, <2>2, <2>3, <2>4 DEF Arrived
<1>10. \A k \in Int : Reported(c, k)' <=> Reported(c, k) \/ (last < k /\ k < K /\ ~(processor = "TDE" /\ last = 0))
  <2>1. \A k \in Int : FirstOf(k)' = FirstOf(k) /\ FirstOf(k) = n * k
    BY <1>7 DEF FirstOf
  <2>2. \A r : Known(r)' <=> Known(r)
    BY <1>2 DEF Known, ForgetsAtStart
  <2>3. CASE ~Mismatch(c, Seen(c))
    <3>1. m_error_registry' = m_error_registry
      BY <1>2, <2>3
    <3>2. \A k \in Int : Reported(c, k)' <=> Reported(c, k)
      BY <2>1, <2>2, <3>1 DEF Reported, Gaps
    <3>3. \A k \in Int : ~(last < k /\ k < K /\ ~(processor = "TDE" /\ last = 0))
      BY <1>1, <1>8, <2>3
    <3> QED BY <3>2, <3>3
  <2>4. CASE Mismatch(c, Seen(c))
    <3>1. m_error_registry \in Seq(Interval)
      BY DEF TSType
    <3>2. /\ \A i \in DOMAIN m_error_registry : i \in DOMAIN m_error_registry' /\ m_error_registry'[i] = m_error_registry[i]
          /\ Len(m_error_registry) + 1 \in DOMAIN m_error_registry'
          /\ m_error_registry'[Len(m_error_registry) + 1] = m
          /\ \A i \in DOMAIN m_error_registry' : i \in DOMAIN m_error_registry \/ i = Len(m_error_registry) + 1
      BY <1>2, <2>4, <3>1, AppendFacts
    <3>3. Known(run)
      BY DEF Known
    <3>4. \A k \in Int : Reported(c, k)' <=> Reported(c, k) \/ (n * last + n <= n * k /\ n * k < n * K)
      BY <1>5, <2>1, <2>2, <3>2, <3>3 DEF Reported, Gaps
    <3>5. \A k \in Int : (n * last + n <= n * k /\ n * k < n * K) <=> (last < k /\ k < K)
      <4> SUFFICES ASSUME NEW k \in Int
                   PROVE  (n * last + n <= n * k /\ n * k < n * K) <=> (last < k /\ k < K)
        OBVIOUS
      <4>1. n * last + n = n * (last + 1) /\ last + 1 \in Int
        BY <1>1, Times
      <4>2. n * (last + 1) <= n * k <=> last + 1 <= k
        BY <1>1, <4>1, Times
      <4>3. n * k < n * K <=> k < K
        BY <1>1, Times
      <4> HIDE DEF n
      <4> QED BY <1>1, <4>1, <4>2, <4>3
    <3> QED BY <1>8, <2>4, <3>4, <3>5
  <2> QED BY <2>3, <2>4
<1> HIDE DEF n
<1>11. Arrived(c) \subseteq 1 .. last
  BY <1>1, ArrivedInt DEF LastIs
<1>12. \A k \in Nat : k > K => ~Reported(c, k)'
  BY <1>1, <1>10 DEF LastIs
<1>13. ASSUME NEW k \in 1 .. K, processor = "TDE" => \E first \in Arrived(c)' : first <= k
       PROVE  Reported(c, k)' <=> k \notin Arrived(c)'
  <2>1. CASE k <= last
    <3>1. k \in 1 .. last /\ k # K
      BY <1>1, <2>1
    <3>2. processor = "TDE" => \E first \in Arrived(c) : first <= k
      BY <1>1, <1>9, <1>13, <2>1
    <3>3. Reported(c, k) <=> k \notin Arrived(c)
      BY <3>1, <3>2 DEF LastIs
    <3>4. Reported(c, k)' <=> Reported(c, k)
      BY <1>1, <1>10, <3>1
    <3> QED BY <1>9, <3>1, <3>3, <3>4
  <2>2. CASE last < k /\ k < K
    <3>1. ~(processor = "TDE" /\ last = 0)
      BY <1>1, <1>9, <1>11, <1>13, <2>2
    <3>2. k \notin Arrived(c)'
      BY <1>1, <1>9, <1>11, <2>2
    <3> QED BY <1>1, <1>10, <2>2, <3>1, <3>2
  <2>3. CASE k = K
    BY <1>1, <1>9, <1>10, <2>3 DEF LastIs
  <2> QED BY <1>1, <2>1, <2>2, <2>3
<1>14. \A k \in Arrived(c)' : 1 <= k /\ k <= K
  BY <1>1, <1>9, <1>11
<1>15. m_previous_ts'[c] = FirstOf(K)'
  BY <1>6, <1>7 DEF FirstOf, n
<1>16. K <= sent'[c]
  BY <1>1, <1>7
<1>17. K = 0 \/ K \in Arrived(c)'
  BY <1>9
<1> QED BY <1>2, <1>12, <1>13, <1>14, <1>15, <1>16, <1>17 DEF LastIs

(* What leaves the view on a channel alone.                                *)
LEMMA OtherChannel ==
  ASSUME TSType, NEW c \in Links, NEW last \in Nat, LastIs(c, last), UNCHANGED <<processor, run>>,
         m_previous_ts'[c] = m_previous_ts[c], last <= sent'[c], Arrived(c)' = Arrived(c),
         \A k \in Nat : Reported(c, k)' <=> Reported(c, k)
  PROVE  LastIs(c, last)'
<1>1. FirstOf(last)' = FirstOf(last)
  BY DEF FirstOf, get_num_frames
<1>2. \A k \in 1 .. last : k \in Nat
  OBVIOUS
<1> QED BY <1>1, <1>2 DEF LastIs

LEMMA StepGaps == TSType /\ RunsInv /\ GapInv /\ [Next]_vars => GapInv'
<1> SUFFICES ASSUME TSType, RunsInv, GapInv, [Next]_vars, Arrives', NEW c \in Links'
             PROVE  \E last \in Nat : LastIs(c, last)'
  BY DEF GapInv, Arrives
<1>0. UNCHANGED <<processor, m_emulator_mode>>
  <2>1. ASSUME NEW d \in Links, timestamp_check(d) PROVE UNCHANGED <<processor, m_emulator_mode>>
    BY <2>1, CheckEffect
  <2>2. start \/ TSSame => UNCHANGED <<processor, m_emulator_mode>>
    BY DEF start, TSSame
  <2> QED BY <2>1, <2>2, StepKinds
<1>1. Arrives /\ c \in Links /\ c \in Channels
  BY <1>0, Sizes DEF Arrives, Checked, Links
<1>2. PICK last \in Nat : LastIs(c, last)
  BY <1>1 DEF GapInv, Arrives
<1>3. CASE start /\ ForgetsAtStart
  <2>1. /\ UNCHANGED <<m_error_registry, sent, stored>> /\ run' = run + 1
        /\ m_previous_ts' = [d \in Channels |-> 0]
    BY <1>3 DEF start
  <2>2. run \in Nat /\ sent[c] \in Nat /\ get_num_frames' = get_num_frames /\ get_num_frames \in Nat
    BY <1>0, <1>1, Sizes DEF TSType, get_num_frames
  <2>3. \A i \in DOMAIN stored : stored[i].run # run'
    <3>1. \A i \in DOMAIN stored : stored[i] \in Superchunks
      BY Elements DEF TSType
    <3>2. \A i \in DOMAIN stored : stored[i].run \in Nat
      BY <3>1 DEF Superchunks
    <3> QED BY <2>1, <2>2, <3>2 DEF RunsInv
  <2>4. \A i \in DOMAIN m_error_registry : m_error_registry[i].run # run'
    <3>1. \A i \in DOMAIN m_error_registry : m_error_registry[i] \in Interval
      BY Elements DEF TSType
    <3>2. \A i \in DOMAIN m_error_registry : m_error_registry[i].run \in Nat
      BY <3>1 DEF Interval
    <3> QED BY <2>1, <2>2, <3>2 DEF RunsInv
  <2>5. Arrived(c)' = {} /\ Gaps' = {}
    BY <1>0, <1>3, <2>1, <2>3, <2>4 DEF Arrived, Gaps, Known, ForgetsAtStart
  <2>6. m_previous_ts'[c] = FirstOf(0)'
    BY <1>1, <2>1, <2>2 DEF FirstOf
  <2>7. 0 <= sent'[c]
    BY <2>1, <2>2
  <2>8. LastIs(c, 0)'
    BY <2>5, <2>6, <2>7 DEF LastIs, Reported
  <2> QED BY <2>8
<1>4. CASE start /\ ~ForgetsAtStart
  <2>1. UNCHANGED <<m_previous_ts, m_error_registry, sent, stored>>
    BY <1>4 DEF start
  <2>2. Arrived(c)' = Arrived(c) /\ Gaps' = Gaps
    BY <1>0, <1>4, <2>1 DEF Arrived, Gaps, Known, ForgetsAtStart
  <2>3. \A k : Reported(c, k)' <=> Reported(c, k)
    BY <1>0, <2>1, <2>2 DEF Reported, FirstOf, get_num_frames
  <2>4. FirstOf(last)' = FirstOf(last)
    BY <1>0 DEF FirstOf, get_num_frames
  <2>5. LastIs(c, last)'
    BY <1>0, <1>2, <2>1, <2>2, <2>3, <2>4 DEF LastIs
  <2> QED BY <2>5
<1>5. ASSUME NEW d \in Links, timestamp_check(d) PROVE \E l \in Nat : LastIs(c, l)'
  <2>1. CASE d = c
    <3>1. sent[c] + 1 \in Nat
      BY <1>1 DEF TSType
    <3>2. PICK K \in Nat : K = sent[c] + 1
      BY <3>1
    <3>3. LastIs(c, K)'
      BY <1>1, <1>2, <1>5, <2>1, <3>2, CheckGaps
    <3> QED BY <3>3
  <2>2. CASE d # c
    <3> DEFINE s == [run |-> run, channel |-> d, k |-> sent[d] + 1, stamps |-> Consecutive(Seen(d))]
               m == MissingFrames(d, Seen(d))
    <3>1. /\ UNCHANGED <<processor, m_emulator_mode, run>>
          /\ sent' = [sent EXCEPT ![d] = @ + 1]
          /\ m_error_registry' = Append(m_error_registry, m) \/ m_error_registry' = m_error_registry
          /\ stored' = Append(stored, s)
          /\ m_previous_ts' = m_previous_ts \/ m_previous_ts' = [m_previous_ts EXCEPT ![d] = Seen(d)]
          /\ m \in Interval /\ s \in Superchunks
      BY <1>5, CheckEffect
    <3>2. m.channel = d /\ s.channel = d
      BY DEF MissingFrames
    <3> HIDE DEF s, m
    <3>3. m_previous_ts'[c] = m_previous_ts[c] /\ sent'[c] = sent[c]
      BY <1>1, <2>2, <3>1 DEF TSType
    <3>4. stored \in Seq(Superchunks) /\ m_error_registry \in Seq(Interval)
      BY DEF TSType
    <3>5. \A r : Known(r)' <=> Known(r)
      BY <3>1 DEF Known, ForgetsAtStart
    <3>6. Arrived(c)' = Arrived(c)
      <4>1. /\ \A i \in DOMAIN stored : i \in DOMAIN stored' /\ stored'[i] = stored[i]
            /\ stored'[Len(stored) + 1] = s
            /\ \A i \in DOMAIN stored' : i \in DOMAIN stored \/ i = Len(stored) + 1
        BY <3>1, <3>4, AppendFacts
      <4> QED BY <2>2, <3>2, <3>5, <4>1 DEF Arrived
    <3>7. \A k \in Nat : Reported(c, k)' <=> Reported(c, k)
      <4>1. \A k : FirstOf(k)' = FirstOf(k)
        BY <3>1 DEF FirstOf, get_num_frames
      <4>2. CASE m_error_registry' = m_error_registry
        BY <3>5, <4>1, <4>2 DEF Reported, Gaps
      <4>3. CASE m_error_registry' = Append(m_error_registry, m)
        <5>1. /\ \A i \in DOMAIN m_error_registry : i \in DOMAIN m_error_registry'
                                                      /\ m_error_registry'[i] = m_error_registry[i]
              /\ m_error_registry'[Len(m_error_registry) + 1] = m
              /\ \A i \in DOMAIN m_error_registry' : i \in DOMAIN m_error_registry \/ i = Len(m_error_registry) + 1
          BY <3>1, <3>4, <4>3, AppendFacts
        <5> QED BY <2>2, <3>2, <3>5, <4>1, <5>1 DEF Reported, Gaps
      <4> QED BY <3>1, <4>2, <4>3
    <3>8. last <= sent'[c]
      BY <1>2, <3>3 DEF LastIs
    <3>9. LastIs(c, last)'
      BY <1>1, <1>2, <3>1, <3>3, <3>6, <3>7, <3>8, OtherChannel
    <3> QED BY <3>9
  <2> QED BY <2>1, <2>2
<1>6. CASE TSSame /\ (sent' = sent \/ \E d \in Links : sent' = [sent EXCEPT ![d] = @ + 1])
  <2>1. UNCHANGED <<m_previous_ts, m_error_registry, run, stored>>
    BY <1>6 DEF TSSame
  <2>2. Arrived(c)' = Arrived(c) /\ Gaps' = Gaps
    BY <1>0, <2>1 DEF Arrived, Gaps, Known, ForgetsAtStart
  <2>3. \A k \in Nat : Reported(c, k)' <=> Reported(c, k)
    BY <1>0, <2>1, <2>2 DEF Reported, FirstOf, get_num_frames
  <2>4. sent'[c] >= sent[c]
    <3>1. sent[c] \in Nat
      BY <1>1 DEF TSType
    <3>2. CASE sent' = sent
      BY <3>1, <3>2
    <3>3. ASSUME NEW d \in Links, sent' = [sent EXCEPT ![d] = @ + 1] PROVE sent'[c] >= sent[c]
      BY <1>1, <3>1, <3>3 DEF TSType
    <3> QED BY <1>6, <3>2, <3>3
  <2>5. last <= sent'[c]
    <3>1. sent[c] \in Nat /\ sent'[c] \in Nat /\ last <= sent[c]
      BY <1>1, <1>2, StepTS DEF TSType, LastIs
    <3> QED BY <2>4, <3>1
  <2>6. LastIs(c, last)'
    BY <1>0, <1>1, <1>2, <2>1, <2>2, <2>3, <2>5, OtherChannel
  <2> QED BY <2>6
<1> QED BY <1>3, <1>4, <1>5, <1>6, StepKinds

LEMMA GapsFollow == TSType /\ GapInv => GapsRegistered
<1> SUFFICES ASSUME TSType, GapInv, Arrives, NEW c \in Links, NEW k \in 1 .. MaxChunks,
                    \E l \in Arrived(c) : k <= l,
                    processor = "TDE" => \E first \in Arrived(c) : first <= k
             PROVE  Reported(c, k) <=> k \notin Arrived(c)
  BY DEF GapsRegistered, Arrives
<1>1. PICK last \in Nat : LastIs(c, last)
  BY DEF GapInv, Arrives
<1>2. PICK l \in Arrived(c) : k <= l
  OBVIOUS
<1>3. l <= last /\ l \in Nat
  BY <1>1, <1>2, ArrivedInt, Sizes DEF LastIs
<1>4. k \in 1 .. last
  BY <1>2, <1>3, TimestampsAssumption
<1> QED BY <1>1, <1>4 DEF LastIs

(* Of the superchunks up to the last one that came, exactly those that did *)
(* not arrive are registered as missing.                                   *)
THEOREM MissingFramesRegistered == Spec => []GapsRegistered
BY InitTS, StepTS, InitGaps, StepGaps, GapsFollow, PTL DEF Spec

=============================================================================
