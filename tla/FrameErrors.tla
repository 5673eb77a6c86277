----------------------------- MODULE FrameErrors -----------------------------
(***************************************************************************)
(* The second stage of WIBFrameProcessor: frame_error_check.  A frame with *)
(* error bits in its header is sent to the sink for errored frames, once,  *)
(* unless all of its bits have been seen too often of late; a send that    *)
(* times out is tried again for the next of the frame's bits.              *)
(***************************************************************************)
EXTENDS Integers, FiniteSets

CONSTANTS
  ErrorBits,   \* 16 bits of wib_errors
  Threshold,   \* m_error_counter_threshold
  Period,      \* 10000: frames after which the counters go down
  MaxFrames    \* bound: frames checked

ASSUME FrameErrorsAssumption ==
  Threshold \in Nat /\ Period \in Nat \ {0} /\ MaxFrames \in Nat

VARIABLES
  m_error_occurrence_counters,  \* bit -> number
  m_frames_processed, m_frame_error_count,
  unchecked,                    \* frames of the superchunk that are still to do
  m_err_frame_sink,             \* bit -> frames sent when it was its turn
  decays,                       \* history: bit -> how often its counter went down
  seen                          \* history: frames checked

errVars == <<m_error_occurrence_counters, m_frames_processed, m_frame_error_count,
             unchecked, m_err_frame_sink, decays, seen>>

ErrInit ==
  /\ m_error_occurrence_counters = [j \in ErrorBits |-> 0]
  /\ m_frames_processed = 0 /\ m_frame_error_count = 0 /\ unchecked = 0
  /\ m_err_frame_sink = [j \in ErrorBits |-> 0]
  /\ decays = [j \in ErrorBits |-> 0] /\ seen = 0

\* The start of a run: the counters of the bits are kept
StartErrors ==
  /\ unchecked = 0
  /\ m_frames_processed' = 0 /\ m_frame_error_count' = 0
  /\ UNCHANGED <<m_error_occurrence_counters, unchecked, m_err_frame_sink, decays, seen>>

\* Every Period frames the counters go down
Decay(j) == IF m_frames_processed % Period = 0 /\ m_error_occurrence_counters[j] # 0 THEN 1 ELSE 0
Decayed  == [j \in ErrorBits |-> m_error_occurrence_counters[j] - Decay(j)]

\* Mutant: a bit may be counted once more than the threshold
Eligible_OneMore(wib_errors) == {j \in wib_errors : Decayed[j] <= Threshold}

Eligible(wib_errors) == {j \in wib_errors : Decayed[j] < Threshold}

\* One frame.  by is the bit whose try to send succeeds, if there is one
CheckFrame(wib_errors, by) ==
  /\ unchecked > 0 /\ seen < MaxFrames
  /\ by \subseteq Eligible(wib_errors) /\ Cardinality(by) <= 1
  /\ m_frame_error_count' = m_frame_error_count + Cardinality(wib_errors)
  /\ m_error_occurrence_counters' =
       [j \in ErrorBits |-> Decayed[j] + (IF j \in Eligible(wib_errors) THEN 1 ELSE 0)]
  /\ m_err_frame_sink' = [j \in ErrorBits |-> m_err_frame_sink[j] + (IF j \in by THEN 1 ELSE 0)]
  /\ m_frames_processed' = m_frames_processed + 1
  /\ unchecked' = unchecked - 1
  /\ decays' = [j \in ErrorBits |-> decays[j] + Decay(j)]
  /\ seen' = seen + 1

frame_error_check == \E wib_errors \in SUBSET ErrorBits, by \in SUBSET ErrorBits : CheckFrame(wib_errors, by)

-----------------------------------------------------------------------------

(* However many errored frames come, and whatever runs are started, no bit  *)
(* is the reason for more than Threshold frames in the sink, and one more   *)
(* for every time its counter went down.                                    *)
ErrorSinkBounded == \A j \in ErrorBits : m_err_frame_sink[j] <= Threshold + decays[j]

=============================================================================
