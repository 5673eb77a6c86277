----------------------------- MODULE Preprocess -----------------------------
(***************************************************************************)
(* The stages through which a frame processor puts a superchunk before it  *)
(* is stored: timestamp_check, then frame_error_check of WIBFrameProcessor *)
(* (which conf has commented out at present); of the firmware's trigger    *)
(* primitives, in their place, tp_unpack.                                  *)
(***************************************************************************)
EXTENDS Timestamps, FrameErrors, TPUnpack

vars == <<tsVars, errVars, tpVars>>

Init == TSInit /\ ErrInit /\ TPInit

HasTimestamps == processor # "RAWWIBTP"

Start ==
  /\ start /\ UNCHANGED tpVars
  /\ IF processor = "WIB" THEN StartErrors ELSE UNCHANGED errVars

Stop == unchecked = 0 /\ stage # "unpacking" /\ stop /\ UNCHANGED <<errVars, tpVars>>

\* preprocess_item: the second stage has the frames of this superchunk to do
Superchunk ==
  /\ HasTimestamps /\ unchecked = 0
  /\ \E c \in Links : timestamp_check(c)
  /\ unchecked' = IF processor = "WIB" THEN get_num_frames ELSE 0
  /\ UNCHANGED <<m_error_occurrence_counters, m_frames_processed, m_frame_error_count,
                 m_err_frame_sink, decays, seen>>
  /\ UNCHANGED tpVars

Frame == frame_error_check /\ UNCHANGED <<tsVars, tpVars>>

Loss ==
  /\ HasTimestamps /\ unchecked = 0 /\ (\E c \in Links : Lose(c))
  /\ UNCHANGED <<errVars, tpVars>>

\* The chunk is handed over while a run is on
Chunk ==
  /\ ~HasTimestamps /\ running
  /\ FillChunk \/ CutChunk \/ tp_unpack \/ NextChunk
  /\ UNCHANGED <<tsVars, errVars>>

Next == Start \/ Stop \/ Superchunk \/ Frame \/ Loss \/ Chunk

Spec == Init /\ [][Next]_vars

=============================================================================
