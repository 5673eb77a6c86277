----------------------------- MODULE Timestamps -----------------------------
(***************************************************************************)
(* The first stage of every frame processor: timestamp_check.  It looks    *)
(* whether a superchunk follows on the one before, registers the gap when  *)
(* it does not, and in emulator mode writes the timestamps itself.  The    *)
(* seven processors differ in the number of frames of a superchunk, in     *)
(* what they check, in the timestamps they make up, and in whether a start *)
(* of a run forgets the run before.                                        *)
(*                                                                         *)
(* Times are in frames: the tick difference of a frame (25, 32, 2048, 64,  *)
(* 16) is one.  The front end numbers its superchunks, and they can get    *)
(* lost on the way, or arrive while no run is on.                          *)
(***************************************************************************)
EXTENDS Integers, Sequences, FiniteSets

CONSTANTS
  Processors,    \* which of the frame processors are looked at
  Frames,        \* 12: frames in a superchunk
  Channels,      \* 64: channels of a TDE frame
  ProblemLimit,  \* 1000: gaps before the problem is reported
  MaxChunks,     \* bound: superchunks the front end sends on a channel
  MaxRuns        \* bound: runs

ASSUME TimestampsAssumption ==
  /\ Processors \subseteq {"WIB", "WIB2", "WIBEth", "TDE", "DAPHNE", "DAPHNEStream", "SSP", "RAWWIBTP"}
  /\ Frames \in Nat \ {0}
  /\ Channels # {}
  /\ {ProblemLimit, MaxChunks, MaxRuns} \subseteq Nat

VARIABLES
  processor, m_emulator_mode,
  run, running,
  m_previous_ts,            \* channel -> timestamp
  m_last_processed_daq_ts,
  m_first_ts_fake,
  m_problem_reported, m_ts_error_ctr,
  m_error_registry,         \* the intervals added; run and channel are history
  sent,                     \* channel -> superchunks the front end has sent
  stored                    \* history: the superchunks as they are passed on

tsVars == <<processor, m_emulator_mode, run, running, m_previous_ts, m_last_processed_daq_ts,
            m_first_ts_fake, m_problem_reported, m_ts_error_ctr, m_error_registry, sent, stored>>

get_num_frames  == IF processor \in {"WIBEth", "TDE", "SSP"} THEN 1 ELSE Frames
Checked         == processor \in {"WIB", "WIB2", "WIBEth", "TDE"}
ForgetsAtStart  == processor \in {"WIB", "WIB2"}

\* Only TDE tells channels apart
SomeChannel == CHOOSE c \in Channels : TRUE
Links       == IF processor = "TDE" THEN Channels ELSE {SomeChannel}

TSInit ==
  /\ processor \in Processors
  /\ m_emulator_mode \in BOOLEAN
  /\ run = 0 /\ running = FALSE
  /\ m_previous_ts = [c \in Channels |-> 0]
  /\ m_last_processed_daq_ts = 0
  /\ m_first_ts_fake = TRUE /\ m_problem_reported = FALSE /\ m_ts_error_ctr = 0
  /\ m_error_registry = <<>>
  /\ sent = [c \in Channels |-> 0]
  /\ stored = <<>>

-----------------------------------------------------------------------------

\* Mutant: the number of gaps is carried over
start_KeepCounter ==
  /\ ~running /\ run < MaxRuns
  /\ running' = TRUE /\ run' = run + 1
  /\ IF ForgetsAtStart
     THEN m_previous_ts' = [c \in Channels |-> 0] /\ m_problem_reported' = FALSE
     ELSE UNCHANGED <<m_previous_ts, m_problem_reported>>
  /\ UNCHANGED <<processor, m_emulator_mode, m_last_processed_daq_ts, m_first_ts_fake,
                 m_ts_error_ctr, m_error_registry, sent, stored>>

start ==
  /\ ~running /\ run < MaxRuns
  /\ running' = TRUE /\ run' = run + 1
  /\ IF ForgetsAtStart
     THEN /\ m_previous_ts' = [c \in Channels |-> 0]
          /\ m_problem_reported' = FALSE
          /\ m_ts_error_ctr' = 0
     ELSE UNCHANGED <<m_previous_ts, m_problem_reported, m_ts_error_ctr>>
  /\ UNCHANGED <<processor, m_emulator_mode, m_last_processed_daq_ts, m_first_ts_fake,
                 m_error_registry, sent, stored>>

stop ==
  /\ running
  /\ running' = FALSE
  /\ UNCHANGED <<processor, m_emulator_mode, run, m_previous_ts, m_last_processed_daq_ts, m_first_ts_fake,
                 m_problem_reported, m_ts_error_ctr, m_error_registry, sent, stored>>

\* A superchunk is lost, or sent while no run is on
Lose(c) ==
  /\ sent[c] < MaxChunks
  /\ sent' = [sent EXCEPT ![c] = @ + 1]
  /\ UNCHANGED <<processor, m_emulator_mode, run, running, m_previous_ts, m_last_processed_daq_ts, m_first_ts_fake,
                 m_problem_reported, m_ts_error_ctr, m_error_registry, stored>>

-----------------------------------------------------------------------------

\* The timestamps of a superchunk: those of the front end, or the emulated
Consecutive(ts) == [i \in 1 .. get_num_frames |-> ts + i - 1]
FirstOf(k)      == get_num_frames * k

\* Mutant: a superchunk taken to span one frame too few
EmulatedFirst_OneShort(c) ==
  CASE processor = "DAPHNE"       -> IF m_first_ts_fake THEN m_previous_ts[c] ELSE m_previous_ts[c] + Frames - 1
    [] processor = "DAPHNEStream" -> m_previous_ts[c] + 1
    [] processor = "SSP"          -> FirstOf(sent[c] + 1)
    [] OTHER                      -> m_previous_ts[c] + get_num_frames - 1

EmulatedFirst(c) ==
  CASE processor = "DAPHNE"       -> IF m_first_ts_fake THEN m_previous_ts[c] ELSE m_previous_ts[c] + Frames
    [] processor = "DAPHNEStream" -> m_previous_ts[c] + 1
    [] processor = "SSP"          -> FirstOf(sent[c] + 1)   \* not stamped
    [] OTHER                      -> m_previous_ts[c] + get_num_frames

\* Whether ts does not follow on the superchunk before.  TDE lets the first
\* one of a channel pass.
Mismatch(c, ts) ==
  /\ Checked
  /\ processor = "TDE" => m_previous_ts[c] # 0
  /\ ts - m_previous_ts[c] # get_num_frames

\* Mutant: the gap begins with the last superchunk that arrived
MissingFrames_FromPrevious(c, ts) ==
  [from |-> m_previous_ts[c], to |-> ts, channel |-> c, run |-> run]

MissingFrames(c, ts) ==
  [from |-> m_previous_ts[c] + get_num_frames, to |-> ts, channel |-> c, run |-> run]

timestamp_check(c) ==
  LET ts  == IF m_emulator_mode THEN EmulatedFirst(c) ELSE FirstOf(sent[c] + 1)
      ctr == m_ts_error_ctr + (IF Mismatch(c, ts) THEN 1 ELSE 0)
  IN  /\ running /\ sent[c] < MaxChunks
      /\ sent' = [sent EXCEPT ![c] = @ + 1]
      /\ m_ts_error_ctr' = ctr
      /\ m_error_registry' = IF Mismatch(c, ts) THEN Append(m_error_registry, MissingFrames(c, ts))
                             ELSE m_error_registry
      /\ m_problem_reported' = (m_problem_reported \/ ctr > ProblemLimit)
      /\ m_previous_ts' = IF processor = "SSP" THEN m_previous_ts ELSE [m_previous_ts EXCEPT ![c] = ts]
      /\ m_last_processed_daq_ts' = ts
      /\ m_first_ts_fake' = (m_first_ts_fake /\ ~(m_emulator_mode /\ processor = "DAPHNE"))
      /\ stored' = Append(stored, [run |-> run, channel |-> c, k |-> sent[c] + 1, stamps |-> Consecutive(ts)])
      /\ UNCHANGED <<processor, m_emulator_mode, run, running>>

-----------------------------------------------------------------------------
(* Properties *)

\* What the checks still know of: this run, or everything
Known(r)     == ForgetsAtStart => r = run
Arrived(c)   == {stored[i].k : i \in {i \in DOMAIN stored : stored[i].channel = c /\ Known(stored[i].run)}}
Gaps         == {i \in DOMAIN m_error_registry : Known(m_error_registry[i].run)}
Reported(c, k) == \E i \in Gaps : /\ m_error_registry[i].channel = c
                                  /\ m_error_registry[i].from <= FirstOf(k)
                                  /\ FirstOf(k) < m_error_registry[i].to

(* What is registered as missing is what did not arrive: of the superchunks *)
(* up to the last one that came, each is in a registered interval or has    *)
(* arrived, never both.  For WIB, WIB2 that goes for every run from its     *)
(* beginning at time 0, so all that was sent before the run is registered   *)
(* as missing with its first superchunk; WIBEth never starts afresh, and    *)
(* the time between two runs is missing; TDE begins with what came first.   *)
GapsRegistered ==
  Checked /\ ~m_emulator_mode =>
    \A c \in Links : \A k \in 1 .. MaxChunks :
      /\ \E last \in Arrived(c) : k <= last
      /\ processor = "TDE" => \E first \in Arrived(c) : first <= k
      => (Reported(c, k) <=> k \notin Arrived(c))

(* Emulated timestamps increment perfectly: within a run the frames of a    *)
(* channel are one tick difference apart, over the end of superchunks too,  *)
(* and no gap is registered.  It is so for all but DAPHNEStream, whose next *)
(* superchunk begins one frame after the last one began.                    *)
EmulatedContiguous ==
  m_emulator_mode /\ processor \notin {"DAPHNEStream", "SSP"} =>
    /\ m_error_registry = <<>>
    /\ \A i, j \in DOMAIN stored :
         /\ i < j /\ stored[i].channel = stored[j].channel /\ stored[i].run = stored[j].run
         /\ \A n \in i + 1 .. j - 1 : stored[n].channel # stored[i].channel
         => stored[j].stamps[1] = stored[i].stamps[get_num_frames] + 1

(* The problem is reported when there were more than ProblemLimit gaps in   *)
(* the run, and never for the gaps of a run before (of all runs where a     *)
(* start forgets nothing).                                                  *)
ProblemAfterLimit ==
  /\ m_problem_reported <=> Cardinality(Gaps) > ProblemLimit
  /\ m_ts_error_ctr = Cardinality(Gaps)

=============================================================================
