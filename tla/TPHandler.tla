----------------------------- MODULE TPHandler -----------------------------
(***************************************************************************)
(* The TP handlers WIB2TPHandler and WIBTPHandler: a heap of trigger       *)
(* primitives (TPs) ordered by time_start, from which complete time        *)
(* windows are sent downstream as TPSets.                                  *)
(*                                                                         *)
(* The two classes differ in one thing only: WIB2TPHandler remembers the   *)
(* start of the last TPSet it delivered (m_timestamp_counter) and drops a  *)
(* TPSet that starts before it.  DropLate is TRUE for WIB2TPHandler and    *)
(* FALSE for WIBTPHandler.                                                 *)
(*                                                                         *)
(* The caller passes the timestamp of the data it is working on as         *)
(* currentTime.  Timestamps of one processing thread never go back; those  *)
(* of two threads that share a handler do, by at most Skew ticks behind    *)
(* the newest one.  Times are natural numbers: the 64-bit tick counters of *)
(* the detector are far from wrapping.                                     *)
(***************************************************************************)
EXTENDS Integers, Sequences, FiniteSets

CONSTANTS
  Timeout,        \* m_tp_timeout
  Window,         \* m_tpset_window_size
  Skew,           \* how far currentTime may fall behind its maximum
  DropLate,       \* TRUE: WIB2TPHandler, FALSE: WIBTPHandler
  Runs,           \* run numbers
  MaxTime,        \* bound on timestamps
  MaxTPs          \* bound on the TPs accepted in a run

(* tp_timeout and tpset_window_size are configured; a window of 0 ticks    *)
(* would divide by zero in try_sending_tpsets.                             *)
ASSUME ConstantsAssumption ==
  /\ Timeout \in Nat
  /\ Window \in Nat \ {0}
  /\ Skew \in Nat
  /\ DropLate \in BOOLEAN
  /\ Runs \subseteq Nat \ {0}
  /\ MaxTime \in Nat
  /\ MaxTPs \in Nat

VARIABLES
  m_tp_buffer,          \* the heap: TPs taken in and not yet sent
  m_run_number,
  m_next_tpset_seqno,
  m_timestamp_counter,  \* start of the last delivered TPSet (WIB2 only)
  m_sent_tps,           \* counters read and reset by get_info
  m_sent_tpsets,
  currentTime,          \* the caller's timestamp
  maxTime,              \* history: the newest timestamp of the run
  behind,               \* history: how far currentTime fell behind maxTime
  accepted,             \* history: the TPs add_tp took in this run
  tpsets                \* history: the TPSets built in this run

handler == <<m_tp_buffer, m_run_number, m_next_tpset_seqno,
             m_timestamp_counter, m_sent_tps, m_sent_tpsets>>
clock   == <<currentTime, maxTime, behind>>
history == <<accepted, tpsets>>
vars    == <<handler, clock, history>>

InvalidRun == 0         \* TypeDefaults::s_invalid_run_number
Times == 0 .. MaxTime

(* A TP is told apart by the order of its arrival; its payload plays no    *)
(* part in the handler.                                                    *)
TP == [id : 0 .. MaxTPs - 1, time_start : Times]

TPSet == [run_number : Nat, start_time : Nat, end_time : Nat, seqno : Nat,
          objects : SUBSET TP, outcome : {"sent", "late", "timeout"}]

TypeOK ==
  /\ m_tp_buffer \in SUBSET TP
  /\ m_run_number \in Runs \cup {InvalidRun}
  /\ m_next_tpset_seqno \in Nat
  /\ m_timestamp_counter \in Nat
  /\ m_sent_tps \in Nat
  /\ m_sent_tpsets \in Nat
  /\ currentTime \in Nat
  /\ maxTime \in Nat
  /\ behind \in Nat
  /\ accepted \in SUBSET TP
  /\ IsFiniteSet(accepted)
  /\ tpsets \in Seq(TPSet)

Init ==
  /\ m_tp_buffer = {}
  /\ m_run_number = InvalidRun
  /\ m_next_tpset_seqno = 0
  /\ m_timestamp_counter = 0
  /\ m_sent_tps = 0
  /\ m_sent_tpsets = 0
  /\ currentTime = 0
  /\ maxTime = 0
  /\ behind = 0
  /\ accepted = {}
  /\ tpsets = <<>>

----------------------------------------------------------------------------
(* Variants of the code, used to see that the properties notice a bug.     *)

\* add_tp without its age test
AddTPAnyAge(t) ==
  /\ Cardinality(accepted) < MaxTPs
  /\ LET tp == [id |-> Cardinality(accepted), time_start |-> t]
     IN  /\ m_tp_buffer' = m_tp_buffer \cup {tp}
         /\ accepted' = accepted \cup {tp}
  /\ UNCHANGED <<m_run_number, m_next_tpset_seqno, m_timestamp_counter,
                 m_sent_tps, m_sent_tpsets, clock, tpsets>>

\* the send condition without m_tp_timeout
RipeNoTimeout(top) == top.time_start + Window < currentTime

\* the send condition that waits for one more window
RipeTooLate(top) == top.time_start + 2 * Window + Timeout < currentTime

\* the heap is emptied one tick too far: <= end_time
BatchInclusive(start) ==
  {tp \in m_tp_buffer : tp.time_start <= start + Window}

\* the window before the one of the top TP
PreviousWindowStart(t) == (t \div Window) * Window - Window

\* m_timestamp_counter moves when the send is tried, not when it succeeds
ConcludeCountsTimeout(start, outcome) ==
  \/ /\ outcome = "late"
     /\ DropLate /\ start < m_timestamp_counter
     /\ UNCHANGED <<m_sent_tpsets, m_timestamp_counter>>
  \/ /\ outcome \in {"sent", "timeout"}
     /\ ~(DropLate /\ start < m_timestamp_counter)
     /\ m_sent_tpsets' = m_sent_tpsets + (IF outcome = "sent" THEN 1 ELSE 0)
     /\ m_timestamp_counter' = IF DropLate THEN start ELSE m_timestamp_counter

\* reset() leaves the heap as it is
ResetKeepsBuffer(run, t) ==
  /\ m_run_number' = run
  /\ m_next_tpset_seqno' = 0
  /\ m_timestamp_counter' = 0
  /\ m_sent_tps' = 0
  /\ m_sent_tpsets' = 0
  /\ currentTime' = t
  /\ maxTime' = t
  /\ behind' = 0
  /\ accepted' = {}
  /\ tpsets' = <<>>
  /\ UNCHANGED m_tp_buffer

----------------------------------------------------------------------------
(* The later of two times, for the history of the clock.                   *)
Later(t, u) == IF t > u THEN t ELSE u

(* The caller turns to the data of timestamp t.                            *)
NextItem(t) ==
  /\ t + Skew >= maxTime
  /\ currentTime' = t
  /\ maxTime' = Later(t, maxTime)
  /\ behind' = Later(maxTime' - t, behind)
  /\ UNCHANGED <<handler, history>>

(* add_tp: a TP that is older than the timeout is refused (the caller      *)
(* counts it in m_tps_dropped), the others go into the heap.               *)
AddTP(t) ==
  /\ Cardinality(accepted) < MaxTPs
  /\ t + Timeout > currentTime
  /\ LET tp == [id |-> Cardinality(accepted), time_start |-> t]
     IN  /\ m_tp_buffer' = m_tp_buffer \cup {tp}
         /\ accepted' = accepted \cup {tp}
  /\ UNCHANGED <<m_run_number, m_next_tpset_seqno, m_timestamp_counter,
                 m_sent_tps, m_sent_tpsets, clock, tpsets>>

(* The heap's top: a TP of least time_start.                               *)
IsTop(top) ==
  /\ top \in m_tp_buffer
  /\ \A tp \in m_tp_buffer : top.time_start <= tp.time_start

(* The window of the top TP ended more than the timeout ago.               *)
Ripe(top) == top.time_start + Window + Timeout < currentTime

WindowStart(t) == (t \div Window) * Window

(* What the loop pops: everything before the end of the window.            *)
Batch(start) == {tp \in m_tp_buffer : tp.time_start < start + Window}

IsLate(start) == DropLate /\ start < m_timestamp_counter

(* The end of try_sending_tpsets: the finished TPSet is dropped as late,   *)
(* or sent, or the send times out.                                         *)
Conclude(start, outcome) ==
  \/ /\ outcome = "late"
     /\ IsLate(start)
     /\ UNCHANGED <<m_sent_tpsets, m_timestamp_counter>>
  \/ /\ outcome = "sent"
     /\ ~IsLate(start)
     /\ m_sent_tpsets' = m_sent_tpsets + 1
     /\ m_timestamp_counter' = IF DropLate THEN start ELSE m_timestamp_counter
  \/ /\ outcome = "timeout"
     /\ ~IsLate(start)
     /\ UNCHANGED <<m_sent_tpsets, m_timestamp_counter>>

(* try_sending_tpsets: at most one TPSet a call.  Each of its TPs is also  *)
(* sent on its own; delivered of these sends succeed, the others time out  *)
(* and their TPs stay in the TPSet all the same.                           *)
TrySendingTPSets(top, delivered, outcome) ==
  LET start == WindowStart(top.time_start)
      batch == Batch(start)
  IN  /\ IsTop(top)
      /\ Ripe(top)
      /\ m_next_tpset_seqno' = m_next_tpset_seqno + 1
      /\ m_tp_buffer' = m_tp_buffer \ batch
      /\ delivered \in 0 .. Cardinality(batch)
      /\ m_sent_tps' = m_sent_tps + delivered
      /\ Conclude(start, outcome)
      /\ tpsets' = Append(tpsets,
           [run_number |-> m_run_number,
            start_time |-> start,
            end_time   |-> start + Window,
            seqno      |-> m_next_tpset_seqno,
            objects    |-> batch,
            outcome    |-> outcome])
      /\ UNCHANGED <<m_run_number, clock, accepted>>

(* set_run_number and reset, as the processors' start() calls them.  The   *)
(* clock of the new run may start anywhere.                                *)
Start(run, t) ==
  /\ m_run_number' = run
  /\ m_tp_buffer' = {}
  /\ m_next_tpset_seqno' = 0
  /\ m_timestamp_counter' = 0
  /\ m_sent_tps' = 0
  /\ m_sent_tpsets' = 0
  /\ currentTime' = t
  /\ maxTime' = t
  /\ behind' = 0
  /\ accepted' = {}
  /\ tpsets' = <<>>

(* get_and_reset_num_sent_tps and get_and_reset_num_sent_tpsets.           *)
GetSentTPs ==
  /\ m_sent_tps' = 0
  /\ UNCHANGED <<m_tp_buffer, m_run_number, m_next_tpset_seqno,
                 m_timestamp_counter, m_sent_tpsets, clock, history>>

GetSentTPSets ==
  /\ m_sent_tpsets' = 0
  /\ UNCHANGED <<m_tp_buffer, m_run_number, m_next_tpset_seqno,
                 m_timestamp_counter, m_sent_tps, clock, history>>

TrySending ==
  \E top \in m_tp_buffer, outcome \in {"sent", "late", "timeout"} :
    \E delivered \in 0 .. Cardinality(m_tp_buffer) :
      TrySendingTPSets(top, delivered, outcome)

Next ==
  \/ \E t \in Times : NextItem(t)
  \/ \E t \in Times : AddTP(t)
  \/ TrySending
  \/ \E run \in Runs, t \in Times : Start(run, t)
  \/ GetSentTPs
  \/ GetSentTPSets

Spec == Init /\ [][Next]_vars

(* The consumer loop calls try_sending_tpsets after every result it takes  *)
(* from its queue, so as long as data arrives the call comes again.        *)
FairSpec == Spec /\ WF_vars(TrySending)

----------------------------------------------------------------------------
(* Every TP that was taken in is still in the heap or in exactly one       *)
(* TPSet, and lies inside the window that TPSet announces.                 *)
Partition ==
  /\ accepted = m_tp_buffer \cup UNION {tpsets[i].objects : i \in DOMAIN tpsets}
  /\ \A i \in DOMAIN tpsets :
       /\ tpsets[i].objects \cap m_tp_buffer = {}
       /\ \A j \in DOMAIN tpsets :
            i # j => tpsets[i].objects \cap tpsets[j].objects = {}
       /\ \A tp \in tpsets[i].objects :
            /\ tpsets[i].start_time <= tp.time_start
            /\ tp.time_start < tpsets[i].end_time

(* The TPSet starts before one that reached the sink.                      *)
BehindSent(i) ==
  \E j \in DOMAIN tpsets :
    /\ j < i /\ tpsets[j].outcome = "sent"
    /\ tpsets[i].start_time < tpsets[j].start_time

(* What m_timestamp_counter of WIB2TPHandler is for: a TPSet that would    *)
(* put the sink out of time order is thrown away, whatever the skew of the *)
(* callers, and no other one is.  In particular a TPSet whose send timed   *)
(* out is no reason to throw a later one away.                             *)
LateExactly ==
  \A i \in DOMAIN tpsets :
    /\ tpsets[i].outcome = "sent" => ~BehindSent(i)
    /\ tpsets[i].outcome = "late" => BehindSent(i)

(* No TPSet is built and then thrown away, with its TPs, for being late,   *)
(* in a run whose callers fell at most Window + 2 ticks behind: the age    *)
(* test of add_tp and the send condition, both strict, keep what is taken  *)
(* in behind the window that was sent by no more than that.                *)
NeverLate ==
  behind <= Window + 2 => \A i \in DOMAIN tpsets : tpsets[i].outcome # "late"

(* A TPSet holds every TP of its window that is ever taken in, in a run    *)
(* whose callers fell at most 2 ticks behind: once the window was sent,    *)
(* add_tp takes in nothing more for it.                                    *)
CompleteWindows ==
  behind <= 2 =>
    \A i \in DOMAIN tpsets, tp \in accepted :
      tpsets[i].start_time <= tp.time_start /\ tp.time_start < tpsets[i].end_time
        => tp \in tpsets[i].objects

(* A TP that is past its window and the timeout, for every caller, leaves  *)
(* the heap, although a call of try_sending_tpsets sends one window at     *)
(* most.                                                                   *)
Overdue(tp) == tp.time_start + Window + Timeout + Skew < maxTime

OverdueTPsLeave ==
  \A tp \in TP : tp \in m_tp_buffer /\ Overdue(tp) ~> tp \notin m_tp_buffer

(* The end of the last window that was sent or given up in this run.       *)
LastEnd == IF tpsets = <<>> THEN 0 ELSE tpsets[Len(tpsets)].end_time

Emitted ==
  [i \in 1 .. Len(tpsets) |->
     [start_time |-> tpsets[i].start_time, objects |-> tpsets[i].objects]]

Windowing == INSTANCE TPWindowing
  WITH Indices <- Times, pending <- m_tp_buffer, closed <- LastEnd,
       emitted <- Emitted

(* Without skew (2 ticks at most) the handler keeps the promise of         *)
(* TPWindowing.                                                            *)
ImplementsWindowing == Windowing!Spec
============================================================================
