-------------------------- MODULE TPHandlerProofs --------------------------
(***************************************************************************)
(* Proofs about TPHandler for every timeout, window, skew and bound.       *)
(*                                                                         *)
(* The argument is about time.  A window is sent when it ended more than   *)
(* Timeout before currentTime; a TP is taken in only if it is younger than *)
(* Timeout.  So what is taken in later starts after the end of every       *)
(* window that was sent, but for the skew between the two clock readings   *)
(* (ClosedWindows below).  Windows start at multiples of Window, so a TP   *)
(* that starts after a multiple of Window has a window that does, too      *)
(* (WindowStartMonotone).                                                  *)
(***************************************************************************)
EXTENDS TPHandler, TLAPS, FiniteSetTheorems

(* Every TPSet announces a window of the grid, which ended more than the   *)
(* timeout ago.                                                            *)
GridWindows ==
  \A i \in DOMAIN tpsets :
    /\ \E k \in Nat : tpsets[i].start_time = k * Window
    /\ tpsets[i].end_time = tpsets[i].start_time + Window
    /\ tpsets[i].end_time + Timeout < maxTime

(* How far the callers are behind, now and at most so far.                 *)
ClockInv ==
  /\ currentTime <= maxTime
  /\ maxTime <= currentTime + behind
  /\ behind <= Skew

(* Arrival numbers are unique.                                             *)
IdInv == \A tp \in accepted : tp.id < Cardinality(accepted)

(* What is in the heap is younger than every window that was sent, but for *)
(* how far the callers fell behind.                                        *)
ClosedWindows ==
  \A i \in DOMAIN tpsets, tp \in m_tp_buffer :
    \/ tp.time_start >= tpsets[i].end_time
    \/ tp.time_start + behind >= tpsets[i].end_time + 2

(* m_timestamp_counter is the start of the last TPSet delivered.           *)
CounterInv ==
  /\ m_timestamp_counter = 0
       \/ \E i \in DOMAIN tpsets :
            /\ tpsets[i].outcome = "sent"
            /\ tpsets[i].start_time = m_timestamp_counter
  /\ DropLate =>
       \A i \in DOMAIN tpsets :
         tpsets[i].outcome = "sent"
           => tpsets[i].start_time <= m_timestamp_counter

----------------------------------------------------------------------------
(* A TPSet's window is a whole number of windows after time 0, holds the   *)
(* time it was computed from, and is not before any grid point at or       *)
(* before that time.                                                       *)
LEMMA WindowStartFacts ==
  ASSUME NEW t \in Nat
  PROVE  /\ WindowStart(t) \in Nat
         /\ \E k \in 0 .. t : WindowStart(t) = k * Window
         /\ WindowStart(t) <= t
         /\ t < WindowStart(t) + Window
<1> DEFINE q == t \div Window
<1>1. Window \in Nat /\ Window > 0
  BY ConstantsAssumption
<1>2. q \in Int /\ q >= 0 /\ q <= t
  BY <1>1
<1>3. Window * q <= t /\ t < Window * q + Window
  BY <1>1
<1>4. q * Window = Window * q /\ q * Window \in Nat
  BY <1>1, <1>2
<1>5. WindowStart(t) = q * Window
  BY DEF WindowStart
<1>6. QED
  BY <1>1, <1>2, <1>3, <1>4, <1>5

(* Multiplication by the window length keeps the order.                    *)
LEMMA GridOrder ==
  ASSUME NEW j \in Nat, NEW k \in Nat, j * Window < (k + 1) * Window
  PROVE  j <= k
<1>1. Window \in Nat /\ Window > 0
  BY ConstantsAssumption
<1>2. SUFFICES ASSUME j >= k + 1 PROVE FALSE
  OBVIOUS
<1>3. j * Window >= (k + 1) * Window
  BY <1>1, <1>2
<1>4. QED
  BY <1>1, <1>3

(* A time at or after a grid point has its window at or after that point.  *)
LEMMA WindowStartMonotone ==
  ASSUME NEW t \in Nat, NEW j \in Nat, j * Window <= t
  PROVE  j * Window <= WindowStart(t)
<1>1. Window \in Nat /\ Window > 0
  BY ConstantsAssumption
<1>2. PICK k \in 0 .. t : WindowStart(t) = k * Window
  BY WindowStartFacts
<1>3. k \in Nat /\ k * Window \in Nat /\ j * Window \in Nat
  BY <1>1
<1>4. (k + 1) * Window = k * Window + Window
  BY <1>1, <1>3
<1>a. t < WindowStart(t) + Window
  BY WindowStartFacts
<1>5. j * Window < (k + 1) * Window
  BY <1>1, <1>2, <1>3, <1>4, <1>a
<1>6. j <= k
  BY <1>3, <1>5, GridOrder
<1>7. j * Window <= k * Window
  BY <1>1, <1>3, <1>6
<1>8. QED
  BY <1>2, <1>7

----------------------------------------------------------------------------
(* The times of a TPSet are natural numbers.                               *)
LEMMA TPSetTimes ==
  ASSUME TypeOK, NEW i \in DOMAIN tpsets
  PROVE  tpsets[i].start_time \in Nat /\ tpsets[i].end_time \in Nat
<1>1. tpsets \in Seq(TPSet)
  BY DEF TypeOK
<1> HIDE DEF TPSet
<1>2. tpsets[i] \in TPSet
  BY <1>1
<1>3. QED
  BY <1>2 DEF TPSet

(* What a call that sends (or gives up) a TPSet does, in one place: a new  *)
(* last TPSet for the window of the top TP.                                *)
LEMMA NewTPSet ==
  ASSUME TypeOK, NEW top \in m_tp_buffer,
         NEW outcome \in {"sent", "late", "timeout"},
         NEW delivered \in 0 .. Cardinality(m_tp_buffer),
         TrySendingTPSets(top, delivered, outcome)
  PROVE  /\ top \in TP /\ top.time_start \in Nat
         /\ WindowStart(top.time_start) \in Nat
         /\ Batch(WindowStart(top.time_start)) \in SUBSET TP
         /\ m_tp_buffer' = m_tp_buffer \ Batch(WindowStart(top.time_start))
         /\ Len(tpsets') = Len(tpsets) + 1
         /\ DOMAIN tpsets = 1 .. Len(tpsets)
         /\ DOMAIN tpsets' = 1 .. Len(tpsets) + 1
         /\ \A i \in DOMAIN tpsets : tpsets'[i] = tpsets[i]
         /\ tpsets'[Len(tpsets) + 1] =
              [run_number |-> m_run_number,
               start_time |-> WindowStart(top.time_start),
               end_time   |-> WindowStart(top.time_start) + Window,
               seqno      |-> m_next_tpset_seqno,
               objects    |-> Batch(WindowStart(top.time_start)),
               outcome    |-> outcome]
         /\ tpsets' \in Seq(TPSet)
<1> DEFINE start == WindowStart(top.time_start)
           new == [run_number |-> m_run_number,
                   start_time |-> start,
                   end_time   |-> start + Window,
                   seqno      |-> m_next_tpset_seqno,
                   objects    |-> Batch(start),
                   outcome    |-> outcome]
<1>1. top \in TP /\ top.time_start \in Nat
  BY ConstantsAssumption DEF TypeOK, TP, Times
<1>2. start \in Nat
  BY <1>1, WindowStartFacts
<1>3. Batch(start) \in SUBSET TP
  BY DEF Batch, TypeOK
<1>4. m_run_number \in Nat
  BY ConstantsAssumption DEF TypeOK, InvalidRun
<1>5. new \in TPSet
  BY <1>2, <1>3, <1>4, ConstantsAssumption DEF TPSet, TypeOK
<1>6. /\ m_tp_buffer' = m_tp_buffer \ Batch(start)
      /\ tpsets' = Append(tpsets, new)
  BY DEF TrySendingTPSets
<1>7. tpsets \in Seq(TPSet)
  BY DEF TypeOK
<1> HIDE DEF new, start
<1>8. /\ Len(tpsets') = Len(tpsets) + 1
      /\ DOMAIN tpsets = 1 .. Len(tpsets)
      /\ DOMAIN tpsets' = 1 .. Len(tpsets) + 1
      /\ \A i \in DOMAIN tpsets : tpsets'[i] = tpsets[i]
      /\ tpsets'[Len(tpsets) + 1] = new
      /\ tpsets' \in Seq(TPSet)
  BY <1>5, <1>6, <1>7
<1>9. QED
  BY <1>1, <1>2, <1>3, <1>6, <1>8 DEF new, start

(* The same, field by field.                                               *)
LEMMA SendFields ==
  ASSUME TypeOK, NEW top \in m_tp_buffer,
         NEW outcome \in {"sent", "late", "timeout"},
         NEW delivered \in 0 .. Cardinality(m_tp_buffer),
         TrySendingTPSets(top, delivered, outcome)
  PROVE  LET start == WindowStart(top.time_start)
             n     == Len(tpsets) + 1
         IN  /\ top \in TP /\ top.time_start \in Nat /\ start \in Nat
             /\ m_tp_buffer' = m_tp_buffer \ Batch(start)
             /\ DOMAIN tpsets = 1 .. Len(tpsets) /\ DOMAIN tpsets' = 1 .. n
             /\ \A i \in DOMAIN tpsets : tpsets'[i] = tpsets[i]
             /\ tpsets'[n].start_time = start
             /\ tpsets'[n].end_time = start + Window
             /\ tpsets'[n].objects = Batch(start)
             /\ tpsets'[n].outcome = outcome
<1> DEFINE start == WindowStart(top.time_start)
<1>1. tpsets'[Len(tpsets) + 1] =
        [run_number |-> m_run_number,
         start_time |-> start,
         end_time   |-> start + Window,
         seqno      |-> m_next_tpset_seqno,
         objects    |-> Batch(start),
         outcome    |-> outcome]
  BY NewTPSet
<1>2. /\ top \in TP /\ top.time_start \in Nat /\ start \in Nat
      /\ m_tp_buffer' = m_tp_buffer \ Batch(start)
      /\ DOMAIN tpsets = 1 .. Len(tpsets)
      /\ DOMAIN tpsets' = 1 .. Len(tpsets) + 1
      /\ \A i \in DOMAIN tpsets : tpsets'[i] = tpsets[i]
  BY NewTPSet
<1> HIDE DEF start
<1>3. QED
  BY <1>1, <1>2 DEF start

(* Every variable keeps its type.                                          *)
LEMMA TypeStep == TypeOK /\ [Next]_vars => TypeOK'
<1> SUFFICES ASSUME TypeOK, [Next]_vars PROVE TypeOK'
  OBVIOUS
<1>1. ASSUME NEW t \in Times, NextItem(t) PROVE TypeOK'
  BY <1>1, ConstantsAssumption
     DEF NextItem, Later, TypeOK, Times, handler, history
<1>2. ASSUME NEW t \in Times, AddTP(t) PROVE TypeOK'
  <2> DEFINE tp == [id |-> Cardinality(accepted), time_start |-> t]
  <2>1. Cardinality(accepted) \in Nat
    BY FS_CardinalityType DEF TypeOK
  <2>2. tp \in TP
    BY <1>2, <2>1, ConstantsAssumption DEF AddTP, TP
  <2>3. IsFiniteSet(accepted \cup {tp})
    BY FS_AddElement DEF TypeOK
  <2>4. QED
    BY <1>2, <2>2, <2>3 DEF AddTP, TypeOK, clock
<1>3. ASSUME NEW top \in m_tp_buffer,
             NEW outcome \in {"sent", "late", "timeout"},
             NEW delivered \in 0 .. Cardinality(m_tp_buffer),
             TrySendingTPSets(top, delivered, outcome)
      PROVE  TypeOK'
  <2> DEFINE start == WindowStart(top.time_start)
  <2>1. start \in Nat /\ Batch(start) \in SUBSET TP /\ tpsets' \in Seq(TPSet)
    BY <1>3, NewTPSet
  <2>2. m_tp_buffer' \in SUBSET TP /\ m_next_tpset_seqno' \in Nat
    BY <1>3 DEF TrySendingTPSets, TypeOK
  <2>3. delivered \in Nat /\ m_sent_tps' \in Nat
    BY <1>3 DEF TrySendingTPSets, TypeOK
  <2>4. m_sent_tpsets' \in Nat /\ m_timestamp_counter' \in Nat
    BY <1>3, <2>1 DEF TrySendingTPSets, Conclude, TypeOK
  <2>5. QED
    BY <1>3, <2>1, <2>2, <2>3, <2>4 DEF TrySendingTPSets, TypeOK, clock
<1>4. ASSUME NEW run \in Runs, NEW t \in Times, Start(run, t) PROVE TypeOK'
  BY <1>4, FS_EmptySet, ConstantsAssumption DEF Start, TypeOK, Times
<1>5. CASE GetSentTPs
  BY <1>5 DEF GetSentTPs, TypeOK, clock, history
<1>6. CASE GetSentTPSets
  BY <1>6 DEF GetSentTPSets, TypeOK, clock, history
<1>7. CASE UNCHANGED vars
  BY <1>7 DEF vars, handler, clock, history, TypeOK
<1>8. QED
  BY <1>1, <1>2, <1>3, <1>4, <1>5, <1>6, <1>7 DEF Next, TrySending

(* TypeOK holds in every behaviour.                                        *)
THEOREM TypeCorrect == Spec => []TypeOK
<1>1. Init => TypeOK
  BY FS_EmptySet, ConstantsAssumption DEF Init, TypeOK
<1>2. QED
  BY <1>1, TypeStep, PTL DEF Spec

----------------------------------------------------------------------------
(* The inductive invariant.                                                *)
IInv ==
  /\ TypeOK
  /\ Partition
  /\ IdInv
  /\ ClockInv
  /\ GridWindows
  /\ ClosedWindows
  /\ CounterInv

LEMMA InitIInv == Init => IInv
<1> SUFFICES ASSUME Init PROVE IInv
  OBVIOUS
<1>1. TypeOK
  BY FS_EmptySet, ConstantsAssumption DEF Init, TypeOK
<1>2. DOMAIN tpsets = {}
  BY DEF Init
<1>3. QED
  BY <1>1, <1>2, ConstantsAssumption
     DEF Init, IInv, Partition, IdInv, ClockInv, GridWindows, ClosedWindows,
         CounterInv

(* A newer item moves the clock only.                                      *)
LEMMA NextItemStep ==
  ASSUME IInv, TypeOK', NEW t \in Times, NextItem(t)
  PROVE  IInv'
<1>1. UNCHANGED <<m_tp_buffer, m_timestamp_counter, accepted, tpsets>>
  BY DEF NextItem, handler, history
<1>2. /\ ClockInv'
      /\ maxTime' >= maxTime /\ maxTime \in Nat /\ maxTime' \in Nat
      /\ behind' >= behind /\ behind \in Nat /\ behind' \in Nat
  BY ConstantsAssumption DEF NextItem, Later, IInv, TypeOK, ClockInv, Times
<1>3. GridWindows'
  <2> SUFFICES ASSUME NEW i \in DOMAIN tpsets
               PROVE  /\ \E k \in Nat : tpsets[i].start_time = k * Window
                      /\ tpsets[i].end_time = tpsets[i].start_time + Window
                      /\ tpsets[i].end_time + Timeout < maxTime'
    BY <1>1 DEF GridWindows
  <2>1. tpsets[i].end_time \in Nat
    BY TPSetTimes DEF IInv
  <2>2. QED
    BY <1>2, <2>1, ConstantsAssumption DEF IInv, GridWindows
<1>4. ClosedWindows'
  <2> SUFFICES ASSUME NEW i \in DOMAIN tpsets, NEW x \in m_tp_buffer
               PROVE  \/ x.time_start >= tpsets[i].end_time
                      \/ x.time_start + behind' >= tpsets[i].end_time + 2
    BY <1>1 DEF ClosedWindows
  <2>1. x.time_start \in Nat /\ tpsets[i].end_time \in Nat
    <3>1. x.time_start \in Nat
      BY ConstantsAssumption DEF IInv, TypeOK, TP, Times
    <3>2. QED
      BY <3>1, TPSetTimes DEF IInv
  <2>2. \/ x.time_start >= tpsets[i].end_time
        \/ x.time_start + behind >= tpsets[i].end_time + 2
    BY DEF IInv, ClosedWindows
  <2>3. QED
    BY <1>2, <2>1, <2>2
<1>5. Partition' /\ IdInv' /\ CounterInv'
  BY <1>1 DEF IInv, Partition, IdInv, CounterInv
<1>6. QED
  BY <1>2, <1>3, <1>4, <1>5 DEF IInv

(* A TP that is taken in is new, and younger than every window sent.       *)
LEMMA AddTPStep ==
  ASSUME IInv, TypeOK', NEW t \in Times, AddTP(t)
  PROVE  IInv'
<1> DEFINE tp == [id |-> Cardinality(accepted), time_start |-> t]
<1>1. /\ m_tp_buffer' = m_tp_buffer \cup {tp}
      /\ accepted' = accepted \cup {tp}
      /\ UNCHANGED <<m_timestamp_counter, tpsets, currentTime, maxTime, behind>>
      /\ t + Timeout > currentTime
  BY DEF AddTP, clock
<1>2. Cardinality(accepted) \in Nat /\ IsFiniteSet(accepted)
  BY FS_CardinalityType DEF IInv, TypeOK
<1>3. tp \notin accepted
  BY <1>2 DEF IInv, IdInv
<1>4. Cardinality(accepted') = Cardinality(accepted) + 1
  BY <1>1, <1>2, <1>3, FS_AddElement
<1>5. IdInv'
  <2> SUFFICES ASSUME NEW x \in accepted' PROVE x.id < Cardinality(accepted')
    BY DEF IdInv
  <2>1. CASE x = tp
    BY <1>2, <1>4, <2>1
  <2>2. CASE x \in accepted
    <3>1. x.id \in Int
      BY <2>2, ConstantsAssumption DEF IInv, TypeOK, TP
    <3>2. x.id < Cardinality(accepted)
      BY <2>2 DEF IInv, IdInv
    <3>3. QED
      BY <1>2, <1>4, <3>1, <3>2
  <2>3. QED
    BY <1>1, <2>1, <2>2
<1>6. Partition'
  <2>1. \A i \in DOMAIN tpsets : tp \notin tpsets[i].objects
    BY <1>3 DEF IInv, Partition
  <2> HIDE DEF tp
  <2>2. QED
    BY <1>1, <2>1 DEF IInv, Partition
<1>7. ClosedWindows'
  <2> SUFFICES ASSUME NEW i \in DOMAIN tpsets, NEW x \in m_tp_buffer'
               PROVE  \/ x.time_start >= tpsets[i].end_time
                      \/ x.time_start + behind >= tpsets[i].end_time + 2
    BY <1>1 DEF ClosedWindows
  <2>1. CASE x \in m_tp_buffer
    BY <2>1 DEF IInv, ClosedWindows
  <2>2. CASE x = tp
    <3>1. /\ tpsets[i].end_time \in Nat /\ currentTime \in Nat
          /\ maxTime \in Nat /\ behind \in Nat
      BY TPSetTimes DEF IInv, TypeOK
    <3>2. /\ tpsets[i].end_time + Timeout < maxTime
          /\ maxTime <= currentTime + behind
      BY DEF IInv, GridWindows, ClockInv
    <3>3. t \in Nat /\ x.time_start = t
      BY <2>2, ConstantsAssumption DEF Times
    <3>4. QED
      BY <1>1, <3>1, <3>2, <3>3, ConstantsAssumption
  <2>3. QED
    BY <1>1, <2>1, <2>2
<1>8. ClockInv' /\ GridWindows' /\ CounterInv'
  BY <1>1 DEF IInv, ClockInv, GridWindows, CounterInv
<1>9. QED
  BY <1>5, <1>6, <1>7, <1>8 DEF IInv

(* A new TPSet takes its window out of the heap, and that window is over.  *)
LEMMA TrySendingStep ==
  ASSUME IInv, TypeOK', NEW top \in m_tp_buffer,
         NEW outcome \in {"sent", "late", "timeout"},
         NEW delivered \in 0 .. Cardinality(m_tp_buffer),
         TrySendingTPSets(top, delivered, outcome)
  PROVE  IInv'
<1> DEFINE start == WindowStart(top.time_start)
           n == Len(tpsets) + 1
<1>1. TypeOK
  BY DEF IInv
<1>2. /\ top \in TP /\ top.time_start \in Nat /\ start \in Nat
      /\ m_tp_buffer' = m_tp_buffer \ Batch(start)
      /\ DOMAIN tpsets = 1 .. Len(tpsets) /\ DOMAIN tpsets' = 1 .. n
      /\ \A i \in DOMAIN tpsets : tpsets'[i] = tpsets[i]
      /\ tpsets'[n].start_time = start
      /\ tpsets'[n].end_time = start + Window
      /\ tpsets'[n].objects = Batch(start)
      /\ tpsets'[n].outcome = outcome
  BY <1>1, SendFields
<1>3. Len(tpsets) \in Nat
  BY <1>1 DEF TypeOK
<1>4. /\ n \notin DOMAIN tpsets /\ n \in DOMAIN tpsets'
      /\ DOMAIN tpsets' = DOMAIN tpsets \cup {n}
  BY <1>2, <1>3
<1>5. /\ start <= top.time_start /\ top.time_start < start + Window
      /\ \E k \in Nat : start = k * Window
  <2>1. PICK k \in 0 .. top.time_start : start = k * Window
    BY <1>2, WindowStartFacts
  <2>2. k \in Nat
    OBVIOUS
  <2>3. QED
    BY <1>2, <2>1, <2>2, WindowStartFacts
<1>6. UNCHANGED <<accepted, currentTime, maxTime, behind>>
  BY DEF TrySendingTPSets, clock
<1>7. /\ \A tp \in m_tp_buffer : top.time_start <= tp.time_start
      /\ top.time_start + Window + Timeout < currentTime
  BY DEF TrySendingTPSets, IsTop, Ripe
<1>8. \A tp \in m_tp_buffer : tp \in TP /\ tp.time_start \in Nat
  BY <1>1, ConstantsAssumption DEF TypeOK, TP, Times
<1> HIDE DEF start, n
<1>9. Partition'
  <2>1. \A tp \in Batch(start) :
          start <= tp.time_start /\ tp.time_start < start + Window
    BY <1>2, <1>5, <1>7, <1>8 DEF Batch
  <2>2. Batch(start) \subseteq m_tp_buffer
    BY DEF Batch
  <2>3. \A i \in DOMAIN tpsets : tpsets[i].objects \cap m_tp_buffer = {}
    BY DEF IInv, Partition
  <2>4. UNION {tpsets'[i].objects : i \in DOMAIN tpsets'}
          = (UNION {tpsets[i].objects : i \in DOMAIN tpsets}) \cup Batch(start)
    BY <1>2, <1>4
  <2>5. accepted' = m_tp_buffer' \cup UNION {tpsets'[i].objects : i \in DOMAIN tpsets'}
    BY <1>2, <1>6, <2>2, <2>4 DEF IInv, Partition
  <2>6. ASSUME NEW i \in DOMAIN tpsets'
        PROVE  /\ tpsets'[i].objects \cap m_tp_buffer' = {}
               /\ \A j \in DOMAIN tpsets' :
                    i # j => tpsets'[i].objects \cap tpsets'[j].objects = {}
               /\ \A tp \in tpsets'[i].objects :
                    /\ tpsets'[i].start_time <= tp.time_start
                    /\ tp.time_start < tpsets'[i].end_time
    <3>1. CASE i = n
      BY <1>2, <1>4, <2>1, <2>2, <2>3, <3>1
    <3>2. CASE i \in DOMAIN tpsets
      <4>1. tpsets'[i] = tpsets[i]
        BY <1>2, <3>2
      <4>2. tpsets[i].objects \cap m_tp_buffer' = {}
        BY <1>2, <2>3, <3>2
      <4>3. \A j \in DOMAIN tpsets' :
              i # j => tpsets[i].objects \cap tpsets'[j].objects = {}
        BY ZenonT(40), <1>2, <1>4, <2>2, <2>3, <3>2 DEF IInv, Partition
      <4>4. QED
        BY <3>2, <4>1, <4>2, <4>3 DEF IInv, Partition
    <3>3. QED
      BY <1>4, <3>1, <3>2
  <2>7. QED
    BY <2>5, <2>6 DEF Partition
<1>10. GridWindows'
  <2> SUFFICES ASSUME NEW i \in DOMAIN tpsets'
               PROVE  /\ \E k \in Nat : tpsets'[i].start_time = k * Window
                      /\ tpsets'[i].end_time = tpsets'[i].start_time + Window
                      /\ tpsets'[i].end_time + Timeout < maxTime
    BY <1>6 DEF GridWindows
  <2>1. CASE i = n
    <3>1. currentTime \in Nat /\ maxTime \in Nat /\ currentTime <= maxTime
      BY DEF IInv, TypeOK, ClockInv
    <3>2. start + Window + Timeout < maxTime
      BY SMTT(30), <1>2, <1>5, <1>7, <3>1, ConstantsAssumption
    <3>3. QED
      BY <1>2, <1>5, <2>1, <3>2
  <2>2. CASE i \in DOMAIN tpsets
    BY <1>2, <2>2 DEF IInv, GridWindows
  <2>3. QED
    BY <1>4, <2>1, <2>2
<1>11. ClosedWindows'
  <2> SUFFICES ASSUME NEW i \in DOMAIN tpsets', NEW x \in m_tp_buffer'
               PROVE  \/ x.time_start >= tpsets'[i].end_time
                      \/ x.time_start + behind >= tpsets'[i].end_time + 2
    BY <1>6 DEF ClosedWindows
  <2>1. x \in m_tp_buffer /\ ~(x.time_start < start + Window)
    BY <1>2 DEF Batch
  <2>2. CASE i = n
    BY <1>2, <1>8, <2>1, <2>2, ConstantsAssumption
  <2>3. CASE i \in DOMAIN tpsets
    BY <1>2, <2>1, <2>3 DEF IInv, ClosedWindows
  <2>4. QED
    BY <1>4, <2>2, <2>3
<1>12. CounterInv'
  <2>1. CASE m_timestamp_counter' = m_timestamp_counter /\ outcome # "sent"
    BY <1>2, <1>4, <2>1 DEF IInv, CounterInv
  <2>2. CASE /\ outcome = "sent" /\ ~IsLate(start)
             /\ m_timestamp_counter'
                  = IF DropLate THEN start ELSE m_timestamp_counter
    <3>1. CASE DropLate
      <4>1. m_timestamp_counter' = start /\ ~(start < m_timestamp_counter)
        BY <2>2, <3>1 DEF IsLate
      <4>2. m_timestamp_counter \in Nat
        BY <1>1 DEF TypeOK
      <4>3. ASSUME NEW i \in DOMAIN tpsets', tpsets'[i].outcome = "sent"
            PROVE  tpsets'[i].start_time <= start
        <5>1. CASE i = n
          BY <1>2, <5>1
        <5>2. CASE i \in DOMAIN tpsets
          <6>1. tpsets[i].start_time <= m_timestamp_counter
            BY <1>2, <3>1, <4>3, <5>2 DEF IInv, CounterInv
          <6>2. tpsets[i].start_time \in Nat
            BY <1>1, <5>2, TPSetTimes
          <6>3. QED
            BY <1>2, <4>1, <4>2, <5>2, <6>1, <6>2
        <5>3. QED
          BY <1>4, <5>1, <5>2
      <4>4. /\ n \in DOMAIN tpsets' /\ tpsets'[n].outcome = "sent"
            /\ tpsets'[n].start_time = m_timestamp_counter'
        BY <1>2, <1>4, <2>2, <4>1
      <4>5. QED
        BY <4>1, <4>3, <4>4 DEF CounterInv
    <3>2. CASE ~DropLate
      BY <1>2, <1>4, <2>2, <3>2 DEF IInv, CounterInv
    <3>3. QED
      BY <3>1, <3>2
  <2>3. QED
    BY <2>1, <2>2 DEF TrySendingTPSets, Conclude, start
<1>13. IdInv' /\ ClockInv'
  BY <1>6 DEF IInv, IdInv, ClockInv
<1>14. QED
  BY <1>9, <1>10, <1>11, <1>12, <1>13 DEF IInv

(* A new run starts from an empty heap and an empty history.               *)
LEMMA StartStep ==
  ASSUME IInv, TypeOK', NEW run \in Runs, NEW t \in Times, Start(run, t)
  PROVE  IInv'
<1>1. DOMAIN tpsets' = {}
  BY DEF Start
<1>2. QED
  BY <1>1, ConstantsAssumption
     DEF Start, IInv, Partition, IdInv, ClockInv, GridWindows, ClosedWindows,
         CounterInv, Times

LEMMA IInvStep == IInv /\ [Next]_vars => IInv'
<1> SUFFICES ASSUME IInv, [Next]_vars PROVE IInv'
  OBVIOUS
<1>1. TypeOK'
  BY TypeStep DEF IInv
<1>2. ASSUME NEW t \in Times, NextItem(t) PROVE IInv'
  BY <1>1, <1>2, NextItemStep
<1>3. ASSUME NEW t \in Times, AddTP(t) PROVE IInv'
  BY <1>1, <1>3, AddTPStep
<1>4. CASE TrySending
  BY <1>1, <1>4, TrySendingStep DEF TrySending
<1>5. ASSUME NEW run \in Runs, NEW t \in Times, Start(run, t) PROVE IInv'
  BY <1>1, <1>5, StartStep
<1>6. CASE GetSentTPs \/ GetSentTPSets \/ UNCHANGED vars
  <2>1. UNCHANGED <<m_tp_buffer, m_timestamp_counter, clock, history>>
    BY <1>6 DEF GetSentTPs, GetSentTPSets, vars, handler
  <2>2. QED
    BY <1>1, <2>1
       DEF IInv, Partition, IdInv, ClockInv, GridWindows, ClosedWindows,
           CounterInv, clock, history
<1>7. QED
  BY <1>2, <1>3, <1>4, <1>5, <1>6 DEF Next

LEMMA IInvCorrect == Spec => []IInv
<1>1. QED
  BY InitIInv, IInvStep, PTL DEF Spec

----------------------------------------------------------------------------
(* add_tp and try_sending_tpsets neither lose nor duplicate a TP, and each *)
(* TP goes into a TPSet whose window holds it.                             *)
THEOREM PartitionTheorem == Spec => []Partition
<1>1. IInv => Partition
  BY DEF IInv
<1>2. QED
  BY <1>1, IInvCorrect, PTL

(* The steps that leave the TPSets as they are, or forget them all.        *)
LEMMA OtherSteps ==
  ASSUME [Next]_vars, ~TrySending
  PROVE  tpsets' = tpsets \/ tpsets' = <<>>
BY DEF Next, NextItem, AddTP, Start, GetSentTPs, GetSentTPSets, vars, handler,
       clock, history

(* WIB2TPHandler's late check keeps the delivered TPSets in order, however *)
(* far the timestamps of its callers go back, and throws nothing away that *)
(* would not break the order: m_timestamp_counter is always 0 or the start *)
(* of a TPSet that went out, the latest of them.                           *)
THEOREM LateExactlyTheorem ==
  ASSUME DropLate PROVE Spec => []LateExactly
<1>1. Init => LateExactly
  BY DEF Init, LateExactly
<1>2. ASSUME IInv, LateExactly, [Next]_vars PROVE LateExactly'
  <2>1. CASE tpsets' = tpsets \/ tpsets' = <<>>
    BY <1>2, <2>1 DEF LateExactly, BehindSent
  <2>2. ASSUME NEW top \in m_tp_buffer,
               NEW outcome \in {"sent", "late", "timeout"},
               NEW delivered \in 0 .. Cardinality(m_tp_buffer),
               TrySendingTPSets(top, delivered, outcome)
        PROVE  LateExactly'
    <3> DEFINE start == WindowStart(top.time_start)
    <3>1. TypeOK
      BY <1>2 DEF IInv
    <3>n. PICK n \in Nat : n = Len(tpsets) + 1
      BY <3>1 DEF TypeOK
    <3>2. /\ DOMAIN tpsets = 1 .. Len(tpsets) /\ DOMAIN tpsets' = 1 .. n
          /\ \A i \in DOMAIN tpsets : tpsets'[i] = tpsets[i]
          /\ tpsets'[n].start_time = start /\ start \in Nat
          /\ tpsets'[n].outcome = outcome
      BY <2>2, <3>1, <3>n, SendFields
    <3>3. Len(tpsets) \in Nat /\ m_timestamp_counter \in Nat
      BY <3>1 DEF TypeOK
    <3>4. /\ outcome = "sent" => start >= m_timestamp_counter
          /\ outcome = "late" => start < m_timestamp_counter
      BY <2>2, <3>2, <3>3 DEF TrySendingTPSets, Conclude, IsLate
    <3> HIDE DEF start
    <3>5. \A i \in DOMAIN tpsets : i \in DOMAIN tpsets' /\ i < n
      BY <3>2, <3>3, <3>n
    <3>6. ASSUME NEW i \in DOMAIN tpsets PROVE BehindSent(i)' <=> BehindSent(i)
      <4>1. \A j \in DOMAIN tpsets' : j < i => j \in DOMAIN tpsets
        BY <3>2, <3>3, <3>n
      <4>2. QED
        BY <3>2, <3>5, <4>1 DEF BehindSent
    <3>7. outcome = "sent" => ~BehindSent(n)'
      <4>1. SUFFICES ASSUME outcome = "sent", NEW j \in DOMAIN tpsets,
                            tpsets[j].outcome = "sent"
                     PROVE  ~(start < tpsets[j].start_time)
        BY <3>2, <3>3, <3>n DEF BehindSent
      <4>2. tpsets[j].start_time <= m_timestamp_counter
        BY <1>2, <4>1 DEF IInv, CounterInv
      <4>3. tpsets[j].start_time \in Nat
        BY <3>1, TPSetTimes
      <4>4. QED
        BY <3>2, <3>3, <3>4, <4>1, <4>2, <4>3
    <3>8. outcome = "late" => BehindSent(n)'
      <4>1. SUFFICES ASSUME outcome = "late" PROVE BehindSent(n)'
        OBVIOUS
      <4>2. m_timestamp_counter # 0
        BY <3>2, <3>3, <3>4, <4>1
      <4>3. PICK j \in DOMAIN tpsets : /\ tpsets[j].outcome = "sent"
                                      /\ tpsets[j].start_time = m_timestamp_counter
        BY <1>2, <4>2 DEF IInv, CounterInv
      <4>4. QED
        BY <3>2, <3>4, <3>5, <4>1, <4>3 DEF BehindSent
    <3>9. SUFFICES ASSUME NEW i \in DOMAIN tpsets'
                   PROVE  /\ tpsets'[i].outcome = "sent" => ~BehindSent(i)'
                          /\ tpsets'[i].outcome = "late" => BehindSent(i)'
      BY DEF LateExactly
    <3>10. CASE i \in DOMAIN tpsets
      BY <1>2, <3>2, <3>6, <3>10 DEF LateExactly
    <3>11. CASE i = n
      BY <3>2, <3>7, <3>8, <3>11
    <3>12. QED
      BY <3>2, <3>3, <3>n, <3>10, <3>11
  <2>3. QED
    BY <1>2, <2>1, <2>2, OtherSteps DEF TrySending
<1>3. QED
  BY <1>1, <1>2, IInvCorrect, PTL DEF Spec

(* What is sent next starts no earlier than what was sent before, when the *)
(* callers fell at most Window + 2 ticks behind.                           *)
LEMMA NextWindowNotEarlier ==
  ASSUME IInv, behind <= Window + 2, NEW top \in m_tp_buffer,
         NEW i \in DOMAIN tpsets
  PROVE  tpsets[i].start_time <= WindowStart(top.time_start)
<1>1. top.time_start \in Nat
  BY ConstantsAssumption DEF IInv, TypeOK, TP, Times
<1>2. tpsets[i].start_time \in Nat /\ tpsets[i].end_time \in Nat
  BY TPSetTimes DEF IInv
<1>3. PICK k \in Nat : tpsets[i].start_time = k * Window
  BY DEF IInv, GridWindows
<1>4. tpsets[i].end_time = tpsets[i].start_time + Window
  BY DEF IInv, GridWindows
<1>5. \/ top.time_start >= tpsets[i].end_time
      \/ top.time_start + behind >= tpsets[i].end_time + 2
  BY DEF IInv, ClosedWindows
<1>b. behind \in Nat
  BY DEF IInv, TypeOK
<1>6. tpsets[i].start_time <= top.time_start
  BY <1>1, <1>2, <1>4, <1>5, <1>b, ConstantsAssumption
<1>7. QED
  BY <1>1, <1>3, <1>6, WindowStartMonotone

(* Within a run the callers only get further behind.                       *)
LEMMA BehindGrows ==
  ASSUME IInv, [Next]_vars
  PROVE  tpsets' = <<>> \/ (behind' \in Nat /\ behind' >= behind)
<1>1. behind \in Nat /\ maxTime \in Nat
  BY DEF IInv, TypeOK
<1>2. ASSUME NEW t \in Times, NextItem(t)
      PROVE  behind' \in Nat /\ behind' >= behind
  BY <1>1, <1>2, ConstantsAssumption DEF NextItem, Later, Times
<1>3. CASE UNCHANGED clock
  BY <1>1, <1>3 DEF clock
<1>4. ASSUME NEW run \in Runs, NEW t \in Times, Start(run, t)
      PROVE  tpsets' = <<>>
  BY <1>4 DEF Start
<1>5. ([Next]_vars /\ ~\E t \in Times : NextItem(t))
        => UNCHANGED clock \/ \E run \in Runs, t \in Times : Start(run, t)
  BY DEF Next, AddTP, TrySending, TrySendingTPSets, GetSentTPs,
         GetSentTPSets, vars
<1>6. QED
  BY <1>2, <1>3, <1>4, <1>5

(* While the callers are at most Window + 2 ticks behind, no TPSet is      *)
(* dropped for being late.                                                 *)
THEOREM NeverLateTheorem == Spec => []NeverLate
<1>1. Init => NeverLate
  BY DEF Init, NeverLate
<1>2. ASSUME IInv, NeverLate, [Next]_vars PROVE NeverLate'
  <2> SUFFICES ASSUME tpsets' # <<>>, behind' <= Window + 2
               PROVE  \A i \in DOMAIN tpsets' : tpsets'[i].outcome # "late"
    BY DEF NeverLate
  <2>a. behind <= Window + 2
    BY <1>2, BehindGrows, ConstantsAssumption DEF IInv, TypeOK
  <2>b. \A i \in DOMAIN tpsets : tpsets[i].outcome # "late"
    BY <1>2, <2>a DEF NeverLate
  <2>1. CASE tpsets' = tpsets
    BY <2>b, <2>1
  <2>2. ASSUME NEW top \in m_tp_buffer,
               NEW outcome \in {"sent", "late", "timeout"},
               NEW delivered \in 0 .. Cardinality(m_tp_buffer),
               TrySendingTPSets(top, delivered, outcome)
        PROVE  \A i \in DOMAIN tpsets' : tpsets'[i].outcome # "late"
    <3> DEFINE start == WindowStart(top.time_start)
               n == Len(tpsets) + 1
    <3>1. TypeOK
      BY <1>2 DEF IInv
    <3>2. /\ DOMAIN tpsets = 1 .. Len(tpsets) /\ DOMAIN tpsets' = 1 .. n
          /\ \A i \in DOMAIN tpsets : tpsets'[i] = tpsets[i]
          /\ tpsets'[n].outcome = outcome /\ start \in Nat
      BY <2>2, <3>1, SendFields
    <3>3. Len(tpsets) \in Nat /\ m_timestamp_counter \in Nat
      BY <3>1 DEF TypeOK
    <3>4. start >= m_timestamp_counter
      BY <1>2, <2>a, <3>2, <3>3, NextWindowNotEarlier DEF IInv, CounterInv
    <3>5. outcome # "late"
      BY <2>2, <3>2, <3>3, <3>4 DEF TrySendingTPSets, Conclude, IsLate
    <3> HIDE DEF start
    <3>6. QED
      BY <2>b, <3>2, <3>3, <3>5
  <2>3. QED
    BY <1>2, <2>1, <2>2, OtherSteps DEF TrySending
<1>3. QED
  BY <1>1, <1>2, IInvCorrect, PTL DEF Spec

----------------------------------------------------------------------------
(* When the callers fell at most 2 ticks behind, the windows that were     *)
(* sent follow one another.                                                *)
SeparateWindows ==
  behind <= 2 =>
    \A i, j \in DOMAIN tpsets :
      i < j => tpsets[i].end_time <= tpsets[j].start_time

(* What is in the heap starts after the end of every window sent, and so   *)
(* does its window.                                                        *)
LEMMA NextWindowAfter ==
  ASSUME IInv, behind <= 2, NEW tp \in m_tp_buffer, NEW i \in DOMAIN tpsets
  PROVE  /\ tpsets[i].end_time <= tp.time_start
         /\ tpsets[i].end_time <= WindowStart(tp.time_start)
<1>1. tp.time_start \in Nat
  BY ConstantsAssumption DEF IInv, TypeOK, TP, Times
<1>2. tpsets[i].start_time \in Nat /\ tpsets[i].end_time \in Nat
  BY TPSetTimes DEF IInv
<1>3. PICK k \in Nat : tpsets[i].start_time = k * Window
  BY DEF IInv, GridWindows
<1>4. tpsets[i].end_time = (k + 1) * Window
  <2>1. (k + 1) * Window = k * Window + Window
    BY ConstantsAssumption
  <2>2. QED
    BY <1>3, <2>1 DEF IInv, GridWindows
<1>5. \/ tp.time_start >= tpsets[i].end_time
      \/ tp.time_start + behind >= tpsets[i].end_time + 2
  BY DEF IInv, ClosedWindows
<1>b. behind \in Nat
  BY DEF IInv, TypeOK
<1>6. tpsets[i].end_time <= tp.time_start
  BY <1>1, <1>2, <1>5, <1>b
<1>7. k + 1 \in Nat
  OBVIOUS
<1>8. QED
  BY <1>1, <1>4, <1>6, <1>7, WindowStartMonotone

LEMMA SeparateWindowsCorrect == Spec => []SeparateWindows
<1>1. Init => SeparateWindows
  BY DEF Init, SeparateWindows
<1>2. ASSUME IInv, SeparateWindows, [Next]_vars PROVE SeparateWindows'
  <2> SUFFICES ASSUME tpsets' # <<>>, behind' <= 2
               PROVE  \A i, j \in DOMAIN tpsets' :
                        i < j => tpsets'[i].end_time <= tpsets'[j].start_time
    BY DEF SeparateWindows
  <2>a. behind <= 2
    BY <1>2, BehindGrows DEF IInv, TypeOK
  <2>b. \A i, j \in DOMAIN tpsets :
          i < j => tpsets[i].end_time <= tpsets[j].start_time
    BY <1>2, <2>a DEF SeparateWindows
  <2>1. CASE tpsets' = tpsets
    BY <2>b, <2>1
  <2>2. ASSUME NEW top \in m_tp_buffer,
               NEW outcome \in {"sent", "late", "timeout"},
               NEW delivered \in 0 .. Cardinality(m_tp_buffer),
               TrySendingTPSets(top, delivered, outcome)
        PROVE  \A i, j \in DOMAIN tpsets' :
                 i < j => tpsets'[i].end_time <= tpsets'[j].start_time
    <3> DEFINE start == WindowStart(top.time_start)
               n == Len(tpsets) + 1
    <3>1. TypeOK
      BY <1>2 DEF IInv
    <3>2. /\ DOMAIN tpsets = 1 .. Len(tpsets) /\ DOMAIN tpsets' = 1 .. n
          /\ \A i \in DOMAIN tpsets : tpsets'[i] = tpsets[i]
          /\ tpsets'[n].start_time = start
      BY <2>2, <3>1, SendFields
    <3>3. Len(tpsets) \in Nat
      BY <3>1 DEF TypeOK
    <3>4. \A i \in DOMAIN tpsets : tpsets[i].end_time <= start
      BY <1>2, <2>a, NextWindowAfter
    <3> HIDE DEF start
    <3>5. SUFFICES ASSUME NEW i \in DOMAIN tpsets', NEW j \in DOMAIN tpsets',
                          i < j
                   PROVE  tpsets'[i].end_time <= tpsets'[j].start_time
      OBVIOUS
    <3>6. i \in DOMAIN tpsets
      BY <3>2, <3>3, <3>5
    <3>7. CASE j \in DOMAIN tpsets
      BY <2>b, <3>2, <3>5, <3>6, <3>7
    <3>8. CASE j = n
      BY <3>2, <3>4, <3>6, <3>8
    <3>9. QED
      BY <3>2, <3>3, <3>7, <3>8
  <2>3. QED
    BY <1>2, <2>1, <2>2, OtherSteps DEF TrySending
<1>3. QED
  BY <1>1, <1>2, IInvCorrect, PTL DEF Spec

(* While the callers are at most 2 ticks behind a TPSet is complete: no TP *)
(* of its window is in another TPSet, waits in the heap, or is taken in    *)
(* later.                                                                  *)
THEOREM CompleteWindowsTheorem == Spec => []CompleteWindows
<1>1. ASSUME IInv, SeparateWindows PROVE CompleteWindows
  <2> SUFFICES ASSUME behind <= 2,
                      NEW i \in DOMAIN tpsets, NEW tp \in accepted,
                      tpsets[i].start_time <= tp.time_start,
                      tp.time_start < tpsets[i].end_time
               PROVE  tp \in tpsets[i].objects
    BY DEF CompleteWindows
  <2>1. tp.time_start \in Nat
    BY <1>1, ConstantsAssumption DEF IInv, TypeOK, TP, Times
  <2>2. \A j \in DOMAIN tpsets :
          tpsets[j].start_time \in Nat /\ tpsets[j].end_time \in Nat
    BY <1>1, TPSetTimes DEF IInv
  <2>3. tp \notin m_tp_buffer
    <3> SUFFICES ASSUME tp \in m_tp_buffer PROVE FALSE
      OBVIOUS
    <3>1. tpsets[i].end_time <= tp.time_start
      BY <1>1, NextWindowAfter
    <3>2. QED
      BY <2>1, <2>2, <3>1
  <2>4. PICK j \in DOMAIN tpsets : tp \in tpsets[j].objects
    BY <1>1, <2>3 DEF IInv, Partition
  <2>5. tpsets[j].start_time <= tp.time_start /\ tp.time_start < tpsets[j].end_time
    BY <1>1, <2>4 DEF IInv, Partition
  <2>6. i \in Int /\ j \in Int
    BY <1>1 DEF IInv, TypeOK
  <2>7. ~(i < j) /\ ~(j < i)
    BY <1>1, <2>1, <2>2, <2>5 DEF SeparateWindows
  <2>8. QED
    BY <2>4, <2>6, <2>7
<1>2. QED
  BY <1>1, IInvCorrect, SeparateWindowsCorrect, PTL

----------------------------------------------------------------------------
(* Refinement: a call of add_tp that takes the TP in is an Accept, one of  *)
(* try_sending_tpsets that builds a TPSet an Emit, start() a Restart;      *)
(* everything else leaves the abstract state alone.                        *)

(* LastEnd is 0, or the end of one of the windows.                         *)
LEMMA LastEndFacts ==
  ASSUME TypeOK
  PROVE  LastEnd = 0 \/ \E i \in DOMAIN tpsets : LastEnd = tpsets[i].end_time
<1>1. CASE tpsets = <<>>
  BY <1>1 DEF LastEnd
<1>2. CASE tpsets # <<>>
  <2>1. Len(tpsets) \in DOMAIN tpsets
    BY <1>2 DEF TypeOK
  <2>2. QED
    BY <1>2, <2>1 DEF LastEnd
<1>3. QED
  BY <1>1, <1>2

LEMMA RefineAddTP ==
  ASSUME IInv, IInv', Skew <= 2, NEW t \in Times, AddTP(t)
  PROVE  \E tp \in TP : Windowing!Accept(tp)
<1> DEFINE tp == [id |-> Cardinality(accepted), time_start |-> t]
<1>1. m_tp_buffer' = m_tp_buffer \cup {tp} /\ UNCHANGED tpsets
  BY DEF AddTP
<1>2. tp \in m_tp_buffer' /\ tp \in TP
  BY <1>1 DEF IInv, TypeOK
<1>3. \A i \in DOMAIN tpsets : tpsets[i].end_time <= t
  <2> SUFFICES ASSUME NEW i \in DOMAIN tpsets PROVE tpsets[i].end_time <= t
    OBVIOUS
  <2>1. /\ tpsets[i].end_time \in Nat /\ t \in Nat
        /\ currentTime \in Nat /\ maxTime \in Nat /\ behind \in Nat
    BY TPSetTimes, ConstantsAssumption DEF IInv, TypeOK, Times
  <2>2. /\ tpsets[i].end_time + Timeout < maxTime
        /\ maxTime <= currentTime + behind /\ behind <= Skew
        /\ t + Timeout > currentTime
    BY DEF IInv, GridWindows, ClockInv, AddTP
  <2>3. QED
    BY <2>1, <2>2, ConstantsAssumption
<1>4. t >= LastEnd
  BY <1>3, LastEndFacts, ConstantsAssumption DEF IInv, Times
<1>5. LastEnd' = LastEnd /\ Emitted' = Emitted
  BY <1>1 DEF LastEnd, Emitted
<1>6. Windowing!Accept(tp)
  BY <1>1, <1>4, <1>5 DEF Windowing!Accept
<1>7. QED
  BY <1>2, <1>6

LEMMA RefineTrySending ==
  ASSUME IInv, Skew <= 2, NEW top \in m_tp_buffer,
         NEW outcome \in {"sent", "late", "timeout"},
         NEW delivered \in 0 .. Cardinality(m_tp_buffer),
         TrySendingTPSets(top, delivered, outcome)
  PROVE  \E k \in Times : Windowing!Emit(k)
<1> DEFINE start == WindowStart(top.time_start)
           n == Len(tpsets) + 1
<1>1. TypeOK
  BY DEF IInv
<1>2. /\ top \in TP /\ top.time_start \in Nat /\ start \in Nat
      /\ m_tp_buffer' = m_tp_buffer \ Batch(start)
      /\ DOMAIN tpsets = 1 .. Len(tpsets) /\ DOMAIN tpsets' = 1 .. n
      /\ \A i \in DOMAIN tpsets : tpsets'[i] = tpsets[i]
      /\ tpsets'[n].start_time = start
      /\ tpsets'[n].end_time = start + Window
      /\ tpsets'[n].objects = Batch(start)
  BY <1>1, SendFields
<1>3. Len(tpsets) \in Nat /\ Len(tpsets') = n
  <2>1. Len(tpsets) \in Nat
    BY <1>1 DEF TypeOK
  <2>2. Len(tpsets') = Len(tpsets) + 1
    BY <1>1, NewTPSet
  <2>3. QED
    BY <2>1, <2>2
<1>4. PICK k \in 0 .. top.time_start : start = k * Window
  BY <1>2, WindowStartFacts
<1>5. k \in Times
  BY <1>2, ConstantsAssumption DEF Times, TP
<1>6. start <= top.time_start /\ top.time_start < start + Window
  BY <1>2, WindowStartFacts
<1>7. \A i \in DOMAIN tpsets : tpsets[i].end_time <= start
  <2>1. behind <= 2
    BY <1>1, ConstantsAssumption DEF IInv, ClockInv, TypeOK
  <2>2. QED
    BY <2>1, NextWindowAfter
<1>8. \A tp \in m_tp_buffer : tp.time_start \in Nat /\ start <= tp.time_start
  <2> SUFFICES ASSUME NEW tp \in m_tp_buffer
               PROVE  tp.time_start \in Nat /\ start <= tp.time_start
    OBVIOUS
  <2>1. tp.time_start \in Nat
    BY <1>1, ConstantsAssumption DEF TypeOK, TP, Times
  <2>2. top.time_start <= tp.time_start
    BY DEF TrySendingTPSets, IsTop
  <2>3. QED
    BY <1>2, <1>6, <2>1, <2>2
<1> HIDE DEF start, n
<1>9. start >= LastEnd
  BY <1>1, <1>2, <1>7, LastEndFacts
<1>10. LastEnd' = start + Window
  <2>1. tpsets' # <<>>
    BY <1>2, <1>3 DEF n
  <2>2. QED
    BY <1>2, <1>3, <2>1 DEF LastEnd
<1>11. Batch(start) = {tp \in m_tp_buffer : Windowing!InWindow(tp, start)}
  BY <1>8 DEF Batch, Windowing!InWindow
<1>12. top \in Batch(start)
  BY <1>6 DEF Batch
<1>13. Emitted' = Append(Emitted, [start_time |-> start, objects |-> Batch(start)])
  <2> DEFINE e == [start_time |-> start, objects |-> Batch(start)]
  <2>1. Emitted \in Seq({Emitted[i] : i \in 1 .. Len(tpsets)})
    BY <1>3 DEF Emitted
  <2>2. Len(Emitted) = Len(tpsets)
    BY <1>3 DEF Emitted
  <2>3. Append(Emitted, e)
          = [i \in 1 .. Len(Emitted) + 1 |->
               IF i \in 1 .. Len(Emitted) THEN Emitted[i] ELSE e]
    BY <1>3, <2>1, <2>2
  <2>4. Emitted'
          = [i \in 1 .. n |->
               [start_time |-> tpsets'[i].start_time,
                objects |-> tpsets'[i].objects]]
    BY <1>3 DEF Emitted
  <2>5. \A i \in 1 .. n :
          [start_time |-> tpsets'[i].start_time, objects |-> tpsets'[i].objects]
            = IF i \in 1 .. Len(tpsets) THEN Emitted[i] ELSE e
    BY <1>2, <1>3 DEF Emitted, n
  <2>6. QED
    BY <2>2, <2>3, <2>4, <2>5 DEF n
<1>14. Windowing!Emit(k)
  BY <1>2, <1>4, <1>8, <1>9, <1>10, <1>11, <1>12, <1>13 DEF Windowing!Emit
<1>15. QED
  BY <1>5, <1>14

(* The handler implements TPWindowing when the skew is at most 2.          *)
THEOREM Refinement == ASSUME Skew <= 2 PROVE Spec => ImplementsWindowing
<1>1. Init => Windowing!Init
  BY DEF Init, Windowing!Init, LastEnd, Emitted
<1>2. ASSUME IInv, IInv', [Next]_vars PROVE [Windowing!Next]_Windowing!vars
  <2>1. CASE UNCHANGED <<m_tp_buffer, tpsets>>
    BY <2>1 DEF Windowing!vars, LastEnd, Emitted
  <2>2. ASSUME NEW t \in Times, AddTP(t) PROVE Windowing!Next
    BY <1>2, <2>2, RefineAddTP DEF Windowing!Next
  <2>3. CASE TrySending
    BY <1>2, <2>3, RefineTrySending DEF Windowing!Next, TrySending
  <2>4. ASSUME NEW run \in Runs, NEW t \in Times, Start(run, t)
        PROVE  Windowing!Next
    <3>1. Windowing!Restart
      BY <2>4 DEF Start, Windowing!Restart, LastEnd, Emitted
    <3>2. QED
      BY <3>1 DEF Windowing!Next
  <2>5. CASE (\E t \in Times : NextItem(t)) \/ GetSentTPs \/ GetSentTPSets
               \/ UNCHANGED vars
    <3>1. UNCHANGED <<m_tp_buffer, tpsets>>
      BY <2>5 DEF NextItem, GetSentTPs, GetSentTPSets, vars, handler, history
    <3>2. QED
      BY <2>1, <3>1
  <2>6. QED
    BY <1>2, <2>2, <2>3, <2>4, <2>5 DEF Next
<1>3. QED
  BY <1>1, <1>2, IInvCorrect, PTL
     DEF Spec, ImplementsWindowing, Windowing!Spec
============================================================================
