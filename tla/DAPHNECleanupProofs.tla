------------------------- MODULE DAPHNECleanupProofs -------------------------
(***************************************************************************)
(* Proofs about DAPHNECleanup for every maximal difference, every modulus  *)
(* of the timestamps and any number of insertions.  The argument: only the *)
(* cleanup takes superchunks out, and it takes out only heads that differ  *)
(* from the tail; so the tail stays, and the oldest superchunk, which is   *)
(* what is looked at next, exists and is not newer than the tail.          *)
(***************************************************************************)
EXTENDS DAPHNECleanup, TLAPS, WellFoundedInduction

(* What the cleanup knows of the list before each of its steps.            *)
LooksRight ==
  /\ pc = "head"   => tail = Null \/ tail \in skip_list
  /\ pc = "check"  => /\ tail = Null \/ tail \in skip_list
                      /\ tail # Null /\ head # Null => head <= tail
  /\ pc = "remove" => /\ tail \in skip_list /\ head # Null
                      /\ head + m_max_ts_diff <= tail
  /\ pc = "next"   => tail \in skip_list

IInv == TypeOK /\ LooksRight

-----------------------------------------------------------------------------
(* A set of numbers that is not empty has a least one.                     *)
LEMMA LeastExists ==
  ASSUME NEW S, S \subseteq Nat, S # {}
  PROVE  \E t \in S : \A u \in S : t <= u
<1> DEFINE R == {ss \in Nat \X Nat : ss[1] < ss[2]}
<1>1. IsWellFoundedOn(R, Nat)
  BY NatLessThanWellFounded DEF OpToRel
<1>2. PICK t \in S : \A u \in S : <<u, t>> \notin R
  <2> HIDE DEF R
  <2> QED BY <1>1, WFMin
<1>3. \A u \in S : ~(u < t)
  BY <1>2
<1> QED BY <1>3

(* The oldest superchunk is in the list and no other is older; so it is    *)
(* with the newest.                                                        *)
LEMMA OldestIsLeast ==
  ASSUME skip_list \subseteq Timestamps, skip_list # {}
  PROVE  Oldest \in skip_list /\ \A u \in skip_list : Oldest <= u
<1>1. skip_list \subseteq Nat
  BY CleanupAssumption DEF Timestamps
<1> QED BY <1>1, LeastExists DEF Oldest

LEMMA NewestIsGreatest ==
  ASSUME skip_list \subseteq Timestamps, skip_list # {}
  PROVE  Newest \in skip_list /\ \A u \in skip_list : u <= Newest
<1> DEFINE D == {Modulus - t : t \in skip_list}
<1>1. D \subseteq Nat /\ D # {} /\ skip_list \subseteq Int
  <2>1. \A t \in skip_list : t \in Int /\ Modulus - t \in Nat
    BY CleanupAssumption DEF Timestamps
  <2>2. D \subseteq Nat
    BY <2>1
  <2> QED BY <2>1, <2>2
<1>2. PICK d \in D : \A e \in D : d <= e
  <2> HIDE DEF D
  <2> QED BY <1>1, LeastExists
<1>3. PICK t \in skip_list : d = Modulus - t
  BY <1>2
<1>4. \A u \in skip_list : u <= t
  <2> TAKE u \in skip_list
  <2>1. Modulus - t <= Modulus - u
    BY <1>2, <1>3
  <2> QED BY <2>1, <1>1, CleanupAssumption
<1> QED BY <1>4 DEF Newest

(* A difference of two timestamps of which the first is not older does not *)
(* wrap.                                                                   *)
LEMMA DifferenceExact ==
  ASSUME NEW ts \in Timestamps, tail \in Timestamps, ts <= tail
  PROVE  timediff(ts) = tail - ts
<1>1. tail - ts \in 0 .. Modulus - 1 /\ Modulus \in Nat
  BY CleanupAssumption DEF Timestamps
<1> QED BY <1>1 DEF timediff

-----------------------------------------------------------------------------
LEMMA InitIInv == Init => IInv
  BY DEF Init, IInv, TypeOK, LooksRight, Null

LEMMA StepIInv == IInv /\ [Next]_vars => IInv'
<1> SUFFICES ASSUME IInv, [Next]_vars PROVE IInv'
  OBVIOUS
<1> USE DEF IInv, TypeOK
<1>1. CASE Insert
  <2>1. TypeOK'
    BY <1>1 DEF Insert
  <2>2. LooksRight'
    BY <1>1 DEF Insert, LooksRight
  <2> QED BY <2>1, <2>2
<1>2. CASE ReadTail
  <2>1. tail' = Null \/ tail' \in skip_list
    BY <1>2, NewestIsGreatest DEF ReadTail, Newest
  <2> QED BY <1>2, <2>1 DEF ReadTail, LooksRight
<1>3. CASE ReadHead
  <2>1. head' = Null \/ (head' \in skip_list /\ \A u \in skip_list : head' <= u)
    BY <1>3, OldestIsLeast DEF ReadHead, Oldest
  <2> QED BY <1>3, <2>1 DEF ReadHead, LooksRight
<1>4. CASE Check
  <2>1. ASSUME tail # Null, head # Null, timediff(head) > m_max_ts_diff
        PROVE  tail \in skip_list /\ head + m_max_ts_diff <= tail
    <3>1. tail \in skip_list /\ head \in Timestamps /\ tail \in Timestamps /\ head <= tail
      BY <1>4, <2>1 DEF Check, LooksRight
    <3>2. timediff(head) = tail - head
      BY <3>1, DifferenceExact
    <3> QED BY <2>1, <3>1, <3>2, CleanupAssumption DEF Timestamps
  <2> QED BY <1>4, <2>1 DEF Check, LooksRight
<1>5. CASE Remove
  <2>1. tail \in skip_list /\ tail # head
    <3>1. tail \in Timestamps /\ head \in Timestamps /\ tail \in skip_list /\ head + m_max_ts_diff <= tail
      BY <1>5 DEF Remove, LooksRight
    <3> QED BY <3>1, CleanupAssumption DEF Timestamps
  <2> QED BY <1>5, <2>1 DEF Remove, LooksRight
<1>6. CASE NextHead
  <2>1. tail \in skip_list
    BY <1>6 DEF NextHead, LooksRight
  <2>2. head' \in skip_list /\ head' <= tail
    BY <1>6, <2>1, OldestIsLeast DEF NextHead
  <2>3. timediff(head') = tail - head'
    BY <2>1, <2>2, DifferenceExact
  <2>4. head' # Null
    BY <2>2, CleanupAssumption DEF Timestamps, Null
  <2>5. timediff(head') >= m_max_ts_diff => head' + m_max_ts_diff <= tail
    <3>1. head' \in Int /\ tail \in Int
      BY <2>1, <2>2, CleanupAssumption DEF Timestamps
    <3>2. \A a, b, m \in Int : a - b >= m => b + m <= a
      OBVIOUS
    <3>3. m_max_ts_diff \in Int
      BY CleanupAssumption
    <3>4. tail - head' >= m_max_ts_diff => head' + m_max_ts_diff <= tail
      BY <3>1, <3>2, <3>3
    <3> QED BY <2>3, <3>4, Zenon
  <2>6. TypeOK'
    BY <1>6, <2>2 DEF NextHead
  <2>7. LooksRight'
    BY <1>6, <2>1, <2>4, <2>5 DEF NextHead, LooksRight
  <2> QED BY <2>6, <2>7
<1>7. CASE UNCHANGED vars
  BY <1>7 DEF vars, LooksRight
<1> QED BY <1>1, <1>2, <1>3, <1>4, <1>5, <1>6, <1>7 DEF Next, Cleanup

LEMMA Invariance == Spec => []IInv
  BY InitIInv, StepIInv, PTL DEF Spec

-----------------------------------------------------------------------------
(* The variables have their types; the timestamps looked at are timestamps *)
(* of superchunks or none.                                                 *)
THEOREM TypeCorrect == Spec => []TypeOK
<1>1. IInv => TypeOK
  BY DEF IInv
<1> QED BY <1>1, Invariance, PTL

(* daphne_cleanup_request never finds the list empty once it has begun to  *)
(* take superchunks out, and never a head newer than its tail.             *)
THEOREM HeadAlwaysExists == Spec => []HeadExists
<1>1. IInv => HeadExists
  <2> SUFFICES ASSUME IInv PROVE HeadExists
    OBVIOUS
  <2>1. pc = "remove" => head < tail
    <3> SUFFICES ASSUME pc = "remove" PROVE head < tail
      OBVIOUS
    <3>1. tail \in Timestamps /\ head \in Timestamps /\ head + m_max_ts_diff <= tail
      BY DEF IInv, TypeOK, LooksRight
    <3> QED BY <3>1, CleanupAssumption DEF Timestamps
  <2> QED BY <2>1 DEF IInv, LooksRight, HeadExists
<1> QED BY <1>1, Invariance, PTL

(* It takes out only superchunks m_max_ts_diff or more older than the      *)
(* newest one in the buffer.                                               *)
THEOREM RemovesOnlyOld == Spec => OnlyOldRemoved
<1>1. IInv /\ [Next]_vars => [\A t \in skip_list \ skip_list' : t + m_max_ts_diff <= Newest]_vars
  <2> SUFFICES ASSUME IInv, Next, NEW t \in skip_list \ skip_list'
               PROVE  t + m_max_ts_diff <= Newest
    BY DEF vars
  <2>1. Remove /\ t = head
    BY DEF Next, Cleanup, Insert, ReadTail, ReadHead, Check, Remove, NextHead
  <2>2. tail \in skip_list /\ head + m_max_ts_diff <= tail
    BY <2>1 DEF IInv, Remove, LooksRight
  <2>3. Newest \in skip_list /\ tail <= Newest
    BY <2>2, NewestIsGreatest DEF IInv, TypeOK
  <2>4. {t, tail, Newest} \subseteq Int
    BY <2>2, <2>3, CleanupAssumption DEF IInv, TypeOK, Timestamps
  <2> QED BY <2>1, <2>2, <2>3, <2>4, CleanupAssumption
<1> QED BY <1>1, Invariance, PTL DEF Spec, OnlyOldRemoved

=============================================================================
