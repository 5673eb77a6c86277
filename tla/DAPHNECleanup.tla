---------------------------- MODULE DAPHNECleanup ----------------------------
(***************************************************************************)
(* DAPHNEListRequestHandler: the latency buffer of DAPHNE is a concurrent  *)
(* skip list ordered by timestamp.  Superchunks are inserted, late ones    *)
(* too, while the cleanup thread goes through daphne_cleanup_request: it   *)
(* looks at the newest and the oldest superchunk and, if they are further  *)
(* apart than m_max_ts_diff, takes out the oldest until they are not.      *)
(* Every look at the list is a step of its own; the newest one is looked   *)
(* at once.  Timestamps are unsigned, so differences are taken modulo      *)
(* Modulus.                                                                *)
(***************************************************************************)
EXTENDS Integers, FiniteSets

CONSTANTS
  m_max_ts_diff,  \* 10000000
  Modulus,        \* 2^64
  MaxInserts      \* bound: superchunks inserted

ASSUME CleanupAssumption ==
  /\ m_max_ts_diff \in Nat \ {0} /\ Modulus \in Nat /\ m_max_ts_diff < Modulus
  /\ MaxInserts \in Nat

VARIABLES
  skip_list,    \* timestamps in the latency buffer
  pc,           \* where the cleanup is
  tail, head,   \* what acc.last() and acc.first() gave: newest, oldest
  removed_ctr, m_pops_count, m_pop_reqs,
  inserts       \* history

vars == <<skip_list, pc, tail, head, removed_ctr, m_pops_count, m_pop_reqs, inserts>>

Timestamps == 0 .. Modulus - 1
Null       == -1

\* acc.last, acc.first
Newest == IF skip_list = {} THEN Null
          ELSE CHOOSE t \in skip_list : \A u \in skip_list : u <= t
Oldest == IF skip_list = {} THEN Null
          ELSE CHOOSE t \in skip_list : \A u \in skip_list : t <= u

Init ==
  /\ skip_list = {} /\ pc = "idle" /\ tail = Null /\ head = Null
  /\ removed_ctr = 0 /\ m_pops_count = 0 /\ m_pop_reqs = 0 /\ inserts = 0

\* A superchunk is written to the buffer; the list takes a timestamp once
Insert ==
  /\ inserts < MaxInserts
  /\ \E t \in Timestamps : skip_list' = skip_list \cup {t}
  /\ inserts' = inserts + 1
  /\ UNCHANGED <<pc, tail, head, removed_ctr, m_pops_count, m_pop_reqs>>

-----------------------------------------------------------------------------
(* daphne_cleanup_request *)

ReadTail ==
  /\ pc = "idle"
  /\ tail' = Newest /\ removed_ctr' = 0 /\ pc' = "head"
  /\ UNCHANGED <<skip_list, head, m_pops_count, m_pop_reqs, inserts>>

ReadHead ==
  /\ pc = "head"
  /\ head' = Oldest /\ pc' = "check"
  /\ UNCHANGED <<skip_list, tail, removed_ctr, m_pops_count, m_pop_reqs, inserts>>

timediff(ts) == (tail - ts) % Modulus

\* Mutant: any difference is too much
Check_AnyDifference ==
  /\ pc = "check"
  /\ IF tail # Null /\ head # Null /\ timediff(head) > 0
     THEN m_pop_reqs' = m_pop_reqs + 1 /\ pc' = "remove"
     ELSE pc' = "idle" /\ UNCHANGED m_pop_reqs
  /\ UNCHANGED <<skip_list, tail, head, removed_ctr, m_pops_count, inserts>>

Check ==
  /\ pc = "check"
  /\ IF tail # Null /\ head # Null /\ timediff(head) > m_max_ts_diff
     THEN m_pop_reqs' = m_pop_reqs + 1 /\ pc' = "remove"
     ELSE pc' = "idle" /\ UNCHANGED m_pop_reqs
  /\ UNCHANGED <<skip_list, tail, head, removed_ctr, m_pops_count, inserts>>

Remove ==
  /\ pc = "remove"
  /\ skip_list' = skip_list \ {head}
  /\ removed_ctr' = removed_ctr + (IF head \in skip_list THEN 1 ELSE 0)
  /\ pc' = "next"
  /\ UNCHANGED <<tail, head, m_pops_count, m_pop_reqs, inserts>>

\* Mutant: the difference is that of the superchunk just removed
NextHead_StaleDiff ==
  /\ pc = "next"
  /\ head' = Oldest
  /\ IF timediff(head) >= m_max_ts_diff
     THEN pc' = "remove" /\ UNCHANGED m_pops_count
     ELSE pc' = "idle" /\ m_pops_count' = m_pops_count + removed_ctr
  /\ UNCHANGED <<skip_list, tail, removed_ctr, m_pop_reqs, inserts>>

\* The new head is not tested for null
NextHead ==
  /\ pc = "next"
  /\ head' = Oldest
  /\ IF timediff(head') >= m_max_ts_diff
     THEN pc' = "remove" /\ UNCHANGED m_pops_count
     ELSE pc' = "idle" /\ m_pops_count' = m_pops_count + removed_ctr
  /\ UNCHANGED <<skip_list, tail, removed_ctr, m_pop_reqs, inserts>>

Cleanup == ReadTail \/ ReadHead \/ Check \/ Remove \/ NextHead
Next    == Insert \/ Cleanup
Spec    == Init /\ [][Next]_vars

-----------------------------------------------------------------------------
(* Properties *)

TypeOK ==
  /\ skip_list \subseteq Timestamps
  /\ pc \in {"idle", "head", "check", "remove", "next"}
  /\ {tail, head} \subseteq Timestamps \cup {Null}
  /\ {removed_ctr, m_pops_count, m_pop_reqs, inserts} \subseteq Nat

(* The newest superchunk the cleanup has looked at is still in the list     *)
(* while it takes others out, however many are inserted meanwhile: so the   *)
(* list never runs empty, the head it follows without a test exists, and is *)
(* never newer than the tail, which would make the unsigned difference huge *)
(* and the cleanup take out everything.                                     *)
HeadExists ==
  pc \in {"remove", "next"} =>
    /\ tail \in skip_list
    /\ pc = "remove" => head # Null /\ head < tail

(* A superchunk is taken out only if it is m_max_ts_diff or more older than *)
(* the newest one in the buffer: what a request may still ask for is kept.  *)
OnlyOldRemoved ==
  [][\A t \in skip_list \ skip_list' : t + m_max_ts_diff <= Newest]_vars

=============================================================================
