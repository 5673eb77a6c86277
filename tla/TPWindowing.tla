---------------------------- MODULE TPWindowing ----------------------------
(***************************************************************************)
(* What a TP handler promises its consumers, with no clock and no queues:  *)
(* the trigger primitives (TPs) it takes in come out grouped by time       *)
(* window.  Windows come out in time order, each at most once in a run,    *)
(* and a window that came out held every TP of that window: nothing is     *)
(* taken in for a window that is already closed.                           *)
(*                                                                         *)
(* WIB2TPHandler and WIBTPHandler implement this when the timestamps they  *)
(* are called with never go back (module TPHandler).                       *)
(***************************************************************************)
EXTENDS Integers, Sequences

CONSTANTS
  Window,            \* length of a window in clock ticks
  TP,                \* the trigger primitives: records with a time_start
  Indices            \* the numbers of the windows

VARIABLES
  pending,           \* TPs taken in and not yet given out
  closed,            \* end of the last window given out (0: none yet)
  emitted            \* the windows given out in this run, in order

vars == <<pending, closed, emitted>>

InWindow(tp, start) == start <= tp.time_start /\ tp.time_start < start + Window

Init ==
  /\ pending = {}
  /\ closed = 0
  /\ emitted = <<>>

(* A TP is taken in; its window is still open.                             *)
Accept(tp) ==
  /\ tp.time_start >= closed
  /\ pending' = pending \cup {tp}
  /\ UNCHANGED <<closed, emitted>>

(* The earliest window with a pending TP is given out, whole.              *)
Emit(k) ==
  LET start == k * Window
      batch == {tp \in pending : InWindow(tp, start)}
  IN  /\ start >= closed
      /\ batch # {}
      /\ \A tp \in pending : tp.time_start >= start
      /\ pending' = pending \ batch
      /\ closed' = start + Window
      /\ emitted' = Append(emitted, [start_time |-> start, objects |-> batch])

(* A new run forgets everything.                                           *)
Restart ==
  /\ pending' = {}
  /\ closed' = 0
  /\ emitted' = <<>>

Next ==
  \/ \E tp \in TP : Accept(tp)
  \/ \E k \in Indices : Emit(k)
  \/ Restart

Spec == Init /\ [][Next]_vars
============================================================================
