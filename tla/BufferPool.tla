----------------------------- MODULE BufferPool -----------------------------
(***************************************************************************)
(* What the software TPG promises about its destination buffers, with no   *)
(* threads and no queues: the life of a buffer.  It is created free, lent  *)
(* to one writer, waits for the reader, is read, and is free again; it is  *)
(* lost only when the waiting room is full or the pool is filled a second  *)
(* time, and deleted only while it is free.                                *)
(*                                                                         *)
(*     new --> free --> written --> waiting --> read --> free              *)
(*              |          |                                               *)
(*           deleted     lost                                              *)
(*                                                                         *)
(* WIB2FrameProcessor implements this (module SWTPGPipeline).              *)
(***************************************************************************)
EXTENDS Integers, FiniteSets

CONSTANTS
  Buffers,           \* identities for the buffers there may ever be
  Size,              \* how many buffers may be free at once
  Room,              \* how many may wait for the reader
  Writers            \* how many may be written at once

VARIABLE
  stage              \* where each buffer is in its life

In(s) == {b \in Buffers : stage[b] = s}

Init == stage = [b \in Buffers |-> "new"]

(* Buffer b goes from one stage of its life to the next; no other moves.   *)
Move(b, from, to) ==
  /\ stage[b] = from
  /\ stage' = [stage EXCEPT ![b] = to]

(* All of a set of buffers go to a stage.                                  *)
MoveAll(set, to) ==
  stage' = [b \in Buffers |-> IF b \in set THEN to ELSE stage[b]]

(* A pool with nothing free gets all its buffers.                          *)
Fill ==
  /\ In("free") = {}
  /\ \E new \in SUBSET In("new") :
       Cardinality(new) = Size /\ MoveAll(new, "free")

(* A pool that has free buffers is filled up, and one too many is lost.    *)
Overfill ==
  /\ In("free") # {}
  /\ \E new \in SUBSET In("new") : \E spilt \in In("new") \ new :
       /\ Cardinality(In("free")) + Cardinality(new) = Size
       /\ stage' = [b \in Buffers |-> IF b \in new THEN "free"
                                      ELSE IF b = spilt THEN "lost"
                                      ELSE stage[b]]

Lend(b) == Move(b, "free", "written") /\ Cardinality(In("written")) < Writers

HandOver(b) ==
  Move(b, "written", "waiting") /\ Cardinality(In("waiting")) < Room

Lose(b) == Move(b, "written", "lost") /\ Cardinality(In("waiting")) >= Room

(* There is one reader, and it reads one buffer at a time.                 *)
Read(b) == Move(b, "waiting", "read") /\ In("read") = {}

GiveBack(b) == Move(b, "read", "free") /\ Cardinality(In("free")) < Size

(* The pool is emptied: what is free is deleted, and nothing else.         *)
Empty == MoveAll(In("free"), "deleted")

Next ==
  \/ \E b \in Buffers :
       Lend(b) \/ HandOver(b) \/ Lose(b) \/ Read(b) \/ GiveBack(b)
  \/ Fill \/ Overfill \/ Empty

Spec == Init /\ [][Next]_stage
============================================================================
