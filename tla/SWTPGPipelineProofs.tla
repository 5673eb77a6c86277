------------------------ MODULE SWTPGPipelineProofs ------------------------
(***************************************************************************)
(* Proofs about SWTPGPipeline, for any capacity, number of halves, runs    *)
(* and configurations.                                                     *)
(*                                                                         *)
(* Buffers.  PInv says which buffer a thread may hold at which point of    *)
(* its loop (PlaceInv), which threads exist in which state of run control  *)
(* (CommandInv), and that a buffer is in one place and, once leaked or     *)
(* deleted, in none (BufferInv).  A step moves at most one buffer.         *)
(*                                                                         *)
(* Pedestals.  A half is seeded by the first superchunk after a stop, and  *)
(* until it has processed one first_hit is up (SeedInv).                   *)
(*                                                                         *)
(* Leaks.  conf makes Capacity + Extra buffers.  A result is dropped when  *)
(* Capacity of them are in the hit queue and one more is with the dropping *)
(* half, so fewer than Extra can have leaked before (LeakInv).             *)
(*                                                                         *)
(* Aborts.  The consumer gives back a buffer that is not in the queue of   *)
(* destinations, so that queue is not full (AliveInv, RoomForBuffer).      *)
(***************************************************************************)
EXTENDS SWTPGPipeline, FiniteSetTheorems, TLAPS

LEMMA InitTypes == Init => TypeOK
<1> SUFFICES ASSUME Init PROVE TypeOK
  OBVIOUS
<1> USE DEF Init
<1>1. FlagTypes
  BY DEF FlagTypes
<1>2. DataTypes
  BY PipelineAssumption
  DEF DataTypes, InvalidRun, AllRuns, NoHandler, Idle, NoItem, SwtpgOutput
<1> QED
  BY <1>1, <1>2 DEF TypeOK

LEMMA KeepsFlagTypes ==
  ASSUME FlagTypes, [Next]_vars
  PROVE  FlagTypes'
<1> USE DEF commandVars, handlerVars, halfVars, bufferVars, FlagTypes
<1>1. ASSUME NEW enable \in EnableChoices, NEW algorithm \in Algorithms,
             Conf(enable, algorithm)
      PROVE  FlagTypes'
  BY <1>1, PipelineAssumption DEF Conf, kSubset, NewHandler, NoHandler
<1>2. CASE ConfThrows
  BY <1>2, PipelineAssumption DEF ConfThrows, kSubset
<1>3. CASE StartSetRunNumber
  BY <1>3, PipelineAssumption DEF StartSetRunNumber
<1>4. CASE StartReset
  BY <1>4, PipelineAssumption DEF StartReset
<1>5. CASE Stop
  BY <1>5, PipelineAssumption DEF Stop
<1>6. CASE StopDone
  BY <1>6, PipelineAssumption DEF StopDone
<1>7. CASE Scrap
  BY <1>7, PipelineAssumption DEF Scrap
<1>8. CASE ScrapDone
  BY <1>8, PipelineAssumption DEF ScrapDone
<1>9. ASSUME NEW h \in Halves, TakeSuperchunk(h) PROVE FlagTypes'
  BY <1>9, PipelineAssumption DEF TakeSuperchunk
<1>10. ASSUME NEW h \in Halves, GetPrimfindDest(h) PROVE FlagTypes'
  BY <1>10, PipelineAssumption DEF GetPrimfindDest
<1>11. ASSUME NEW h \in Halves, UnknownAlgorithm(h) PROVE FlagTypes'
  BY <1>11, PipelineAssumption DEF UnknownAlgorithm
<1>12. ASSUME NEW h \in Halves, PushHits(h) PROVE FlagTypes'
  BY <1>12, PipelineAssumption DEF PushHits
<1>13. ASSUME NEW h \in Halves, DropHits(h) PROVE FlagTypes'
  BY <1>13, PipelineAssumption DEF DropHits
<1>14. CASE OuterLoop
  BY <1>14, PipelineAssumption DEF OuterLoop
<1>15. CASE PopHits
  BY <1>15, PipelineAssumption DEF PopHits
<1>16. CASE NoMoreHits
  BY <1>16, PipelineAssumption DEF NoMoreHits
<1>17. CASE ProcessHits
  BY <1>17, PipelineAssumption DEF ProcessHits
<1>18. CASE SendTPSet
  BY <1>18, PipelineAssumption DEF SendTPSet
<1>19. CASE FreePrimfindDest
  BY <1>19, PipelineAssumption DEF FreePrimfindDest
<1>20. CASE UNCHANGED vars
  BY <1>20 DEF vars
<1> QED
  BY <1>1, <1>2, <1>3, <1>4, <1>5, <1>6, <1>7, <1>8, <1>9, <1>10, <1>11, <1>12,
     <1>13, <1>14, <1>15, <1>16, <1>17, <1>18, <1>19, <1>20
  DEF Next, Command, CommandEnd, Produce, Consume

(* A producer has a buffer in the step that fills it and in no other, the  *)
(* consumer one while it has a result.                                     *)
PlaceInv ==
  /\ \A h \in Halves : IF producer[h].pc = "push"
                       THEN producer[h].dest \in Buffers
                       ELSE producer[h].dest = NoBuffer
  /\ IF consumer.pc \in {"process", "send", "free"}
     THEN consumer.item \in SwtpgOutput
     ELSE consumer.item = NoItem

(* Where run control is while the threads work.                            *)
CommandInv ==
  /\ command \notin {"running", "stopping"} =>
       \A h \in Halves : producer[h].pc = "idle"
  /\ command = "initial" => consumer.pc = "none"
  /\ consumer.pc # "none" => m_sw_tpg_enabled
  /\ tasks => m_sw_tpg_enabled

LEMMA KeepsDataTypes ==
  ASSUME DataTypes, PlaceInv, [Next]_vars
  PROVE  DataTypes'
<1> USE DEF commandVars, handlerVars, halfVars, bufferVars, DataTypes
<1>1. ASSUME NEW enable \in EnableChoices, NEW algorithm \in Algorithms,
             Conf(enable, algorithm)
      PROVE  DataTypes'
  <2>1. NewHandler = [exists |-> TRUE, run_number |-> InvalidRun,
                      origins |-> {}, recent |-> {}]
    BY DEF NewHandler
  <2>2. InvalidRun \in AllRuns
    BY PipelineAssumption DEF AllRuns, InvalidRun
  <2>3. m_tphandler' \in [exists : BOOLEAN, run_number : AllRuns,
                         origins : SUBSET AllRuns, recent : SUBSET AllRuns]
    BY <1>1, <2>1, <2>2 DEF Conf
  <2>4. m_dest_queue' \in SUBSET Buffers /\ allocated' \in SUBSET Buffers
    BY <1>1 DEF Conf, kSubset
  <2>5. consumer' \in [pc : {"none", "outer", "inner", "process", "send",
                            "free", "exited"},
                      item : SwtpgOutput \cup {NoItem}]
    BY <1>1 DEF Conf
  <2>6. confs' \in 0 .. MaxConfs
    BY <1>1, PipelineAssumption DEF Conf
  <2>7. m_tpg_algorithm' \in {"SWTPG", "AbsRS", "other"}
    BY <1>1, PipelineAssumption DEF Conf
  <2> QED
    BY <1>1, <2>1, <2>2, <2>3, <2>4, <2>5, <2>6, <2>7 DEF Conf
<1>2. CASE ConfThrows
  BY <1>2, PipelineAssumption DEF ConfThrows, kSubset
<1>3. CASE StartSetRunNumber
  <2>1. run + 1 \in AllRuns
    BY <1>3, PipelineAssumption DEF StartSetRunNumber, AllRuns
  <2>2. m_tphandler' \in [exists : BOOLEAN, run_number : AllRuns,
                         origins : SUBSET AllRuns, recent : SUBSET AllRuns]
    BY <1>3, <2>1 DEF StartSetRunNumber
  <2>3. run' \in AllRuns
    BY <1>3, <2>1 DEF StartSetRunNumber
  <2> QED
    BY <1>3, <2>1, <2>2, <2>3 DEF StartSetRunNumber
<1>4. CASE StartReset
  <2>1. InvalidRun \in AllRuns
    BY PipelineAssumption DEF AllRuns, InvalidRun
  <2>2. m_tphandler' \in [exists : BOOLEAN, run_number : AllRuns,
                         origins : SUBSET AllRuns, recent : SUBSET AllRuns]
    BY <1>4 DEF StartReset
  <2>3. seeded' \in [Halves -> AllRuns]
    BY <1>4, <2>1 DEF StartReset
  <2> QED
    BY <1>4, <2>1, <2>2, <2>3 DEF StartReset
<1>5. CASE Stop
  BY <1>5 DEF Stop
<1>6. CASE StopDone
  BY <1>6 DEF StopDone
<1>7. CASE Scrap
  BY <1>7 DEF Scrap
<1>8. CASE ScrapDone
  <2>1. m_tphandler' \in [exists : BOOLEAN, run_number : AllRuns,
                         origins : SUBSET AllRuns, recent : SUBSET AllRuns]
    BY <1>8, PipelineAssumption DEF ScrapDone, NoHandler, AllRuns, InvalidRun
  <2>2. consumer' \in [pc : {"none", "outer", "inner", "process", "send",
                            "free", "exited"},
                      item : SwtpgOutput \cup {NoItem}]
    BY <1>8 DEF ScrapDone
  <2>3. deleted' \in SUBSET Buffers /\ m_dest_queue' \in SUBSET Buffers
    BY <1>8 DEF ScrapDone
  <2> QED
    BY <1>8, <2>1, <2>2, <2>3 DEF ScrapDone
<1>9. ASSUME NEW h \in Halves, TakeSuperchunk(h) PROVE DataTypes'
  BY <1>9 DEF TakeSuperchunk
<1>10. ASSUME NEW h \in Halves, GetPrimfindDest(h) PROVE DataTypes'
  BY <1>10 DEF GetPrimfindDest
<1>11. ASSUME NEW h \in Halves, UnknownAlgorithm(h) PROVE DataTypes'
  BY <1>11 DEF UnknownAlgorithm
<1>12. ASSUME NEW h \in Halves, PushHits(h) PROVE DataTypes'
  <2>1. producer[h].dest \in Buffers
    BY <1>12 DEF PushHits, PlaceInv
  <2>2. [output_location |-> producer[h].dest, origin |-> run] \in SwtpgOutput
    BY <1>12, <2>1 DEF PushHits, SwtpgOutput
  <2>3. m_tphandler_queue' \in Seq(SwtpgOutput)
    BY <1>12, <2>2 DEF PushHits
  <2>4. producer' \in [Halves -> [pc : {"idle", "waitDest", "push"},
                                 dest : Buffers \cup {NoBuffer}]]
    BY <1>12 DEF PushHits, Idle
  <2> QED
    BY <1>12, <2>1, <2>2, <2>3, <2>4 DEF PushHits
<1>13. ASSUME NEW h \in Halves, DropHits(h) PROVE DataTypes'
  <2>1. producer[h].dest \in Buffers
    BY <1>13 DEF DropHits, PlaceInv
  <2>2. producer' \in [Halves -> [pc : {"idle", "waitDest", "push"},
                                 dest : Buffers \cup {NoBuffer}]]
    BY <1>13 DEF DropHits, Idle
  <2>3. leaked' \in SUBSET Buffers
    BY <1>13, <2>1 DEF DropHits
  <2> QED
    BY <1>13, <2>1, <2>2, <2>3 DEF DropHits
<1>14. CASE OuterLoop
  BY <1>14 DEF OuterLoop
<1>15. CASE PopHits
  BY <1>15 DEF PopHits
<1>16. CASE NoMoreHits
  BY <1>16 DEF NoMoreHits
<1>17. CASE ProcessHits
  <2>1. consumer.item \in SwtpgOutput
    BY <1>17 DEF ProcessHits, PlaceInv
  <2>2. consumer.item.origin \in AllRuns
    BY <2>1 DEF SwtpgOutput
  <2>3. m_tphandler' \in [exists : BOOLEAN, run_number : AllRuns,
                         origins : SUBSET AllRuns, recent : SUBSET AllRuns]
    BY SMTT(30), <1>17, <2>2 DEF ProcessHits
  <2>4. consumer' \in [pc : {"none", "outer", "inner", "process", "send",
                            "free", "exited"},
                      item : SwtpgOutput \cup {NoItem}]
    BY <1>17 DEF ProcessHits
  <2> QED
    BY <1>17, <2>1, <2>2, <2>3, <2>4 DEF ProcessHits
<1>18. CASE SendTPSet
  <2>1. m_tphandler' \in [exists : BOOLEAN, run_number : AllRuns,
                         origins : SUBSET AllRuns, recent : SUBSET AllRuns]
    <3>1. PICK gone \in SUBSET m_tphandler.origins :
            m_tphandler' = [m_tphandler EXCEPT
              !.origins = (@ \ gone) \cup m_tphandler.recent, !.recent = {}]
      BY <1>18 DEF SendTPSet
    <3>2. (m_tphandler.origins \ gone) \cup m_tphandler.recent \in SUBSET AllRuns
      OBVIOUS
    <3> QED
      BY <3>1, <3>2
  <2>2. consumer' \in [pc : {"none", "outer", "inner", "process", "send",
                            "free", "exited"},
                      item : SwtpgOutput \cup {NoItem}]
    BY <1>18 DEF SendTPSet
  <2>3. sent' \in SUBSET (AllRuns \X AllRuns)
    BY <1>18 DEF SendTPSet
  <2> QED
    BY <1>18, <2>1, <2>2, <2>3 DEF SendTPSet
<1>19. CASE FreePrimfindDest
  <2>1. consumer.item.output_location \in Buffers
    BY <1>19 DEF FreePrimfindDest, PlaceInv, SwtpgOutput
  <2>2. consumer' \in [pc : {"none", "outer", "inner", "process", "send",
                            "free", "exited"},
                      item : SwtpgOutput \cup {NoItem}]
    BY <1>19 DEF FreePrimfindDest
  <2>3. m_dest_queue' \in SUBSET Buffers
    BY <1>19, <2>1 DEF FreePrimfindDest
  <2> QED
    BY <1>19, <2>1, <2>2, <2>3 DEF FreePrimfindDest
<1>20. CASE UNCHANGED vars
  BY <1>20 DEF vars
<1> QED
  BY <1>1, <1>2, <1>3, <1>4, <1>5, <1>6, <1>7, <1>8, <1>9, <1>10, <1>11, <1>12,
     <1>13, <1>14, <1>15, <1>16, <1>17, <1>18, <1>19, <1>20
  DEF Next, Command, CommandEnd, Produce, Consume

LEMMA KeepsPlaceInv ==
  ASSUME DataTypes, PlaceInv, CommandInv, [Next]_vars
  PROVE  PlaceInv'
<1> USE DEF commandVars, handlerVars, halfVars, bufferVars, DataTypes, PlaceInv
<1>1. ASSUME NEW enable \in EnableChoices, NEW algorithm \in Algorithms,
             Conf(enable, algorithm)
      PROVE  PlaceInv'
  BY <1>1 DEF Conf, CommandInv
<1>2. CASE ConfThrows
  BY <1>2 DEF ConfThrows, kSubset
<1>3. CASE StartSetRunNumber
  BY <1>3 DEF StartSetRunNumber
<1>4. CASE StartReset
  BY <1>4 DEF StartReset
<1>5. CASE Stop
  BY <1>5 DEF Stop
<1>6. CASE StopDone
  BY <1>6 DEF StopDone
<1>7. CASE Scrap
  BY <1>7 DEF Scrap
<1>8. CASE ScrapDone
  BY <1>8 DEF ScrapDone
<1>9. ASSUME NEW h \in Halves, TakeSuperchunk(h) PROVE PlaceInv'
  BY <1>9 DEF TakeSuperchunk
<1>10. ASSUME NEW h \in Halves, GetPrimfindDest(h) PROVE PlaceInv'
  BY <1>10 DEF GetPrimfindDest
<1>11. ASSUME NEW h \in Halves, UnknownAlgorithm(h) PROVE PlaceInv'
  BY <1>11 DEF UnknownAlgorithm
<1>12. ASSUME NEW h \in Halves, PushHits(h) PROVE PlaceInv'
  BY <1>12 DEF PushHits, Idle
<1>13. ASSUME NEW h \in Halves, DropHits(h) PROVE PlaceInv'
  BY <1>13 DEF DropHits, Idle
<1>14. CASE OuterLoop
  BY <1>14 DEF OuterLoop
<1>15. CASE PopHits
  BY <1>15 DEF PopHits
<1>16. CASE NoMoreHits
  BY <1>16 DEF NoMoreHits
<1>17. CASE ProcessHits
  BY <1>17 DEF ProcessHits
<1>18. CASE SendTPSet
  BY <1>18 DEF SendTPSet
<1>19. CASE FreePrimfindDest
  BY <1>19 DEF FreePrimfindDest
<1>20. CASE UNCHANGED vars
  BY <1>20 DEF vars
<1> QED
  BY <1>1, <1>2, <1>3, <1>4, <1>5, <1>6, <1>7, <1>8, <1>9, <1>10, <1>11, <1>12,
     <1>13, <1>14, <1>15, <1>16, <1>17, <1>18, <1>19, <1>20
  DEF Next, Command, CommandEnd, Produce, Consume

LEMMA KeepsCommandInv ==
  ASSUME DataTypes, CommandInv, [Next]_vars
  PROVE  CommandInv'
<1> USE DEF commandVars, handlerVars, halfVars, bufferVars, DataTypes, CommandInv
<1>1. ASSUME NEW enable \in EnableChoices, NEW algorithm \in Algorithms,
             Conf(enable, algorithm)
      PROVE  CommandInv'
  BY <1>1 DEF Conf
<1>2. CASE ConfThrows
  BY <1>2 DEF ConfThrows, kSubset
<1>3. CASE StartSetRunNumber
  BY <1>3 DEF StartSetRunNumber
<1>4. CASE StartReset
  BY <1>4 DEF StartReset
<1>5. CASE Stop
  BY <1>5 DEF Stop
<1>6. CASE StopDone
  BY <1>6 DEF StopDone
<1>7. CASE Scrap
  BY <1>7 DEF Scrap
<1>8. CASE ScrapDone
  BY <1>8 DEF ScrapDone
<1>9. ASSUME NEW h \in Halves, TakeSuperchunk(h) PROVE CommandInv'
  BY <1>9 DEF TakeSuperchunk
<1>10. ASSUME NEW h \in Halves, GetPrimfindDest(h) PROVE CommandInv'
  BY <1>10 DEF GetPrimfindDest
<1>11. ASSUME NEW h \in Halves, UnknownAlgorithm(h) PROVE CommandInv'
  BY <1>11 DEF UnknownAlgorithm
<1>12. ASSUME NEW h \in Halves, PushHits(h) PROVE CommandInv'
  BY <1>12 DEF PushHits, Idle
<1>13. ASSUME NEW h \in Halves, DropHits(h) PROVE CommandInv'
  BY <1>13 DEF DropHits, Idle
<1>14. CASE OuterLoop
  BY <1>14 DEF OuterLoop
<1>15. CASE PopHits
  BY <1>15 DEF PopHits
<1>16. CASE NoMoreHits
  BY <1>16 DEF NoMoreHits
<1>17. CASE ProcessHits
  BY <1>17 DEF ProcessHits
<1>18. CASE SendTPSet
  BY <1>18 DEF SendTPSet
<1>19. CASE FreePrimfindDest
  BY <1>19 DEF FreePrimfindDest
<1>20. CASE UNCHANGED vars
  BY <1>20 DEF vars
<1> QED
  BY <1>1, <1>2, <1>3, <1>4, <1>5, <1>6, <1>7, <1>8, <1>9, <1>10, <1>11, <1>12,
     <1>13, <1>14, <1>15, <1>16, <1>17, <1>18, <1>19, <1>20
  DEF Next, Command, CommandEnd, Produce, Consume

(* The buffers that conf made are all somewhere, and there are no others.  *)
KnownBuffers ==
  m_dest_queue \cup Held \cup Queued \cup Consumed \cup deleted \cup leaked
    = allocated

BufferInv == ExclusiveBuffers /\ NoDanglingBuffers /\ KnownBuffers

PInv == TypeOK /\ PlaceInv /\ CommandInv /\ BufferInv

LEMMA InitPInv == Init => PInv
<1> SUFFICES ASSUME Init PROVE PInv
  OBVIOUS
<1>1. TypeOK
  BY InitTypes
<1>2. PlaceInv /\ CommandInv
  BY DEF Init, Idle, PlaceInv, CommandInv
<1>3. Held = {} /\ Queued = {} /\ Consumed = {}
  BY DEF Init, Idle, NoItem, Held, Queued, Consumed
<1>4. BufferInv
  BY <1>3
  DEF Init, Idle, BufferInv, ExclusiveBuffers, SeparateHalves,
      SeparateResults, SeparatePlaces, NoDanglingBuffers, KnownBuffers
<1> QED
  BY <1>1, <1>2, <1>4 DEF PInv

(* A step that moves no buffer.                                            *)
LEMMA QuietStep ==
  ASSUME BufferInv,
         \A h \in Halves : producer'[h].dest = producer[h].dest,
         consumer'.item = consumer.item,
         UNCHANGED <<m_tphandler_queue, m_dest_queue, allocated, deleted, leaked>>
  PROVE  BufferInv'
<1>1. Held' = Held /\ Queued' = Queued /\ Consumed' = Consumed
  BY DEF Held, Queued, Consumed
<1> QED
  BY <1>1
  DEF BufferInv, ExclusiveBuffers, SeparateHalves, SeparateResults,
      SeparatePlaces, NoDanglingBuffers, KnownBuffers

(* A fresh buffer is in no place yet.                                      *)
LEMMA ConfBuffers ==
  ASSUME BufferInv, NEW enable, NEW algorithm, Conf(enable, algorithm)
  PROVE  BufferInv'
<1> USE DEF Conf, halfVars
<1>1. PICK dests \in SUBSET (Buffers \ allocated) :
        m_dest_queue' = dests /\ allocated' = allocated \cup dests
  BY DEF kSubset
<1>2. consumer'.item = consumer.item
  OBVIOUS
<1>3. Held' = Held /\ Queued' = Queued /\ Consumed' = Consumed
  BY <1>2 DEF Held, Queued, Consumed
<1>4. SeparateHalves' /\ SeparateResults'
  BY DEF BufferInv, ExclusiveBuffers, SeparateHalves, SeparateResults
<1>5. SeparatePlaces' /\ NoDanglingBuffers' /\ KnownBuffers'
  BY <1>1, <1>3
  DEF BufferInv, ExclusiveBuffers, SeparatePlaces, NoDanglingBuffers, KnownBuffers
<1> QED
  BY <1>4, <1>5 DEF BufferInv, ExclusiveBuffers

LEMMA ConfThrowsBuffers == ASSUME BufferInv, ConfThrows PROVE BufferInv'
<1> USE DEF ConfThrows, halfVars
<1>1. PICK dests \in SUBSET (Buffers \ allocated), lost \in Buffers :
        /\ lost \in dests
        /\ m_dest_queue' = m_dest_queue \cup (dests \ {lost})
        /\ allocated' = allocated \cup dests
        /\ leaked' = leaked \cup {lost}
  BY DEF kSubset
<1>2. Held' = Held /\ Queued' = Queued /\ Consumed' = Consumed
  BY DEF Held, Queued, Consumed
<1>3. SeparateHalves' /\ SeparateResults'
  BY DEF BufferInv, ExclusiveBuffers, SeparateHalves, SeparateResults
<1>4. SeparatePlaces' /\ NoDanglingBuffers' /\ KnownBuffers'
  BY <1>1, <1>2
  DEF BufferInv, ExclusiveBuffers, SeparatePlaces, NoDanglingBuffers, KnownBuffers
<1> QED
  BY <1>3, <1>4 DEF BufferInv, ExclusiveBuffers

(* The buffers that are deleted were free.                                 *)
LEMMA ScrapBuffers == ASSUME BufferInv, ScrapDone PROVE BufferInv'
<1> USE DEF ScrapDone, halfVars
<1>1. consumer'.item = consumer.item
  OBVIOUS
<1>2. Held' = Held /\ Queued' = Queued /\ Consumed' = Consumed
  BY <1>1 DEF Held, Queued, Consumed
<1>3. SeparateHalves' /\ SeparateResults'
  BY DEF BufferInv, ExclusiveBuffers, SeparateHalves, SeparateResults
<1>4. SeparatePlaces' /\ NoDanglingBuffers' /\ KnownBuffers'
  BY <1>2
  DEF BufferInv, ExclusiveBuffers, SeparatePlaces, NoDanglingBuffers, KnownBuffers
<1> QED
  BY <1>3, <1>4 DEF BufferInv, ExclusiveBuffers

(* A producer takes a free buffer.                                         *)
LEMMA GetMoves ==
  ASSUME DataTypes, PlaceInv, BufferInv, NEW h \in Halves, GetPrimfindDest(h)
  PROVE  \E dest \in m_dest_queue :
           /\ dest # NoBuffer
           /\ producer[h].dest = NoBuffer
           /\ producer'[h].dest = dest
           /\ \A g \in Halves \ {h} : producer'[g].dest = producer[g].dest
           /\ m_dest_queue' = m_dest_queue \ {dest}
           /\ Held' = Held \cup {dest} /\ Queued' = Queued
           /\ Consumed' = Consumed
<1> USE DEF GetPrimfindDest
<1>1. PICK dest \in m_dest_queue :
        /\ m_dest_queue' = m_dest_queue \ {dest}
        /\ producer' = [producer EXCEPT ![h] = [pc |-> "push", dest |-> dest]]
  OBVIOUS
<1>2. dest \in Buffers /\ dest # NoBuffer
  BY PipelineAssumption DEF DataTypes
<1>3. /\ producer[h].dest = NoBuffer
      /\ producer'[h].dest = dest
      /\ \A g \in Halves \ {h} : producer'[g].dest = producer[g].dest
  BY <1>1 DEF PlaceInv, DataTypes
<1>4. Held' = Held \cup {dest} /\ Queued' = Queued /\ Consumed' = Consumed
  BY <1>2, <1>3 DEF Held, Queued, Consumed
<1> QED
  BY <1>1, <1>2, <1>3, <1>4

LEMMA GetBuffers ==
  ASSUME DataTypes, PlaceInv, BufferInv, NEW h \in Halves, GetPrimfindDest(h)
  PROVE  BufferInv'
<1>1. PICK dest \in m_dest_queue :
        /\ dest # NoBuffer
        /\ producer[h].dest = NoBuffer
        /\ producer'[h].dest = dest
        /\ \A g \in Halves \ {h} : producer'[g].dest = producer[g].dest
        /\ m_dest_queue' = m_dest_queue \ {dest}
        /\ Held' = Held \cup {dest} /\ Queued' = Queued
        /\ Consumed' = Consumed
  BY GetMoves
<1> USE DEF GetPrimfindDest
<1>2. dest \notin Held \cup Queued \cup Consumed
  BY DEF BufferInv, ExclusiveBuffers, SeparatePlaces
<1>3. \A g \in Halves \ {h} : producer'[g].dest # dest
  BY <1>1, <1>2 DEF Held
<1>4. SeparateHalves'
  BY <1>1, <1>3 DEF BufferInv, ExclusiveBuffers, SeparateHalves
<1>5. SeparateResults'
  BY DEF BufferInv, ExclusiveBuffers, SeparateResults
<1>6. SeparatePlaces' /\ NoDanglingBuffers' /\ KnownBuffers'
  BY <1>1, <1>2
  DEF BufferInv, ExclusiveBuffers, SeparatePlaces, NoDanglingBuffers,
      KnownBuffers, bufferVars
<1> QED
  BY <1>4, <1>5, <1>6 DEF BufferInv, ExclusiveBuffers

(* A producer that lets go of its buffer was its only holder.              *)
LEMMA LetGo ==
  ASSUME DataTypes, PlaceInv, BufferInv, NEW h \in Halves,
         producer[h].pc = "push",
         producer' = [producer EXCEPT ![h] = Idle]
  PROVE  /\ producer[h].dest \in Buffers
         /\ producer[h].dest \in Held
         /\ Held' = Held \ {producer[h].dest}
         /\ SeparateHalves'
<1>1. producer[h].dest \in Buffers /\ producer[h].dest # NoBuffer
  BY PipelineAssumption DEF PlaceInv
<1>2. /\ producer'[h].dest = NoBuffer
      /\ \A g \in Halves \ {h} : producer'[g].dest = producer[g].dest
  BY DEF Idle, DataTypes
<1>3. \A g \in Halves \ {h} : producer[g].dest # producer[h].dest
  BY <1>1 DEF BufferInv, ExclusiveBuffers, SeparateHalves
<1>4. Held' = Held \ {producer[h].dest}
  BY <1>1, <1>2, <1>3 DEF Held
<1>5. SeparateHalves'
  BY <1>2 DEF BufferInv, ExclusiveBuffers, SeparateHalves
<1> QED
  BY <1>1, <1>4, <1>5 DEF Held

(* A result goes into the hit queue.                                       *)
LEMMA PushMoves ==
  ASSUME DataTypes, PlaceInv, BufferInv, NEW h \in Halves, PushHits(h)
  PROVE  /\ producer[h].dest \in Held
         /\ Held' = Held \ {producer[h].dest}
         /\ SeparateHalves'
         /\ Queued' = Queued \cup {producer[h].dest}
         /\ Consumed' = Consumed
         /\ SeparateResults'
<1> DEFINE dest == producer[h].dest
           hits == [output_location |-> dest, origin |-> run]
<1> USE DEF PushHits
<1>1. /\ dest \in Held /\ Held' = Held \ {dest} /\ SeparateHalves'
  BY LetGo
<1>2. /\ m_tphandler_queue \in Seq(SwtpgOutput)
      /\ m_tphandler_queue' = Append(m_tphandler_queue, hits)
      /\ Len(m_tphandler_queue) \in Nat
  BY DEF DataTypes
<1>3. /\ DOMAIN m_tphandler_queue = 1 .. Len(m_tphandler_queue)
      /\ DOMAIN m_tphandler_queue' = 1 .. Len(m_tphandler_queue) + 1
      /\ m_tphandler_queue'[Len(m_tphandler_queue) + 1] = hits
      /\ \A i \in DOMAIN m_tphandler_queue :
           m_tphandler_queue'[i] = m_tphandler_queue[i]
  BY <1>2
<1>4. hits.output_location = dest
  OBVIOUS
<1>5. Queued' = Queued \cup {dest}
  BY <1>2, <1>3, <1>4 DEF Queued
<1>6. SeparateResults'
  <2>1. \A i \in DOMAIN m_tphandler_queue :
          m_tphandler_queue[i].output_location # dest
    BY <1>1 DEF Queued, BufferInv, ExclusiveBuffers, SeparatePlaces
  <2> QED
    BY <1>2, <1>3, <1>4, <2>1
    DEF BufferInv, ExclusiveBuffers, SeparateResults
<1>7. Consumed' = Consumed
  BY DEF Consumed
<1> QED
  BY <1>1, <1>5, <1>6, <1>7

LEMMA PushBuffers ==
  ASSUME DataTypes, PlaceInv, BufferInv, NEW h \in Halves, PushHits(h)
  PROVE  BufferInv'
<1>d. PICK dest : /\ dest = producer[h].dest /\ dest \in Held
                  /\ Held' = Held \ {dest} /\ Queued' = Queued \cup {dest}
                  /\ Consumed' = Consumed
  BY PushMoves
<1>q. UNCHANGED <<m_dest_queue, allocated, deleted, leaked>>
  BY DEF PushHits, bufferVars
<1>1. SeparatePlaces'
  BY <1>d, <1>q DEF BufferInv, ExclusiveBuffers, SeparatePlaces
<1>2. (Held \cup Queued)' = Held \cup Queued
  BY <1>d
<1>3. NoDanglingBuffers' /\ KnownBuffers'
  BY <1>d, <1>q, <1>2 DEF BufferInv, NoDanglingBuffers, KnownBuffers
<1>4. SeparateHalves' /\ SeparateResults'
  BY PushMoves
<1> QED
  BY <1>1, <1>3, <1>4 DEF BufferInv, ExclusiveBuffers

LEMMA DropBuffers ==
  ASSUME DataTypes, PlaceInv, BufferInv, NEW h \in Halves, DropHits(h)
  PROVE  BufferInv'
<1> DEFINE dest == producer[h].dest
<1> USE DEF DropHits
<1>1. /\ dest \in Held /\ Held' = Held \ {dest} /\ SeparateHalves'
  BY LetGo
<1>2. Queued' = Queued /\ Consumed' = Consumed
  BY DEF Queued, Consumed
<1>3. dest \notin Queued \cup Consumed \cup m_dest_queue
  BY <1>1 DEF BufferInv, ExclusiveBuffers, SeparatePlaces
<1>4. SeparateResults'
  BY DEF BufferInv, ExclusiveBuffers, SeparateResults
<1>5. SeparatePlaces' /\ NoDanglingBuffers' /\ KnownBuffers'
  BY <1>1, <1>2, <1>3
  DEF BufferInv, ExclusiveBuffers, SeparatePlaces, NoDanglingBuffers,
      KnownBuffers
<1> QED
  BY <1>1, <1>4, <1>5 DEF BufferInv, ExclusiveBuffers

(* The consumer takes the oldest result.                                   *)
LEMMA PopMoves ==
  ASSUME DataTypes, PlaceInv, BufferInv, PopHits
  PROVE  \E dest \in Queued :
           /\ Queued' = Queued \ {dest}
           /\ Consumed = {} /\ Consumed' = {dest}
           /\ Held' = Held
           /\ SeparateResults'
<1> DEFINE dest == Head(m_tphandler_queue).output_location
<1> USE DEF PopHits
<1>1. /\ m_tphandler_queue \in Seq(SwtpgOutput) /\ m_tphandler_queue # <<>>
      /\ Len(m_tphandler_queue) \in Nat
      /\ Len(m_tphandler_queue) # 0
      /\ m_tphandler_queue' = Tail(m_tphandler_queue)
  BY DEF DataTypes
<1>2. /\ DOMAIN m_tphandler_queue = 1 .. Len(m_tphandler_queue)
      /\ DOMAIN m_tphandler_queue' = 1 .. Len(m_tphandler_queue) - 1
      /\ Head(m_tphandler_queue) = m_tphandler_queue[1]
      /\ \A i \in DOMAIN m_tphandler_queue' :
           m_tphandler_queue'[i] = m_tphandler_queue[i + 1]
  BY <1>1
<1>3. dest \in Buffers /\ dest # NoBuffer
  <2>1. Head(m_tphandler_queue) \in SwtpgOutput
    BY <1>1
  <2> QED
    BY <2>1, PipelineAssumption DEF SwtpgOutput
<1>4. dest \in Queued
  BY <1>1, <1>2 DEF Queued
<1>5. Queued' = Queued \ {dest}
  <2>1. \A i \in DOMAIN m_tphandler_queue \ {1} :
          m_tphandler_queue[i].output_location # dest
    BY <1>1, <1>2 DEF BufferInv, ExclusiveBuffers, SeparateResults
  <2>2. \A i \in DOMAIN m_tphandler_queue \ {1} :
          /\ i - 1 \in DOMAIN m_tphandler_queue'
          /\ m_tphandler_queue'[i - 1] = m_tphandler_queue[i]
    BY <1>1, <1>2
  <2>3. \A i \in DOMAIN m_tphandler_queue' :
          i + 1 \in DOMAIN m_tphandler_queue \ {1}
    BY <1>1, <1>2
  <2>4. Queued = {m_tphandler_queue[i].output_location :
                    i \in DOMAIN m_tphandler_queue \ {1}} \cup {dest}
    BY <1>1, <1>2 DEF Queued
  <2>5. Queued' = {m_tphandler_queue[i].output_location :
                     i \in DOMAIN m_tphandler_queue \ {1}}
    BY <1>2, <2>2, <2>3 DEF Queued
  <2> QED
    BY <2>1, <2>4, <2>5
<1>6. Consumed = {} /\ Consumed' = {dest}
  BY <1>3 DEF Consumed, PlaceInv, NoItem
<1>7. Held' = Held
  BY DEF Held, halfVars
<1>8. SeparateResults'
  BY <1>1, <1>2 DEF BufferInv, ExclusiveBuffers, SeparateResults
<1> QED
  BY <1>4, <1>5, <1>6, <1>7, <1>8

LEMMA PopBuffers ==
  ASSUME DataTypes, PlaceInv, BufferInv, PopHits
  PROVE  BufferInv'
<1>1. PICK dest \in Queued :
        /\ Queued' = Queued \ {dest}
        /\ Consumed = {} /\ Consumed' = {dest}
        /\ Held' = Held
        /\ SeparateResults'
  BY PopMoves
<1>2. SeparateHalves'
  BY DEF BufferInv, ExclusiveBuffers, SeparateHalves, PopHits, halfVars
<1>3. SeparatePlaces' /\ NoDanglingBuffers' /\ KnownBuffers'
  BY <1>1
  DEF BufferInv, ExclusiveBuffers, SeparatePlaces, NoDanglingBuffers,
      KnownBuffers, PopHits, bufferVars
<1> QED
  BY <1>1, <1>2, <1>3 DEF BufferInv, ExclusiveBuffers

LEMMA FreeBuffers ==
  ASSUME DataTypes, PlaceInv, BufferInv, FreePrimfindDest
  PROVE  BufferInv'
<1> DEFINE dest == consumer.item.output_location
<1> USE DEF FreePrimfindDest
<1>1. dest \in Buffers /\ dest # NoBuffer
  BY PipelineAssumption DEF PlaceInv, SwtpgOutput
<1>2. Consumed = {dest}
  BY <1>1 DEF Consumed
<1>3. Held' = Held /\ Queued' = Queued
  BY DEF Held, Queued, halfVars
<1>4. SeparateHalves' /\ SeparateResults'
  BY DEF BufferInv, ExclusiveBuffers, SeparateHalves, SeparateResults, halfVars
<1>5. CASE Cardinality(m_dest_queue) < DestCapacity
  <2>1. Consumed' = {} /\ m_dest_queue' = m_dest_queue \cup {dest}
    BY <1>5 DEF Consumed, NoItem
  <2>2. SeparatePlaces' /\ NoDanglingBuffers' /\ KnownBuffers'
    BY <1>2, <1>3, <2>1
    DEF BufferInv, ExclusiveBuffers, SeparatePlaces, NoDanglingBuffers,
        KnownBuffers, bufferVars
  <2> QED
    BY <1>4, <2>2 DEF BufferInv, ExclusiveBuffers
<1>6. CASE ~(Cardinality(m_dest_queue) < DestCapacity)
  BY <1>6, QuietStep DEF halfVars, bufferVars
<1> QED
  BY <1>5, <1>6

(* The buffers stay apart in every step.                                   *)
LEMMA KeepsBufferInv ==
  ASSUME DataTypes, PlaceInv, BufferInv, [Next]_vars
  PROVE  BufferInv'
<1> USE DEF commandVars, handlerVars, halfVars, bufferVars
<1>1. ASSUME NEW enable \in EnableChoices, NEW algorithm \in Algorithms,
             Conf(enable, algorithm)
      PROVE  BufferInv'
  BY <1>1, ConfBuffers
<1>2. CASE ConfThrows
  BY <1>2, ConfThrowsBuffers
<1>3. CASE StartSetRunNumber
  BY <1>3, QuietStep DEF StartSetRunNumber
<1>4. CASE StartReset
  BY <1>4, QuietStep DEF StartReset
<1>5. CASE Stop
  BY <1>5, QuietStep DEF Stop
<1>6. CASE StopDone
  BY <1>6, QuietStep DEF StopDone
<1>7. CASE Scrap
  BY <1>7, QuietStep DEF Scrap
<1>8. CASE ScrapDone
  BY <1>8, ScrapBuffers
<1>9. ASSUME NEW h \in Halves, TakeSuperchunk(h) PROVE BufferInv'
  <2>1. \A g \in Halves : producer'[g].dest = producer[g].dest
    BY <1>9 DEF TakeSuperchunk, DataTypes
  <2> QED
    BY <1>9, <2>1, QuietStep DEF TakeSuperchunk
<1>10. ASSUME NEW h \in Halves, GetPrimfindDest(h) PROVE BufferInv'
  BY <1>10, GetBuffers
<1>11. ASSUME NEW h \in Halves, UnknownAlgorithm(h) PROVE BufferInv'
  BY <1>11, QuietStep DEF UnknownAlgorithm
<1>12. ASSUME NEW h \in Halves, PushHits(h) PROVE BufferInv'
  BY <1>12, PushBuffers
<1>13. ASSUME NEW h \in Halves, DropHits(h) PROVE BufferInv'
  BY <1>13, DropBuffers
<1>14. CASE OuterLoop
  BY <1>14, QuietStep DEF OuterLoop
<1>15. CASE PopHits
  BY <1>15, PopBuffers
<1>16. CASE NoMoreHits
  BY <1>16, QuietStep DEF NoMoreHits
<1>17. CASE ProcessHits
  BY <1>17, QuietStep DEF ProcessHits
<1>18. CASE SendTPSet
  BY <1>18, QuietStep DEF SendTPSet
<1>19. CASE FreePrimfindDest
  BY <1>19, FreeBuffers
<1>20. CASE UNCHANGED vars
  BY <1>20, QuietStep DEF vars
<1> QED
  BY <1>1, <1>2, <1>3, <1>4, <1>5, <1>6, <1>7, <1>8, <1>9, <1>10, <1>11, <1>12,
     <1>13, <1>14, <1>15, <1>16, <1>17, <1>18, <1>19, <1>20
  DEF Next, Command, CommandEnd, Produce, Consume

LEMMA KeepsPInv == PInv /\ [Next]_vars => PInv'
  BY KeepsFlagTypes, KeepsDataTypes, KeepsPlaceInv, KeepsCommandInv,
     KeepsBufferInv DEF PInv, TypeOK

LEMMA Invariant == Spec => []PInv
  BY InitPInv, KeepsPInv, PTL DEF Spec

(* Every variable keeps to its type.                                       *)
THEOREM TypeCorrect == Spec => []TypeOK
  BY Invariant, PTL DEF PInv

(* No buffer is ever in two places, whatever the capacities, the number of *)
(* halves, and the configurations run control goes through.                *)
THEOREM ExclusiveBuffersTheorem == Spec => []ExclusiveBuffers
  BY Invariant, PTL DEF PInv, BufferInv

(* No buffer is used after scrap deleted it or its last pointer was        *)
(* dropped.                                                                *)
THEOREM NoDanglingBuffersTheorem == Spec => []NoDanglingBuffers
  BY Invariant, PTL DEF PInv, BufferInv

----------------------------------------------------------------------------
(* The pedestals.  Between runs each half waits for the first superchunk,  *)
(* in a run it waits for it or has it.                                     *)
SeedInv ==
  \A h \in Halves :
    /\ command \notin {"running", "stopping"} \/ ~m_sw_tpg_enabled => first_hit[h]
    /\ command \in {"running", "stopping"} => first_hit[h] \/ seeded[h] = run
    /\ producer[h].pc # "idle" => seeded[h] = run

LEMMA KeepsSeedInv ==
  ASSUME DataTypes, CommandInv, SeedInv, [Next]_vars
  PROVE  SeedInv'
<1> USE DEF commandVars, handlerVars, halfVars, bufferVars, DataTypes, SeedInv
<1>1. ASSUME NEW enable \in EnableChoices, NEW algorithm \in Algorithms,
             Conf(enable, algorithm)
      PROVE  SeedInv'
  BY <1>1 DEF Conf, kSubset, NewHandler, NoHandler
<1>2. CASE ConfThrows
  BY <1>2 DEF ConfThrows, kSubset
<1>3. CASE StartSetRunNumber
  BY <1>3 DEF StartSetRunNumber, CommandInv
<1>4. CASE StartReset
  BY <1>4 DEF StartReset, CommandInv
<1>5. CASE Stop
  BY <1>5 DEF Stop
<1>6. CASE StopDone
  BY <1>6 DEF StopDone
<1>7. CASE Scrap
  BY <1>7 DEF Scrap
<1>8. CASE ScrapDone
  BY <1>8 DEF ScrapDone
<1>9. ASSUME NEW h \in Halves, TakeSuperchunk(h) PROVE SeedInv'
  BY <1>9 DEF TakeSuperchunk, CommandInv
<1>10. ASSUME NEW h \in Halves, GetPrimfindDest(h) PROVE SeedInv'
  BY <1>10 DEF GetPrimfindDest
<1>11. ASSUME NEW h \in Halves, UnknownAlgorithm(h) PROVE SeedInv'
  BY <1>11 DEF UnknownAlgorithm
<1>12. ASSUME NEW h \in Halves, PushHits(h) PROVE SeedInv'
  BY <1>12 DEF PushHits, Idle
<1>13. ASSUME NEW h \in Halves, DropHits(h) PROVE SeedInv'
  BY <1>13 DEF DropHits, Idle
<1>14. CASE OuterLoop
  BY <1>14 DEF OuterLoop
<1>15. CASE PopHits
  BY <1>15 DEF PopHits
<1>16. CASE NoMoreHits
  BY <1>16 DEF NoMoreHits
<1>17. CASE ProcessHits
  BY <1>17 DEF ProcessHits
<1>18. CASE SendTPSet
  BY <1>18 DEF SendTPSet
<1>19. CASE FreePrimfindDest
  BY <1>19 DEF FreePrimfindDest
<1>20. CASE UNCHANGED vars
  BY <1>20 DEF vars
<1> QED
  BY <1>1, <1>2, <1>3, <1>4, <1>5, <1>6, <1>7, <1>8, <1>9, <1>10, <1>11, <1>12,
     <1>13, <1>14, <1>15, <1>16, <1>17, <1>18, <1>19, <1>20
  DEF Next, Command, CommandEnd, Produce, Consume

(* A half works with pedestals of the run it works in.                     *)
THEOREM SeededThisRunTheorem == Spec => []SeededThisRun
<1>1. Init => SeedInv
  BY DEF Init, SeedInv, Idle
<1>2. PInv /\ SeedInv /\ [Next]_vars => SeedInv'
  BY KeepsSeedInv DEF PInv, TypeOK
<1>3. SeedInv => SeededThisRun
  BY DEF SeedInv, SeededThisRun
<1> QED
  BY Invariant, <1>1, <1>2, <1>3, PTL DEF Spec

----------------------------------------------------------------------------
(* The leak within the first configuration.                                *)

(* The hit queue holds as many buffers as results.                         *)
LEMMA QueuedCardinality ==
  ASSUME DataTypes, SeparateResults, IsFiniteSet(Queued)
  PROVE  Len(m_tphandler_queue) <= Cardinality(Queued)
<1> DEFINE n == Len(m_tphandler_queue)
           f == [i \in 1 .. n |-> m_tphandler_queue[i].output_location]
<1>1. n \in Nat /\ DOMAIN m_tphandler_queue = 1 .. n
  BY DEF DataTypes
<1>2. f \in [1 .. n -> Queued]
  BY <1>1 DEF Queued
<1>3. f \in Injection(1 .. n, Queued)
  BY <1>1, <1>2 DEF SeparateResults, Injection, IsInjective
<1>4. Cardinality(1 .. n) = n
  <2>1. 1 \in Int /\ n \in Int
    BY <1>1
  <2>2. Cardinality(1 .. n) = IF 1 > n THEN 0 ELSE n - 1 + 1
    BY <2>1, FS_Interval
  <2> QED
    BY <1>1, <2>2
<1> QED
  BY <1>3, <1>4, FS_Injection

OneConf ==
  /\ IsFiniteSet(allocated)
  /\ Cardinality(allocated) <= DestCapacity
  /\ confs = 0 => allocated = {} /\ command = "initial"

LeakInv == OneConf /\ Cardinality(leaked) <= Extra

(* A buffer leaks only while the queue holds Capacity others.              *)
LEMMA DropLeaks ==
  ASSUME PInv, LeakInv, NEW h \in Halves, DropHits(h)
  PROVE  Cardinality(leaked') <= Extra
<1> DEFINE dest == producer[h].dest
           lost == leaked \cup {dest}
<1>1. dest \in Held
  BY LetGo DEF DropHits, PInv, TypeOK
<1>2. /\ lost \in SUBSET allocated
      /\ Queued \in SUBSET allocated
      /\ lost \cap Queued = {}
  BY <1>1 DEF PInv, BufferInv, ExclusiveBuffers, SeparatePlaces,
     NoDanglingBuffers, KnownBuffers
<1>3. /\ IsFiniteSet(lost) /\ IsFiniteSet(Queued) /\ IsFiniteSet(lost \cup Queued)
      /\ Cardinality(lost \cup Queued) <= Cardinality(allocated)
  <2>1. lost \cup Queued \in SUBSET allocated
    BY <1>2
  <2> QED
    BY <1>2, <2>1, FS_Subset DEF LeakInv, OneConf
<1>4. Cardinality(lost \cup Queued) = Cardinality(lost) + Cardinality(Queued)
  <2>1. Cardinality(lost \cap Queued) = 0
    BY <1>2, FS_EmptySet
  <2>2. Cardinality(lost) \in Nat /\ Cardinality(Queued) \in Nat
    BY <1>3, FS_CardinalityType
  <2>3. Cardinality(lost \cup Queued)
          = Cardinality(lost) + Cardinality(Queued) - Cardinality(lost \cap Queued)
    BY <1>3, FS_Union
  <2> QED
    BY <2>1, <2>2, <2>3
<1>5. Capacity <= Cardinality(Queued)
  <2>1. Len(m_tphandler_queue) <= Cardinality(Queued)
    BY <1>3, QueuedCardinality
    DEF PInv, TypeOK, BufferInv, ExclusiveBuffers
  <2>2. Len(m_tphandler_queue) \in Nat /\ Cardinality(Queued) \in Nat
    BY <1>3, FS_CardinalityType DEF PInv, TypeOK, DataTypes
  <2> QED
    BY <2>1, <2>2, PipelineAssumption DEF DropHits
<1>6. /\ Cardinality(lost) \in Nat /\ Cardinality(Queued) \in Nat
      /\ Cardinality(allocated) \in Nat
  BY <1>3, FS_CardinalityType DEF LeakInv, OneConf
<1>7. Cardinality(lost) <= Extra
  BY <1>3, <1>4, <1>5, <1>6, PipelineAssumption
  DEF LeakInv, OneConf, DestCapacity
<1> QED
  BY <1>7 DEF DropHits

(* At the first conf there are no buffers yet.                             *)
LEMMA FirstConf ==
  ASSUME PInv, LeakInv, confs' = confs + 1, confs' <= 1
  PROVE  confs = 0 /\ allocated = {} /\ m_dest_queue = {}
<1>1. confs = 0
  BY PipelineAssumption DEF PInv, TypeOK, DataTypes
<1> QED
  BY <1>1 DEF LeakInv, OneConf, PInv, BufferInv, KnownBuffers

(* Configurations are only ever added.                                     *)
LEMMA ConfsGrow ==
  ASSUME PInv, [Next]_vars
  PROVE  confs \in Nat /\ (confs' = confs \/ confs' = confs + 1)
<1>1. confs \in Nat
  BY PipelineAssumption DEF PInv, TypeOK, DataTypes
<1>2. confs' = confs \/ confs' = confs + 1
  BY DEF Next, Command, CommandEnd, Produce, Consume, Conf, ConfThrows,
     StartSetRunNumber, StartReset, Stop, StopDone, Scrap, ScrapDone,
     TakeSuperchunk, GetPrimfindDest, UnknownAlgorithm, PushHits, DropHits,
     OuterLoop, PopHits, NoMoreHits, ProcessHits, SendTPSet, FreePrimfindDest,
     commandVars, vars
<1> QED
  BY <1>1, <1>2

LEMMA KeepsLeakInv ==
  ASSUME PInv, LeakInv, [Next]_vars, confs' <= 1
  PROVE  LeakInv'
<1> USE DEF commandVars, handlerVars, halfVars, bufferVars
<1>1. ASSUME NEW enable \in EnableChoices, NEW algorithm \in Algorithms,
             Conf(enable, algorithm)
      PROVE  LeakInv'
  <2>1. allocated = {} /\ confs = 0
    BY <1>1, FirstConf DEF Conf
  <2>2. PICK dests \in kSubset(DestCapacity, Buffers \ allocated) :
          allocated' = dests
    BY <1>1, <2>1 DEF Conf
  <2>3. IsFiniteSet(allocated') /\ Cardinality(allocated') = DestCapacity
    <3>1. dests \in SUBSET Buffers /\ Cardinality(dests) = DestCapacity
      BY <2>2 DEF kSubset
    <3> QED
      BY <2>2, <3>1, FS_Subset, PipelineAssumption
  <2>4. confs' # 0
    BY <1>1, <2>1 DEF Conf
  <2>5. DestCapacity \in Nat
    BY PipelineAssumption DEF DestCapacity
  <2>6. leaked' = leaked
    BY <1>1 DEF Conf
  <2> QED
    BY <2>3, <2>4, <2>5, <2>6 DEF LeakInv, OneConf
<1>2. CASE ConfThrows
  BY <1>2, FirstConf DEF ConfThrows
<1>3. ASSUME NEW h \in Halves, DropHits(h) PROVE LeakInv'
  <2>1. Cardinality(leaked') <= Extra
    BY <1>3, DropLeaks
  <2>2. OneConf'
    BY <1>3 DEF DropHits, LeakInv, OneConf
  <2> QED
    BY <2>1, <2>2 DEF LeakInv
<1>4. CASE StartSetRunNumber \/ StartReset \/ Stop \/ StopDone \/ Scrap
  <2>1. UNCHANGED <<allocated, leaked, confs>> /\ command # "initial"
    BY <1>4 DEF StartSetRunNumber, StartReset, Stop, StopDone, Scrap
  <2> QED
    BY <2>1 DEF LeakInv, OneConf
<1>5. CASE ScrapDone
  BY <1>5 DEF ScrapDone, LeakInv, OneConf
<1>6. ASSUME NEW h \in Halves,
             TakeSuperchunk(h) \/ GetPrimfindDest(h) \/ UnknownAlgorithm(h)
               \/ PushHits(h)
      PROVE  LeakInv'
  BY <1>6 DEF TakeSuperchunk, GetPrimfindDest, UnknownAlgorithm, PushHits,
     LeakInv, OneConf
<1>7. CASE Consume
  BY <1>7 DEF Consume, OuterLoop, PopHits, NoMoreHits, ProcessHits, SendTPSet,
     FreePrimfindDest, LeakInv, OneConf
<1>8. CASE UNCHANGED vars
  BY <1>8 DEF vars, LeakInv, OneConf
<1> QED
  BY <1>1, <1>2, <1>3, <1>4, <1>5, <1>6, <1>7, <1>8
  DEF Next, Command, CommandEnd, Produce

LEMMA LeakInvariant == Spec => [](confs <= 1 => LeakInv)
<1>1. Init => (confs <= 1 => LeakInv)
  BY FS_EmptySet, PipelineAssumption DEF Init, LeakInv, OneConf, DestCapacity
<1>2. PInv /\ (confs <= 1 => LeakInv) /\ [Next]_vars
        => (confs <= 1 => LeakInv)'
  BY KeepsLeakInv, ConfsGrow
<1> QED
  BY Invariant, <1>1, <1>2, PTL DEF Spec

(* Within the first configuration no more than Extra buffers leak,         *)
(* whatever the capacities, the number of halves and of runs.              *)
THEOREM LeakBoundTheorem == Spec => []LeakBound
<1>1. (confs <= 1 => LeakInv) => LeakBound
  BY DEF LeakInv, LeakBound
<1> QED
  BY LeakInvariant, <1>1, PTL

----------------------------------------------------------------------------
(* No thread dies.                                                         *)
AliveInv ==
  /\ m_tpg_algorithm # "other" => ~aborted
  /\ confs = 0 => ~m_sw_tpg_enabled
  /\ command # "initial" /\ m_sw_tpg_enabled => m_tphandler.exists

(* A buffer that comes back finds room in the queue: it is one of the      *)
(* allocated ones, and not in the queue.                                   *)
LEMMA RoomForBuffer ==
  ASSUME PInv, LeakInv, consumer.pc = "free"
  PROVE  Cardinality(m_dest_queue) < DestCapacity
<1> DEFINE dest == consumer.item.output_location
<1>1. dest \in Consumed
  BY PipelineAssumption DEF PInv, PlaceInv, SwtpgOutput, Consumed
<1>2. dest \notin m_dest_queue /\ m_dest_queue \cup {dest} \in SUBSET allocated
  BY <1>1 DEF PInv, BufferInv, ExclusiveBuffers, SeparatePlaces, KnownBuffers
<1>3. /\ IsFiniteSet(m_dest_queue \cup {dest}) /\ IsFiniteSet(m_dest_queue)
      /\ Cardinality(m_dest_queue \cup {dest}) <= Cardinality(allocated)
  BY <1>2, FS_Subset DEF LeakInv, OneConf
<1>4. Cardinality(m_dest_queue \cup {dest}) = Cardinality(m_dest_queue) + 1
  BY <1>2, <1>3, FS_AddElement
<1>5. /\ Cardinality(m_dest_queue) \in Nat
      /\ Cardinality(allocated) \in Nat
  BY <1>3, FS_CardinalityType DEF LeakInv, OneConf
<1>6. DestCapacity \in Nat
  BY PipelineAssumption DEF DestCapacity
<1> QED
  BY <1>3, <1>4, <1>5, <1>6 DEF LeakInv, OneConf

LEMMA KeepsAliveInv ==
  ASSUME PInv, LeakInv, AliveInv, [Next]_vars, confs' <= 1
  PROVE  AliveInv'
<1> USE DEF commandVars, handlerVars, halfVars, bufferVars, AliveInv
<1>0. CASE UNCHANGED vars
  BY <1>0 DEF vars
<1> SUFFICES ASSUME Next, ~aborted PROVE AliveInv'
  BY <1>0 DEF Next
<1>1. ASSUME NEW enable \in EnableChoices, NEW algorithm \in Algorithms,
             Conf(enable, algorithm)
      PROVE  AliveInv'
  <2>1. ~aborted'
    BY <1>1 DEF Conf
  <2>2. confs = 0
    BY <1>1, FirstConf DEF Conf
  <2>3. CASE enable
    <3>1. m_tphandler'.exists /\ confs' # 0
      BY <1>1, <2>2, <2>3 DEF Conf, NewHandler
    <3> QED
      BY <2>1, <3>1
  <2>4. CASE ~enable
    <3>1. ~m_sw_tpg_enabled
      BY <2>2
    <3>2. ~m_sw_tpg_enabled'
      BY <1>1, <2>4, <3>1 DEF Conf
    <3>3. confs' # 0
      BY <1>1, <2>2 DEF Conf
    <3> QED
      BY <2>1, <3>2, <3>3
  <2> QED
    BY <2>3, <2>4
<1>2. CASE ConfThrows
  BY <1>2, FirstConf DEF ConfThrows
<1>3. CASE StartSetRunNumber
  <2>1. m_sw_tpg_enabled => m_tphandler.exists
    BY <1>3 DEF StartSetRunNumber
  <2>2. m_tphandler'.exists = m_tphandler.exists
    BY <1>3 DEF StartSetRunNumber, PInv, TypeOK, DataTypes
  <2>3. ~aborted'
    BY <1>3, <2>1 DEF StartSetRunNumber
  <2>4. UNCHANGED <<confs, m_tpg_algorithm, m_sw_tpg_enabled>>
    BY <1>3 DEF StartSetRunNumber
  <2> QED
    BY <2>1, <2>2, <2>3, <2>4
<1>4. CASE StartReset
  BY <1>4 DEF StartReset
<1>5. CASE Stop
  BY <1>5 DEF Stop
<1>6. CASE StopDone
  BY <1>6 DEF StopDone
<1>7. CASE Scrap
  BY <1>7 DEF Scrap
<1>8. CASE ScrapDone
  BY <1>8 DEF ScrapDone
<1>9. ASSUME NEW h \in Halves, TakeSuperchunk(h) PROVE AliveInv'
  BY <1>9 DEF TakeSuperchunk
<1>10. ASSUME NEW h \in Halves, GetPrimfindDest(h) PROVE AliveInv'
  BY <1>10 DEF GetPrimfindDest
<1>11. ASSUME NEW h \in Halves, UnknownAlgorithm(h) PROVE AliveInv'
  BY <1>11 DEF UnknownAlgorithm
<1>12. ASSUME NEW h \in Halves, PushHits(h) PROVE AliveInv'
  BY <1>12 DEF PushHits
<1>13. ASSUME NEW h \in Halves, DropHits(h) PROVE AliveInv'
  BY <1>13 DEF DropHits
<1>14. CASE OuterLoop
  BY <1>14 DEF OuterLoop
<1>15. CASE PopHits
  BY <1>15 DEF PopHits
<1>16. CASE NoMoreHits
  BY <1>16 DEF NoMoreHits
<1>17. CASE ProcessHits
  BY <1>17 DEF ProcessHits
<1>18. CASE SendTPSet
  BY <1>18 DEF SendTPSet
<1>19. CASE FreePrimfindDest
  BY <1>19, RoomForBuffer DEF FreePrimfindDest
<1> QED
  BY <1>1, <1>2, <1>3, <1>4, <1>5, <1>6, <1>7, <1>8, <1>9, <1>10, <1>11, <1>12,
     <1>13, <1>14, <1>15, <1>16, <1>17, <1>18, <1>19
  DEF Next, Command, CommandEnd, Produce, Consume

(* With a known algorithm no thread ever ends by an exception, and start   *)
(* finds its handler, within the first configuration.                      *)
THEOREM NeverAbortsTheorem == Spec => []NeverAborts
<1>1. Init => AliveInv
  BY DEF Init, AliveInv
<1>2. PInv /\ (confs <= 1 => LeakInv) /\ (confs <= 1 => AliveInv) /\ [Next]_vars
        => (confs <= 1 => AliveInv)'
  <2> SUFFICES ASSUME PInv, confs <= 1 => LeakInv, confs <= 1 => AliveInv,
                      [Next]_vars, confs' <= 1
               PROVE  AliveInv'
    OBVIOUS
  <2>1. confs <= 1
    BY ConfsGrow
  <2> QED
    BY <2>1, KeepsAliveInv
<1>3. (confs <= 1 => AliveInv) => NeverAborts
  BY DEF AliveInv, NeverAborts
<1> QED
  BY Invariant, LeakInvariant, <1>1, <1>2, <1>3, PTL DEF Spec
----------------------------------------------------------------------------
(* The life of a buffer: SWTPGPipeline implements BufferPool.              *)

(* In the invariant a buffer's stage tells the place it is in.             *)
LEMMA StageOfPlace ==
  ASSUME PInv, NEW b \in Buffers
  PROVE  /\ Stages[b] = "free" <=> b \in m_dest_queue
         /\ Stages[b] = "written" <=> b \in Held
         /\ Stages[b] = "waiting" <=> b \in Queued
         /\ Stages[b] = "read" <=> b \in Consumed
         /\ Stages[b] = "new" <=> b \notin allocated
  BY DEF Stages, PInv, BufferInv, ExclusiveBuffers, SeparatePlaces,
     NoDanglingBuffers, KnownBuffers

LEMMA PlacesAreBuffers ==
  ASSUME PInv
  PROVE  /\ allocated \in SUBSET Buffers
         /\ m_dest_queue \in SUBSET Buffers
         /\ Held \in SUBSET Buffers
         /\ Queued \in SUBSET Buffers
         /\ Consumed \in SUBSET Buffers
  BY DEF PInv, TypeOK, DataTypes, BufferInv, KnownBuffers

LEMMA StageSets ==
  ASSUME PInv
  PROVE  /\ Pool!In("free") = m_dest_queue
         /\ Pool!In("written") = Held
         /\ Pool!In("waiting") = Queued
         /\ Pool!In("read") = Consumed
         /\ Pool!In("new") = Buffers \ allocated
<1>1. /\ m_dest_queue \in SUBSET Buffers
      /\ Held \in SUBSET Buffers
      /\ Queued \in SUBSET Buffers
      /\ Consumed \in SUBSET Buffers
  BY PlacesAreBuffers
<1>2. Pool!In("free") = m_dest_queue
  BY <1>1, StageOfPlace DEF Pool!In
<1>3. Pool!In("written") = Held
  BY <1>1, StageOfPlace DEF Pool!In
<1>4. Pool!In("waiting") = Queued
  BY <1>1, StageOfPlace DEF Pool!In
<1>5. Pool!In("read") = Consumed
  BY <1>1, StageOfPlace DEF Pool!In
<1>6. Pool!In("new") = Buffers \ allocated
  BY StageOfPlace DEF Pool!In
<1> QED
  BY <1>2, <1>3, <1>4, <1>5, <1>6

(* The pool counts as this module does.                                    *)
LEMMA PoolCardinality == ASSUME NEW S PROVE Pool!Cardinality(S) = Cardinality(S)
  BY DEF Pool!Cardinality, Cardinality

(* No buffer's place changes but one's.                                    *)
SameOutside(set) ==
  \A b \in Buffers \ set :
    /\ b \in m_dest_queue' <=> b \in m_dest_queue
    /\ b \in Held' <=> b \in Held
    /\ b \in Queued' <=> b \in Queued
    /\ b \in Consumed' <=> b \in Consumed
    /\ b \in leaked' <=> b \in leaked
    /\ b \in deleted' <=> b \in deleted

LEMMA StageOutside ==
  ASSUME NEW set, SameOutside(set), NEW b \in Buffers \ set
  PROVE  Stages'[b] = Stages[b]
  BY DEF SameOutside, Stages

LEMMA OneMoves ==
  ASSUME PInv, NEW b \in Buffers, NEW from, NEW to, SameOutside({b}),
         Stages[b] = from, Stages'[b] = to
  PROVE  Pool!Move(b, from, to)
<1>1. /\ Stages = [c \in Buffers |-> Stages[c]]
      /\ Stages' = [c \in Buffers |-> Stages'[c]]
  BY DEF Stages
<1>2. \A c \in Buffers \ {b} : Stages'[c] = Stages[c]
  BY StageOutside
<1>3. Stages' = [Stages EXCEPT ![b] = to]
  BY <1>1, <1>2
<1> QED
  BY <1>3 DEF Pool!Move

(* A step that moves no buffer is no step of the pool.                     *)
LEMMA QuietPool ==
  ASSUME \A h \in Halves : producer'[h].dest = producer[h].dest,
         consumer'.item = consumer.item,
         UNCHANGED <<m_tphandler_queue, m_dest_queue, deleted, leaked>>
  PROVE  Stages' = Stages
<1>1. Held' = Held /\ Queued' = Queued /\ Consumed' = Consumed
  BY DEF Held, Queued, Consumed
<1> QED
  BY <1>1 DEF Stages

LEMMA FiniteBuffers ==
  ASSUME NEW S \in SUBSET Buffers
  PROVE  IsFiniteSet(S) /\ Cardinality(S) \in Nat
  BY FS_Subset, FS_CardinalityType, PipelineAssumption

(* Fewer halves hold buffers than there are, while one asks for one.       *)
LEMMA SomeHalfIdle ==
  ASSUME PInv, NEW h \in Halves, producer[h].dest = NoBuffer
  PROVE  Cardinality(Held) < Cardinality(Halves)
<1> DEFINE others == Halves \ {h}
           dest == [g \in others |-> producer[g].dest]
           image == {producer[g].dest : g \in others}
<1>1. IsFiniteSet(others) /\ Cardinality(others) = Cardinality(Halves) - 1
  BY PipelineAssumption, FS_RemoveElement
<1>2. IsFiniteSet(image) /\ Cardinality(image) <= Cardinality(others)
  <2>1. dest \in Surjection(others, image)
    BY DEF Surjection
  <2> QED
    BY <1>1, <2>1, FS_Surjection
<1>3. Held \in SUBSET image
  BY DEF Held
<1>4. Cardinality(Held) <= Cardinality(image)
  BY <1>2, <1>3, FS_Subset
<1>5. /\ Cardinality(Held) \in Nat /\ Cardinality(image) \in Nat
      /\ Cardinality(Halves) \in Nat
  BY <1>2, <1>3, FS_Subset, FS_CardinalityType, PipelineAssumption
<1> QED
  BY <1>1, <1>2, <1>4, <1>5

(* There are at least as many results as buffers in the hit queue.         *)
LEMMA QueuedAtMost ==
  ASSUME PInv
  PROVE  Cardinality(Queued) <= Len(m_tphandler_queue)
<1> DEFINE n == Len(m_tphandler_queue)
           f == [i \in 1 .. n |-> m_tphandler_queue[i].output_location]
<1>1. n \in Nat /\ DOMAIN m_tphandler_queue = 1 .. n
  BY DEF PInv, TypeOK, DataTypes
<1>2. IsFiniteSet(1 .. n) /\ Cardinality(1 .. n) = n
  <2>1. 1 \in Int /\ n \in Int
    BY <1>1
  <2>2. IsFiniteSet(1 .. n)
          /\ Cardinality(1 .. n) = IF 1 > n THEN 0 ELSE n - 1 + 1
    BY <2>1, FS_Interval
  <2> QED
    BY <1>1, <2>2
<1>3. f \in Surjection(1 .. n, Queued)
  BY <1>1 DEF Queued, Surjection
<1> QED
  BY <1>2, <1>3, FS_Surjection

LEMMA ConfFills ==
  ASSUME PInv, PInv', NEW enable, NEW algorithm, Conf(enable, algorithm)
  PROVE  Pool!Fill
<1> USE DEF Conf, halfVars
<1>1. PICK dests \in kSubset(DestCapacity, Buffers \ allocated) :
        m_dest_queue' = dests /\ allocated' = allocated \cup dests
  OBVIOUS
<1>2. dests \in SUBSET (Buffers \ allocated) /\ Cardinality(dests) = DestCapacity
  BY DEF kSubset
<1>3. Held' = Held /\ Queued' = Queued /\ Consumed' = Consumed
  <2>1. consumer'.item = consumer.item
    OBVIOUS
  <2> QED
    BY <2>1 DEF Held, Queued, Consumed
<1>4. SameOutside(dests)
  BY <1>1, <1>3 DEF SameOutside
<1>5. \A b \in dests : Stages'[b] = "free"
  BY <1>1, <1>2 DEF Stages
<1>6. Stages' = [b \in Buffers |-> IF b \in dests THEN "free" ELSE Stages[b]]
  <2>1. Stages' = [b \in Buffers |-> Stages'[b]]
    BY DEF Stages
  <2>2. \A b \in Buffers \ dests : Stages'[b] = Stages[b]
    BY <1>4, StageOutside
  <2> QED
    BY <1>5, <2>1, <2>2
<1>7. Pool!MoveAll(dests, "free")
  BY <1>6 DEF Pool!MoveAll
<1>8. Pool!In("free") = {} /\ dests \in SUBSET Pool!In("new")
  BY <1>2, StageSets
<1> QED
  BY PoolCardinality, <1>2, <1>7, <1>8 DEF Pool!Fill

LEMMA ConfThrowsOverfills ==
  ASSUME PInv, PInv', ConfThrows
  PROVE  Pool!Overfill
<1> USE DEF ConfThrows, halfVars
<1> DEFINE free == Cardinality(m_dest_queue)
<1>1. PICK dests \in kSubset(DestCapacity - free + 1, Buffers \ allocated),
           lost \in Buffers :
        /\ lost \in dests
        /\ m_dest_queue' = m_dest_queue \cup (dests \ {lost})
        /\ allocated' = allocated \cup dests
        /\ leaked' = leaked \cup {lost}
  OBVIOUS
<1> DEFINE new == dests \ {lost}
<1>2. dests \in SUBSET (Buffers \ allocated)
        /\ Cardinality(dests) = DestCapacity - free + 1
  BY DEF kSubset
<1>3. Held' = Held /\ Queued' = Queued /\ Consumed' = Consumed
  BY DEF Held, Queued, Consumed
<1>4. SameOutside(dests)
  BY <1>1, <1>3 DEF SameOutside
<1>5. lost \notin m_dest_queue \cup Held \cup Queued \cup Consumed
  BY <1>1, <1>2 DEF PInv, BufferInv, KnownBuffers
<1>6. (\A b \in new : Stages'[b] = "free") /\ Stages'[lost] = "lost"
  BY <1>1, <1>2, <1>3, <1>5 DEF Stages
<1>7. Stages' = [b \in Buffers |-> IF b \in new THEN "free"
                                  ELSE IF b = lost THEN "lost"
                                  ELSE Stages[b]]
  <2>1. Stages' = [b \in Buffers |-> Stages'[b]]
    BY DEF Stages
  <2>2. \A b \in Buffers \ dests : Stages'[b] = Stages[b]
    BY <1>4, StageOutside
  <2> QED
    BY <1>6, <2>1, <2>2
<1>8. free + Cardinality(new) = DestCapacity
  <2>1. free \in Nat /\ IsFiniteSet(dests)
    BY <1>2, FiniteBuffers, PlacesAreBuffers
  <2>2. Cardinality(new) = Cardinality(dests) - 1
    BY <1>1, <2>1, FS_RemoveElement
  <2>3. DestCapacity \in Nat
    BY PipelineAssumption DEF DestCapacity
  <2> QED
    BY <1>2, <2>1, <2>2, <2>3
<1>9. /\ Pool!In("free") = m_dest_queue
      /\ new \in SUBSET Pool!In("new")
      /\ lost \in Pool!In("new") \ new
  BY <1>1, <1>2, StageSets
<1> HIDE DEF new
<1> QED
  BY PoolCardinality, <1>7, <1>8, <1>9 DEF Pool!Overfill

LEMMA ScrapEmpties ==
  ASSUME PInv, ScrapDone
  PROVE  Pool!Empty
<1> USE DEF ScrapDone, halfVars
<1>1. Held' = Held /\ Queued' = Queued /\ Consumed' = Consumed
  <2>1. consumer'.item = consumer.item
    OBVIOUS
  <2> QED
    BY <2>1 DEF Held, Queued, Consumed
<1>2. SameOutside(m_dest_queue)
  BY <1>1 DEF SameOutside
<1>3. \A b \in m_dest_queue : b \in Buffers => Stages'[b] = "deleted"
  BY <1>1
  DEF Stages, PInv, BufferInv, ExclusiveBuffers, SeparatePlaces,
      NoDanglingBuffers
<1>4. Stages' = [b \in Buffers |-> IF b \in m_dest_queue THEN "deleted"
                                  ELSE Stages[b]]
  <2>1. Stages' = [b \in Buffers |-> Stages'[b]]
    BY DEF Stages
  <2>2. \A b \in Buffers \ m_dest_queue : Stages'[b] = Stages[b]
    BY <1>2, StageOutside
  <2> QED
    BY <1>3, <2>1, <2>2
<1> QED
  BY <1>4, StageSets DEF Pool!Empty, Pool!MoveAll

LEMMA GetLends ==
  ASSUME PInv, PInv', NEW h \in Halves, GetPrimfindDest(h)
  PROVE  \E b \in Buffers : Pool!Lend(b)
<1>1. PICK dest \in m_dest_queue :
        /\ dest # NoBuffer
        /\ producer[h].dest = NoBuffer
        /\ producer'[h].dest = dest
        /\ \A g \in Halves \ {h} : producer'[g].dest = producer[g].dest
        /\ m_dest_queue' = m_dest_queue \ {dest}
        /\ Held' = Held \cup {dest} /\ Queued' = Queued
        /\ Consumed' = Consumed
  BY GetMoves DEF PInv, TypeOK
<1>2. dest \in Buffers
  BY PlacesAreBuffers
<1>3. SameOutside({dest})
  BY <1>1 DEF SameOutside, GetPrimfindDest, bufferVars
<1>4. Stages[dest] = "free"
  BY <1>2, StageOfPlace
<1>5. Stages'[dest] = "written"
  BY <1>1, <1>2 DEF Stages
<1>6. Pool!Move(dest, "free", "written")
  BY <1>2, <1>3, <1>4, <1>5, OneMoves
<1>7. Cardinality(Pool!In("written")) < Cardinality(Halves)
  BY <1>1, SomeHalfIdle, StageSets
<1> QED
  BY PoolCardinality, <1>2, <1>6, <1>7 DEF Pool!Lend

LEMMA PushHandsOver ==
  ASSUME PInv, PInv', NEW h \in Halves, PushHits(h)
  PROVE  \E b \in Buffers : Pool!HandOver(b)
<1> DEFINE dest == producer[h].dest
<1>1. /\ dest \in Held
      /\ Held' = Held \ {dest}
      /\ Queued' = Queued \cup {dest}
      /\ Consumed' = Consumed
  BY PushMoves DEF PInv, TypeOK
<1>2. dest \in Buffers
  BY <1>1, PlacesAreBuffers
<1>3. SameOutside({dest})
  BY <1>1 DEF SameOutside, PushHits, bufferVars
<1>4. Stages[dest] = "written"
  BY <1>1, <1>2, StageOfPlace
<1>5. Stages'[dest] = "waiting"
  BY <1>1, <1>2
  DEF Stages, PushHits, PInv, BufferInv, ExclusiveBuffers, SeparatePlaces
<1>6. Pool!Move(dest, "written", "waiting")
  BY <1>2, <1>3, <1>4, <1>5, OneMoves
<1>7. Cardinality(Pool!In("waiting")) < Capacity
  <2>1. Len(m_tphandler_queue) \in Nat /\ Cardinality(Queued) \in Nat
    BY PlacesAreBuffers, FiniteBuffers DEF PInv, TypeOK, DataTypes
  <2>2. Len(m_tphandler_queue) < Capacity
    BY DEF PushHits
  <2> QED
    BY <2>1, <2>2, QueuedAtMost, StageSets, PipelineAssumption
<1> QED
  BY PoolCardinality, <1>2, <1>6, <1>7 DEF Pool!HandOver

LEMMA DropLoses ==
  ASSUME PInv, NEW h \in Halves, DropHits(h)
  PROVE  \E b \in Buffers : Pool!Lose(b)
<1> DEFINE dest == producer[h].dest
<1>1. /\ dest \in Held
      /\ Held' = Held \ {dest}
      /\ Queued' = Queued
      /\ Consumed' = Consumed
  <2>1. dest \in Held /\ Held' = Held \ {dest}
    BY LetGo DEF DropHits, PInv, TypeOK
  <2> QED
    BY <2>1 DEF DropHits, Queued, Consumed
<1>2. dest \in Buffers
  BY <1>1, PlacesAreBuffers
<1>3. SameOutside({dest})
  BY <1>1 DEF SameOutside, DropHits
<1>4. Stages[dest] = "written"
  BY <1>1, <1>2, StageOfPlace
<1>5. Stages'[dest] = "lost"
  BY <1>1, <1>2
  DEF Stages, DropHits, PInv, BufferInv, ExclusiveBuffers, SeparatePlaces
<1>6. Pool!Move(dest, "written", "lost")
  BY <1>2, <1>3, <1>4, <1>5, OneMoves
<1>7. Cardinality(Pool!In("waiting")) >= Capacity
  <2>1. IsFiniteSet(Queued) /\ Cardinality(Queued) \in Nat
    BY PlacesAreBuffers, FiniteBuffers
  <2>2. Len(m_tphandler_queue) \in Nat /\ Len(m_tphandler_queue) >= Capacity
    BY DEF DropHits, PInv, TypeOK, DataTypes
  <2>3. Len(m_tphandler_queue) <= Cardinality(Queued)
    BY <2>1, QueuedCardinality DEF PInv, TypeOK, BufferInv, ExclusiveBuffers
  <2> QED
    BY <2>1, <2>2, <2>3, StageSets, PipelineAssumption
<1> QED
  BY PoolCardinality, <1>2, <1>6, <1>7 DEF Pool!Lose

LEMMA PopReads ==
  ASSUME PInv, PInv', PopHits
  PROVE  \E b \in Buffers : Pool!Read(b)
<1>1. PICK dest \in Queued :
        /\ Queued' = Queued \ {dest}
        /\ Consumed = {} /\ Consumed' = {dest}
        /\ Held' = Held
        /\ SeparateResults'
  BY PopMoves DEF PInv, TypeOK
<1>2. dest \in Buffers
  BY PlacesAreBuffers
<1>3. SameOutside({dest})
  BY <1>1 DEF SameOutside, PopHits, bufferVars
<1>4. Stages[dest] = "waiting"
  BY <1>2, StageOfPlace
<1>5. Stages'[dest] = "read"
  BY <1>1, <1>2
  DEF Stages, PopHits, PInv, BufferInv, ExclusiveBuffers, SeparatePlaces
<1>6. Pool!Move(dest, "waiting", "read")
  BY <1>2, <1>3, <1>4, <1>5, OneMoves
<1> QED
  BY <1>1, <1>2, <1>6, StageSets DEF Pool!Read

LEMMA FreeGivesBack ==
  ASSUME PInv, FreePrimfindDest, Cardinality(m_dest_queue) < DestCapacity
  PROVE  \E b \in Buffers : Pool!GiveBack(b)
<1> DEFINE dest == consumer.item.output_location
<1>1. dest \in Buffers /\ dest # NoBuffer
  BY PipelineAssumption DEF FreePrimfindDest, PInv, PlaceInv, SwtpgOutput
<1>2. /\ Consumed = {dest} /\ Consumed' = {}
      /\ m_dest_queue' = m_dest_queue \cup {dest}
  BY <1>1 DEF Consumed, FreePrimfindDest, NoItem
<1>3. Held' = Held /\ Queued' = Queued
  BY DEF Held, Queued, FreePrimfindDest, halfVars
<1>4. SameOutside({dest})
  BY <1>2, <1>3 DEF SameOutside, FreePrimfindDest, bufferVars
<1>5. Stages[dest] = "read"
  BY <1>1, <1>2, StageOfPlace
<1>6. Stages'[dest] = "free"
  BY <1>1, <1>2 DEF Stages
<1>7. Pool!Move(dest, "read", "free")
  BY <1>1, <1>4, <1>5, <1>6, OneMoves
<1> QED
  BY PoolCardinality, <1>1, <1>7, StageSets DEF Pool!GiveBack

LEMMA InitPool == Init => Pool!Init
<1> SUFFICES ASSUME Init PROVE Pool!Init
  OBVIOUS
<1>1. Held = {} /\ Queued = {} /\ Consumed = {}
  BY DEF Init, Idle, NoItem, Held, Queued, Consumed
<1> QED
  BY <1>1 DEF Init, Pool!Init, Stages

(* Every step moves buffers as the pool does, or moves none.               *)
LEMMA StepOfPool ==
  ASSUME PInv, PInv', [Next]_vars
  PROVE  Pool!Next \/ UNCHANGED Stages
<1> USE DEF commandVars, handlerVars, halfVars, bufferVars
<1>1. ASSUME NEW enable \in EnableChoices, NEW algorithm \in Algorithms,
             Conf(enable, algorithm)
      PROVE  Pool!Next
  BY <1>1, ConfFills DEF Pool!Next
<1>2. CASE ConfThrows
  BY <1>2, ConfThrowsOverfills DEF Pool!Next
<1>3. CASE StartSetRunNumber
  BY <1>3, QuietPool DEF StartSetRunNumber
<1>4. CASE StartReset
  BY <1>4, QuietPool DEF StartReset
<1>5. CASE Stop
  BY <1>5, QuietPool DEF Stop
<1>6. CASE StopDone
  BY <1>6, QuietPool DEF StopDone
<1>7. CASE Scrap
  BY <1>7, QuietPool DEF Scrap
<1>8. CASE ScrapDone
  BY <1>8, ScrapEmpties DEF Pool!Next
<1>9. ASSUME NEW h \in Halves, TakeSuperchunk(h) PROVE UNCHANGED Stages
  <2>1. \A g \in Halves : producer'[g].dest = producer[g].dest
    BY <1>9 DEF TakeSuperchunk, PInv, TypeOK, DataTypes
  <2> QED
    BY <1>9, <2>1, QuietPool DEF TakeSuperchunk
<1>10. ASSUME NEW h \in Halves, GetPrimfindDest(h) PROVE Pool!Next
  BY <1>10, GetLends DEF Pool!Next
<1>11. ASSUME NEW h \in Halves, UnknownAlgorithm(h) PROVE UNCHANGED Stages
  BY <1>11, QuietPool DEF UnknownAlgorithm
<1>12. ASSUME NEW h \in Halves, PushHits(h) PROVE Pool!Next
  BY <1>12, PushHandsOver DEF Pool!Next
<1>13. ASSUME NEW h \in Halves, DropHits(h) PROVE Pool!Next
  BY <1>13, DropLoses DEF Pool!Next
<1>14. CASE OuterLoop
  BY <1>14, QuietPool DEF OuterLoop
<1>15. CASE PopHits
  BY <1>15, PopReads DEF Pool!Next
<1>16. CASE NoMoreHits
  BY <1>16, QuietPool DEF NoMoreHits
<1>17. CASE ProcessHits
  BY <1>17, QuietPool DEF ProcessHits
<1>18. CASE SendTPSet
  BY <1>18, QuietPool DEF SendTPSet
<1>19. CASE FreePrimfindDest
  <2>1. CASE Cardinality(m_dest_queue) < DestCapacity
    BY <1>19, <2>1, FreeGivesBack DEF Pool!Next
  <2>2. CASE ~(Cardinality(m_dest_queue) < DestCapacity)
    BY <1>19, <2>2, QuietPool DEF FreePrimfindDest
  <2> QED
    BY <2>1, <2>2
<1>20. CASE UNCHANGED vars
  BY <1>20, QuietPool DEF vars
<1> QED
  BY <1>1, <1>2, <1>3, <1>4, <1>5, <1>6, <1>7, <1>8, <1>9, <1>10, <1>11, <1>12,
     <1>13, <1>14, <1>15, <1>16, <1>17, <1>18, <1>19, <1>20
  DEF Next, Command, CommandEnd, Produce, Consume

(* The queues, the threads and the commands implement the life of a        *)
(* buffer: none vanishes, none is skipped or freed twice, and find_hits    *)
(* loses one only while Capacity others wait for the consumer.             *)
THEOREM BufferPoolTheorem == Spec => ImplementsBufferPool
<1>1. PInv /\ PInv' /\ [Next]_vars => [Pool!Next]_Stages
  BY StepOfPool
<1> QED
  BY InitPool, Invariant, <1>1, PTL DEF Spec, ImplementsBufferPool, Pool!Spec

----------------------------------------------------------------------------
(* Nobody starves.  A buffer is only lost while Capacity others wait for   *)
(* the consumer, so from conf to scrap Capacity of them go around          *)
(* (CirculationInv), and while tasks are registered the consumer runs      *)
(* (ConsumerInv).                                                          *)
CirculationInv ==
  command \notin {"initial", "failed"} => Cardinality(Circulating) >= Capacity

ConsumerInv ==
  /\ tasks /\ command \in {"configured", "starting", "running", "stopping"} =>
       /\ m_add_hits_tphandler_thread_should_run
       /\ consumer.pc \notin {"none", "exited"}
  /\ \A h \in Halves : producer[h].pc # "idle" => tasks

LEMMA KeepsConsumerInv ==
  ASSUME DataTypes, FlagTypes, CommandInv, ConsumerInv, [Next]_vars
  PROVE  ConsumerInv'
<1> USE DEF commandVars, handlerVars, halfVars, bufferVars, DataTypes, FlagTypes,
            ConsumerInv
<1>1. ASSUME NEW enable \in EnableChoices, NEW algorithm \in Algorithms,
             Conf(enable, algorithm)
      PROVE  ConsumerInv'
  BY <1>1 DEF Conf, CommandInv
<1>2. CASE ConfThrows
  BY <1>2 DEF ConfThrows, CommandInv
<1>3. CASE StartSetRunNumber
  BY <1>3 DEF StartSetRunNumber
<1>4. CASE StartReset
  BY <1>4 DEF StartReset
<1>5. CASE Stop
  BY <1>5 DEF Stop
<1>6. CASE StopDone
  BY <1>6 DEF StopDone
<1>7. CASE Scrap
  BY <1>7 DEF Scrap, CommandInv
<1>8. CASE ScrapDone
  BY <1>8 DEF ScrapDone, CommandInv
<1>9. ASSUME NEW h \in Halves, TakeSuperchunk(h) PROVE ConsumerInv'
  BY <1>9 DEF TakeSuperchunk
<1>10. ASSUME NEW h \in Halves, GetPrimfindDest(h) PROVE ConsumerInv'
  BY <1>10 DEF GetPrimfindDest
<1>11. ASSUME NEW h \in Halves, UnknownAlgorithm(h) PROVE ConsumerInv'
  BY <1>11 DEF UnknownAlgorithm
<1>12. ASSUME NEW h \in Halves, PushHits(h) PROVE ConsumerInv'
  BY <1>12 DEF PushHits, Idle
<1>13. ASSUME NEW h \in Halves, DropHits(h) PROVE ConsumerInv'
  BY <1>13 DEF DropHits, Idle
<1>14. CASE OuterLoop
  BY <1>14 DEF OuterLoop
<1>15. CASE PopHits
  BY <1>15 DEF PopHits
<1>16. CASE NoMoreHits
  BY <1>16 DEF NoMoreHits
<1>17. CASE ProcessHits
  BY <1>17 DEF ProcessHits
<1>18. CASE SendTPSet
  BY <1>18 DEF SendTPSet
<1>19. CASE FreePrimfindDest
  BY <1>19 DEF FreePrimfindDest
<1>20. CASE UNCHANGED vars
  BY <1>20 DEF vars
<1> QED
  BY <1>1, <1>2, <1>3, <1>4, <1>5, <1>6, <1>7, <1>8, <1>9, <1>10, <1>11, <1>12,
     <1>13, <1>14, <1>15, <1>16, <1>17, <1>18, <1>19, <1>20
  DEF Next, Command, CommandEnd, Produce, Consume

LEMMA EnoughIn ==
  ASSUME NEW T \in SUBSET Buffers, NEW S \in SUBSET T,
         Capacity <= Cardinality(S)
  PROVE  Cardinality(T) >= Capacity
<1>1. IsFiniteSet(T) /\ Cardinality(T) \in Nat /\ Cardinality(S) \in Nat
  BY FiniteBuffers
<1>2. Cardinality(S) <= Cardinality(T)
  BY <1>1, FS_Subset
<1> QED
  BY <1>1, <1>2, PipelineAssumption

(* Where a buffer is does not matter to the circulation.                   *)
LEMMA QuietCirculation ==
  ASSUME \A h \in Halves : producer'[h].dest = producer[h].dest,
         consumer'.item = consumer.item,
         UNCHANGED <<m_tphandler_queue, m_dest_queue>>
  PROVE  Circulating' = Circulating
  BY DEF Circulating, Held, Queued, Consumed

LEMMA CirculatingBuffers == PInv => Circulating \in SUBSET Buffers
  BY PlacesAreBuffers DEF Circulating

LEMMA KeepsCirculationInv ==
  ASSUME PInv, PInv', CirculationInv, [Next]_vars
  PROVE  CirculationInv'
<1> USE DEF commandVars, handlerVars, halfVars, bufferVars, CirculationInv
<1>0. Circulating' \in SUBSET Buffers
  <2>1. (PInv => Circulating \in SUBSET Buffers)'
    BY CirculatingBuffers, PTL
  <2> QED
    BY <2>1
<1>1. ASSUME NEW enable \in EnableChoices, NEW algorithm \in Algorithms,
             Conf(enable, algorithm)
      PROVE  CirculationInv'
  <2>1. PICK dests \in kSubset(DestCapacity, Buffers \ allocated) :
          m_dest_queue' = dests
    BY <1>1 DEF Conf
  <2>2. Capacity <= Cardinality(dests) /\ dests \in SUBSET Circulating'
    BY <2>1, PipelineAssumption DEF kSubset, DestCapacity, Circulating
  <2> QED
    BY <1>0, <2>2, EnoughIn
<1>2. CASE ConfThrows
  BY <1>2 DEF ConfThrows
<1>3. CASE StartSetRunNumber
  BY <1>3, QuietCirculation DEF StartSetRunNumber
<1>4. CASE StartReset
  BY <1>4, QuietCirculation DEF StartReset
<1>5. CASE Stop
  BY <1>5, QuietCirculation DEF Stop
<1>6. CASE StopDone
  BY <1>6, QuietCirculation DEF StopDone
<1>7. CASE Scrap
  BY <1>7, QuietCirculation DEF Scrap
<1>8. CASE ScrapDone
  BY <1>8 DEF ScrapDone
<1>9. ASSUME NEW h \in Halves, TakeSuperchunk(h) PROVE CirculationInv'
  <2>1. \A g \in Halves : producer'[g].dest = producer[g].dest
    BY <1>9 DEF TakeSuperchunk, PInv, TypeOK, DataTypes
  <2> QED
    BY <1>9, <2>1, QuietCirculation DEF TakeSuperchunk
<1>10. ASSUME NEW h \in Halves, GetPrimfindDest(h) PROVE CirculationInv'
  <2>1. Circulating' = Circulating
    BY <1>10, GetMoves DEF Circulating, PInv, TypeOK
  <2> QED
    BY <1>10, <2>1 DEF GetPrimfindDest
<1>11. ASSUME NEW h \in Halves, UnknownAlgorithm(h) PROVE CirculationInv'
  BY <1>11, QuietCirculation DEF UnknownAlgorithm
<1>12. ASSUME NEW h \in Halves, PushHits(h) PROVE CirculationInv'
  <2>1. Circulating' = Circulating
    BY <1>12, PushMoves DEF Circulating, PInv, TypeOK, PushHits
  <2> QED
    BY <1>12, <2>1 DEF PushHits
<1>13. ASSUME NEW h \in Halves, DropHits(h) PROVE CirculationInv'
  <2>1. Queued' = Queued /\ Queued' \in SUBSET Circulating'
    BY <1>13 DEF DropHits, Queued, Circulating
  <2>2. IsFiniteSet(Queued) /\ Cardinality(Queued) \in Nat
    BY PlacesAreBuffers, FiniteBuffers
  <2>3. Len(m_tphandler_queue) <= Cardinality(Queued)
    BY <2>2, QueuedCardinality DEF PInv, TypeOK, BufferInv, ExclusiveBuffers
  <2>4. Len(m_tphandler_queue) \in Nat /\ Len(m_tphandler_queue) >= Capacity
    BY <1>13 DEF DropHits, PInv, TypeOK, DataTypes
  <2>5. Capacity <= Cardinality(Queued')
    BY <2>1, <2>2, <2>3, <2>4, PipelineAssumption
  <2> QED
    BY <1>0, <2>1, <2>5, EnoughIn
<1>14. CASE OuterLoop
  BY <1>14, QuietCirculation DEF OuterLoop
<1>15. CASE PopHits
  <2>1. Circulating' = Circulating
    BY <1>15, PopMoves DEF Circulating, PInv, TypeOK, PopHits
  <2> QED
    BY <1>15, <2>1 DEF PopHits
<1>16. CASE NoMoreHits
  BY <1>16, QuietCirculation DEF NoMoreHits
<1>17. CASE ProcessHits
  BY <1>17, QuietCirculation DEF ProcessHits
<1>18. CASE SendTPSet
  BY <1>18, QuietCirculation DEF SendTPSet
<1>19. CASE FreePrimfindDest
  <2>1. CASE Cardinality(m_dest_queue) < DestCapacity
    <3>1. consumer.item.output_location # NoBuffer
      BY <1>19, PipelineAssumption
      DEF FreePrimfindDest, PInv, PlaceInv, SwtpgOutput
    <3>2. Circulating' = Circulating
      BY <1>19, <2>1, <3>1
      DEF FreePrimfindDest, Circulating, Held, Queued, Consumed, NoItem
    <3> QED
      BY <1>19, <3>2 DEF FreePrimfindDest
  <2>2. CASE ~(Cardinality(m_dest_queue) < DestCapacity)
    BY <1>19, <2>2, QuietCirculation DEF FreePrimfindDest
  <2> QED
    BY <2>1, <2>2
<1>20. CASE UNCHANGED vars
  BY <1>20, QuietCirculation DEF vars
<1> QED
  BY <1>1, <1>2, <1>3, <1>4, <1>5, <1>6, <1>7, <1>8, <1>9, <1>10, <1>11, <1>12,
     <1>13, <1>14, <1>15, <1>16, <1>17, <1>18, <1>19, <1>20
  DEF Next, Command, CommandEnd, Produce, Consume

(* While a half waits for a destination Capacity buffers go around and the *)
(* consumer that brings them back is there, whatever the earlier           *)
(* configurations leaked: the safety half of StopEnds.                     *)
THEOREM NoStarvationTheorem == Spec => []NoStarvation
<1>1. Init => ConsumerInv /\ CirculationInv
  BY DEF Init, ConsumerInv, CirculationInv, Idle
<1>2. PInv /\ PInv' /\ ConsumerInv /\ CirculationInv /\ [Next]_vars
        => ConsumerInv' /\ CirculationInv'
  BY KeepsConsumerInv, KeepsCirculationInv DEF PInv, TypeOK
<1>3. PInv /\ ConsumerInv /\ CirculationInv => NoStarvation
  BY DEF PInv, CommandInv, ConsumerInv, CirculationInv, NoStarvation
<1> QED
  BY Invariant, <1>1, <1>2, <1>3, PTL DEF Spec

----------------------------------------------------------------------------
(* scrap always ends.  Told to leave, with no half at work, the consumer   *)
(* empties the hit queue and leaves: it has so many steps to take.         *)
StepsToExit ==
  4 * Len(m_tphandler_queue)
    + [pc \in {"exited", "outer", "inner", "free", "send", "process"} |->
         CASE pc = "exited"  -> 0
           [] pc = "outer"   -> 1
           [] pc = "inner"   -> 2
           [] pc = "free"    -> 3
           [] pc = "send"    -> 4
           [] pc = "process" -> 5][consumer.pc]

(* There is a consumer to join; it was told to leave, and nobody fills the *)
(* queue any more.                                                         *)
Leaving ==
  command = "scrapping" =>
    /\ ~m_add_hits_tphandler_thread_should_run
    /\ consumer.pc # "none"
    /\ \A h \in Halves : producer[h].pc = "idle"

(* Only the consumer takes steps, and each brings it nearer to its end,    *)
(* unless it dies on the way (see NeverAborts).                            *)
LeavesSooner ==
  command = "scrapping" /\ command' = "scrapping" /\ ~aborted' =>
    /\ Consume
    /\ StepsToExit' < StepsToExit

LeaveInv ==
  command = "scrapping" =>
    /\ ~m_add_hits_tphandler_thread_should_run
    /\ consumer.pc # "none"

LEMMA ExitValues ==
  ASSUME m_tphandler_queue \in Seq(SwtpgOutput)
  PROVE  /\ Len(m_tphandler_queue) \in Nat
         /\ consumer.pc = "exited" => StepsToExit = 4 * Len(m_tphandler_queue)
         /\ consumer.pc = "outer" => StepsToExit = 4 * Len(m_tphandler_queue) + 1
         /\ consumer.pc = "inner" => StepsToExit = 4 * Len(m_tphandler_queue) + 2
         /\ consumer.pc = "free" => StepsToExit = 4 * Len(m_tphandler_queue) + 3
         /\ consumer.pc = "send" => StepsToExit = 4 * Len(m_tphandler_queue) + 4
         /\ consumer.pc = "process" => StepsToExit = 4 * Len(m_tphandler_queue) + 5
<1>1. Len(m_tphandler_queue) \in Nat
  OBVIOUS
<1> QED
  BY <1>1 DEF StepsToExit

LEMMA LeavingFollows == PInv /\ LeaveInv => Leaving
  BY DEF PInv, CommandInv, LeaveInv, Leaving

(* A step of the consumer that has been told to leave.                     *)
LEMMA ConsumerLeaves ==
  ASSUME DataTypes, DataTypes', ~m_add_hits_tphandler_thread_should_run, Consume,
         ~aborted'
  PROVE  StepsToExit' < StepsToExit
<1>0. m_tphandler_queue \in Seq(SwtpgOutput) /\ m_tphandler_queue' \in Seq(SwtpgOutput)
  BY DEF DataTypes
<1>n. PICK n \in Nat : n = Len(m_tphandler_queue)
  BY <1>0
<1>m. PICK m \in Nat : m = Len(m_tphandler_queue')
  BY <1>0
<1>v. /\ consumer.pc = "exited" => StepsToExit = 4 * n
      /\ consumer.pc = "outer" => StepsToExit = 4 * n + 1
      /\ consumer.pc = "inner" => StepsToExit = 4 * n + 2
      /\ consumer.pc = "free" => StepsToExit = 4 * n + 3
      /\ consumer.pc = "send" => StepsToExit = 4 * n + 4
      /\ consumer.pc = "process" => StepsToExit = 4 * n + 5
  BY <1>0, <1>n, ExitValues
<1>w. /\ consumer'.pc = "exited" => StepsToExit' = 4 * m
      /\ consumer'.pc = "outer" => StepsToExit' = 4 * m + 1
      /\ consumer'.pc = "inner" => StepsToExit' = 4 * m + 2
      /\ consumer'.pc = "free" => StepsToExit' = 4 * m + 3
      /\ consumer'.pc = "send" => StepsToExit' = 4 * m + 4
      /\ consumer'.pc = "process" => StepsToExit' = 4 * m + 5
  <2> SUFFICES StepsToExit'
         = 4 * Len(m_tphandler_queue')
           + [pc \in {"exited", "outer", "inner", "free", "send", "process"} |->
                CASE pc = "exited"  -> 0
                  [] pc = "outer"   -> 1
                  [] pc = "inner"   -> 2
                  [] pc = "free"    -> 3
                  [] pc = "send"    -> 4
                  [] pc = "process" -> 5][consumer'.pc]
    BY <1>m
  <2> QED
    BY DEF StepsToExit
<1> USE DEF DataTypes
<1>1. CASE OuterLoop
  <2>1. m = n /\ consumer.pc = "outer" /\ consumer'.pc = "exited"
    BY <1>1, <1>n, <1>m DEF OuterLoop
  <2> QED
    BY <2>1, <1>v, <1>w
<1>2. CASE PopHits
  <2>1. consumer.pc = "inner" /\ consumer'.pc = "process"
    BY <1>2 DEF PopHits
  <2>2. m_tphandler_queue # <<>> /\ m_tphandler_queue' = Tail(m_tphandler_queue)
    BY <1>2 DEF PopHits
  <2>3. m = n - 1
    BY <1>0, <1>n, <1>m, <2>2
  <2> QED
    BY <2>1, <2>3, <1>v, <1>w
<1>3. CASE NoMoreHits
  <2>1. m = n /\ consumer.pc = "inner" /\ consumer'.pc = "outer"
    BY <1>3, <1>n, <1>m DEF NoMoreHits
  <2> QED
    BY <2>1, <1>v, <1>w
<1>4. CASE ProcessHits
  <2>1. m = n /\ consumer.pc = "process" /\ consumer'.pc = "send"
    BY <1>4, <1>n, <1>m DEF ProcessHits
  <2> QED
    BY <2>1, <1>v, <1>w
<1>5. CASE SendTPSet
  <2>1. m = n /\ consumer.pc = "send" /\ consumer'.pc = "free"
    BY <1>5, <1>n, <1>m DEF SendTPSet
  <2> QED
    BY <2>1, <1>v, <1>w
<1>6. CASE FreePrimfindDest
  <2>1. m = n /\ consumer.pc = "free" /\ consumer'.pc = "inner"
    BY <1>6, <1>n, <1>m DEF FreePrimfindDest
  <2> QED
    BY <2>1, <1>v, <1>w
<1> QED
  BY <1>1, <1>2, <1>3, <1>4, <1>5, <1>6 DEF Consume

LEMMA LeaveStep ==
  ASSUME PInv, PInv', LeaveInv, Next
  PROVE  LeaveInv' /\ LeavesSooner
<1> USE DEF commandVars, handlerVars, halfVars, bufferVars
<1>1. ASSUME NEW enable \in EnableChoices, NEW algorithm \in Algorithms,
             Conf(enable, algorithm)
      PROVE  LeaveInv' /\ LeavesSooner
  BY <1>1 DEF Conf, LeaveInv, LeavesSooner
<1>2. CASE ConfThrows \/ StartSetRunNumber \/ StartReset \/ Stop \/ StopDone
  BY <1>2 DEF ConfThrows, StartSetRunNumber, StartReset, Stop, StopDone,
     LeaveInv, LeavesSooner
<1>3. CASE Scrap
  BY <1>3 DEF Scrap, LeaveInv, LeavesSooner
<1>4. CASE ScrapDone
  BY <1>4 DEF ScrapDone, LeaveInv, LeavesSooner
<1>5. ASSUME NEW h \in Halves, TakeSuperchunk(h) \/ Produce(h)
      PROVE  LeaveInv' /\ LeavesSooner
  <2>1. command # "scrapping"
    BY <1>5 DEF TakeSuperchunk, Produce, GetPrimfindDest, UnknownAlgorithm,
       PushHits, DropHits, PInv, CommandInv
  <2>2. command' = command
    BY <1>5 DEF TakeSuperchunk, Produce, GetPrimfindDest, UnknownAlgorithm,
       PushHits, DropHits
  <2> QED
    BY <2>1, <2>2 DEF LeaveInv, LeavesSooner
<1>6. CASE Consume
  <2>1. command' = command /\ UNCHANGED m_add_hits_tphandler_thread_should_run
    BY <1>6 DEF Consume, OuterLoop, PopHits, NoMoreHits, ProcessHits, SendTPSet,
       FreePrimfindDest
  <2>2. consumer'.pc # "none"
    <3>1. CASE OuterLoop \/ PopHits \/ NoMoreHits
      BY <3>1 DEF OuterLoop, PopHits, NoMoreHits, PInv, TypeOK, DataTypes
    <3>2. CASE ProcessHits
      BY <3>2 DEF ProcessHits, PInv, TypeOK, DataTypes
    <3>3. CASE SendTPSet
      BY <3>3 DEF SendTPSet, PInv, TypeOK, DataTypes
    <3>4. CASE FreePrimfindDest
      BY <3>4 DEF FreePrimfindDest, PInv, TypeOK, DataTypes
    <3> QED
      BY <1>6, <3>1, <3>2, <3>3, <3>4 DEF Consume
  <2>3. LeavesSooner
    BY <1>6, ConsumerLeaves DEF LeavesSooner, LeaveInv, PInv, TypeOK
  <2> QED
    BY <2>1, <2>2, <2>3 DEF LeaveInv
<1> QED
  BY <1>1, <1>2, <1>3, <1>4, <1>5, <1>6 DEF Next, Command, CommandEnd

(* scrap finds a consumer to join, and while it waits only the consumer    *)
(* takes steps, each one nearer to its end, whatever is left in the hit    *)
(* queue; that it takes them is what fairness adds in ScrapEnds.           *)
THEOREM LeavingTheorem == Spec => []Leaving /\ [][LeavesSooner]_vars
<1>1. Init => LeaveInv
  BY DEF Init, LeaveInv
<1>2. PInv /\ PInv' /\ LeaveInv /\ [Next]_vars => LeaveInv' /\ [LeavesSooner]_vars
  <2>1. LeaveInv /\ UNCHANGED vars => LeaveInv'
    BY DEF vars, commandVars, LeaveInv
  <2> QED
    BY <2>1, LeaveStep
<1> QED
  BY Invariant, LeavingFollows, <1>1, <1>2, PTL DEF Spec
============================================================================
