--------------------------- MODULE SWTPGPipeline ---------------------------
(***************************************************************************)
(* The software trigger-primitive generation of WIB2FrameProcessor: two    *)
(* post-processing threads (one for each half of the channels) find hits   *)
(* and write them into destination buffers, which travel through a bounded *)
(* queue to the thread that feeds the TP handler and then go back to the   *)
(* queue of free destinations.  Around them the run-control commands conf, *)
(* start, stop and scrap create and tear down the threads, the queues'     *)
(* contents and the handler.                                               *)
(*                                                                         *)
(*        m_dest_queue --> producer --> m_tphandler_queue --> consumer     *)
(*             ^                                                  |        *)
(*             +--------------------------------------------------+        *)
(*                                                                         *)
(* The handler itself is module TPHandler; of it this module keeps what    *)
(* the commands can spoil: the run number it stamps on TPSets and the runs *)
(* its TPs come from.                                                      *)
(***************************************************************************)
EXTENDS Integers, Sequences, FiniteSets, FiniteSetsExt

CONSTANTS
  Capacity,       \* m_capacity_mpmc_queue
  Extra,          \* m_capacity_dest_queue - m_capacity_mpmc_queue, 4 in the code
  Buffers,        \* identities for the buffers conf allocates
  Halves,         \* the WIB2FrameHandlers, one post-processing thread each
  EnableChoices,  \* the values of enable_software_tpg that conf may be given
  Algorithms,     \* the values of software_tpg_algorithm that conf may be given
  MaxConfs,       \* bound on conf commands
  MaxRuns,        \* bound on start commands
  NoBuffer        \* no destination held

DestCapacity == Capacity + Extra

ASSUME PipelineAssumption ==
  /\ Capacity \in Nat \ {0}
  /\ Extra \in Nat
  /\ IsFiniteSet(Buffers)
  /\ Cardinality(Buffers) >= MaxConfs * DestCapacity
  /\ IsFiniteSet(Halves)
  /\ EnableChoices \subseteq BOOLEAN
  /\ Algorithms \subseteq {"SWTPG", "AbsRS", "other"}
  /\ MaxConfs \in Nat
  /\ MaxRuns \in Nat
  /\ NoBuffer \notin Buffers

VARIABLES
  command,            \* where run control is: the state, or the command under way
  confs,              \* conf commands so far
  run,                \* number of the current or last run
  m_sw_tpg_enabled,
  tasks,              \* are the find_hits tasks registered with the base class?
  m_tpg_algorithm,
  m_tphandler,        \* [exists, run_number, origins, recent]
  m_dest_queue,       \* free destinations
  m_tphandler_queue,  \* swtpg_outputs on their way to the consumer
  m_add_hits_tphandler_thread_should_run,
  first_hit,          \* per half: no superchunk of this run processed yet
  seeded,             \* per half: the run whose data its pedestals come from
  producer,           \* per half: [pc, dest]
  consumer,           \* [pc, item]
  aborted,            \* an uncaught exception or a bad access ended the process
  allocated,          \* history: the buffers conf has created
  deleted,            \* history: the buffers scrap has deleted
  leaked,             \* history: the buffers whose last pointer was dropped
  sent                \* history: <<run number of a TPSet, run of a TP in it>>

commandVars == <<command, confs, run, m_sw_tpg_enabled, tasks, m_tpg_algorithm>>
handlerVars == <<m_tphandler, sent>>
halfVars    == <<first_hit, seeded, producer>>
bufferVars  == <<allocated, deleted, leaked>>
vars == <<commandVars, handlerVars, halfVars, bufferVars, m_dest_queue,
          m_tphandler_queue, m_add_hits_tphandler_thread_should_run, consumer,
          aborted>>

InvalidRun == 0
AllRuns == 0 .. MaxRuns

(* A swtpg_output: the destination and the frame's timestamp, of which     *)
(* only the run it was taken in matters here.                              *)
SwtpgOutput == [output_location : Buffers, origin : AllRuns]

NoItem == [output_location |-> NoBuffer, origin |-> InvalidRun]

FlagTypes ==
  /\ m_sw_tpg_enabled \in BOOLEAN
  /\ tasks \in BOOLEAN
  /\ m_add_hits_tphandler_thread_should_run \in BOOLEAN
  /\ aborted \in BOOLEAN

DataTypes ==
  /\ command \in {"initial", "failed", "configured", "starting", "running",
                  "stopping", "scrapping"}
  /\ confs \in 0 .. MaxConfs
  /\ run \in AllRuns
  /\ m_tpg_algorithm \in {"SWTPG", "AbsRS", "other"}
  /\ m_tphandler \in [exists : BOOLEAN, run_number : AllRuns,
                      origins : SUBSET AllRuns, recent : SUBSET AllRuns]
  /\ m_dest_queue \in SUBSET Buffers
  /\ m_tphandler_queue \in Seq(SwtpgOutput)
  /\ first_hit \in [Halves -> BOOLEAN]
  /\ seeded \in [Halves -> AllRuns]
  /\ producer \in [Halves -> [pc : {"idle", "waitDest", "push"},
                              dest : Buffers \cup {NoBuffer}]]
  /\ consumer \in [pc : {"none", "outer", "inner", "process", "send", "free",
                         "exited"},
                   item : SwtpgOutput \cup {NoItem}]
  /\ allocated \in SUBSET Buffers
  /\ deleted \in SUBSET Buffers
  /\ leaked \in SUBSET Buffers
  /\ sent \in SUBSET (AllRuns \X AllRuns)

TypeOK == FlagTypes /\ DataTypes

(* The handler's TPs by the run they come from: those of earlier results   *)
(* in origins, those of the result being processed in recent.              *)
NoHandler ==
  [exists |-> FALSE, run_number |-> InvalidRun, origins |-> {}, recent |-> {}]
NewHandler ==
  [exists |-> TRUE, run_number |-> InvalidRun, origins |-> {}, recent |-> {}]

Idle == [pc |-> "idle", dest |-> NoBuffer]

Init ==
  /\ command = "initial"
  /\ confs = 0
  /\ run = InvalidRun
  /\ m_sw_tpg_enabled = FALSE
  /\ tasks = FALSE
  /\ m_tpg_algorithm = "SWTPG"
  /\ m_tphandler = NoHandler
  /\ m_dest_queue = {}
  /\ m_tphandler_queue = <<>>
  /\ m_add_hits_tphandler_thread_should_run = FALSE
  /\ first_hit = [h \in Halves |-> TRUE]
  /\ seeded = [h \in Halves |-> InvalidRun]
  /\ producer = [h \in Halves |-> Idle]
  /\ consumer = [pc |-> "none", item |-> NoItem]
  /\ aborted = FALSE
  /\ allocated = {}
  /\ deleted = {}
  /\ leaked = {}
  /\ sent = {}

(* The buffers in the hands of the threads and in the hit queue.           *)
Held == {producer[h].dest : h \in Halves} \ {NoBuffer}
Queued == {m_tphandler_queue[i].output_location : i \in DOMAIN m_tphandler_queue}
Consumed == {consumer.item.output_location} \ {NoBuffer}

----------------------------------------------------------------------------
(* Variants of the code, used to see that the properties notice a bug.     *)

\* the consumer gives the destination back before it has read the hits
PopHitsFreesEarly ==
  /\ consumer.pc = "inner"
  /\ m_tphandler_queue # <<>>
  /\ consumer' = [pc |-> "process", item |-> Head(m_tphandler_queue)]
  /\ m_dest_queue' = m_dest_queue \cup {Head(m_tphandler_queue).output_location}
  /\ m_tphandler_queue' = Tail(m_tphandler_queue)
  /\ UNCHANGED <<commandVars, handlerVars, halfVars, bufferVars,
                 m_add_hits_tphandler_thread_should_run, aborted>>

\* scrap deletes every buffer it ever created
ScrapDeletesAll ==
  /\ command = "scrapping"
  /\ consumer.pc = "exited"
  /\ consumer' = [consumer EXCEPT !.pc = "none"]
  /\ m_tphandler' = NoHandler
  /\ deleted' = allocated
  /\ m_dest_queue' = {}
  /\ tasks' = FALSE
  /\ command' = "initial"
  /\ UNCHANGED <<confs, run, m_sw_tpg_enabled, m_tpg_algorithm, sent, halfVars,
                 allocated, leaked, m_tphandler_queue,
                 m_add_hits_tphandler_thread_should_run, aborted>>

\* the hit queue counts as full one element too early
DropHitsEarly(h) ==
  /\ producer[h].pc = "push"
  /\ Len(m_tphandler_queue) >= Capacity - 1
  /\ leaked' = leaked \cup {producer[h].dest}
  /\ producer' = [producer EXCEPT ![h] = Idle]
  /\ UNCHANGED <<commandVars, handlerVars, first_hit, seeded, allocated, deleted,
                 m_dest_queue, m_tphandler_queue,
                 m_add_hits_tphandler_thread_should_run, consumer, aborted>>

\* the queue of destinations is as long as the hit queue
FreeIntoShortQueue ==
  /\ consumer.pc = "free"
  /\ IF Cardinality(m_dest_queue) < Capacity
     THEN /\ m_dest_queue' = m_dest_queue \cup {consumer.item.output_location}
          /\ consumer' = [pc |-> "inner", item |-> NoItem]
          /\ UNCHANGED aborted
     ELSE /\ aborted' = TRUE
          /\ UNCHANGED <<m_dest_queue, consumer>>
  /\ UNCHANGED <<commandVars, handlerVars, halfVars, bufferVars,
                 m_tphandler_queue, m_add_hits_tphandler_thread_should_run>>

\* the result is cleared before its destination is given back
FreeClearedItem ==
  /\ consumer.pc = "free"
  /\ m_dest_queue' = m_dest_queue \cup {NoItem.output_location}
  /\ consumer' = [pc |-> "inner", item |-> NoItem]
  /\ UNCHANGED <<commandVars, handlerVars, halfVars, bufferVars,
                 m_tphandler_queue, m_add_hits_tphandler_thread_should_run,
                 aborted>>

\* stop forgets the halves
StopKeepsHalves ==
  /\ command = "stopping"
  /\ \A h \in Halves : producer[h].pc = "idle"
  /\ command' = "configured"
  /\ UNCHANGED <<confs, run, m_sw_tpg_enabled, tasks, m_tpg_algorithm,
                 handlerVars, halfVars, bufferVars, m_dest_queue,
                 m_tphandler_queue, m_add_hits_tphandler_thread_should_run,
                 consumer, aborted>>

\* stop ends the consumer before the threads that wait for its buffers
StopEndsConsumerFirst ==
  /\ command = "running"
  /\ command' = "stopping"
  /\ m_add_hits_tphandler_thread_should_run' = FALSE
  /\ UNCHANGED <<confs, run, m_sw_tpg_enabled, tasks, m_tpg_algorithm,
                 handlerVars, halfVars, bufferVars, m_dest_queue,
                 m_tphandler_queue, consumer, aborted>>

\* scrap waits for a consumer that was not told to stop
ScrapJoinsOnly ==
  /\ command = "configured"
  /\ command' = "scrapping"
  /\ UNCHANGED <<confs, run, m_sw_tpg_enabled, tasks, m_tpg_algorithm,
                 handlerVars, halfVars, bufferVars, m_dest_queue,
                 m_tphandler_queue, m_add_hits_tphandler_thread_should_run,
                 consumer, aborted>>

----------------------------------------------------------------------------
(* Run control.                                                            *)

(* conf: fill the queue of destinations, whether the software TPG is       *)
(* enabled or not; if it is, create the handler, register one find_hits    *)
(* task per half and launch the consumer.  m_sw_tpg_enabled is never set   *)
(* back to false.                                                          *)
Conf(enable, algorithm) ==
  /\ command = "initial"
  /\ confs < MaxConfs
  /\ m_dest_queue = {}
  /\ \E dests \in kSubset(DestCapacity, Buffers \ allocated) :
       /\ m_dest_queue' = dests
       /\ allocated' = allocated \cup dests
  /\ confs' = confs + 1
  /\ m_tpg_algorithm' = algorithm
  /\ m_sw_tpg_enabled' = (m_sw_tpg_enabled \/ enable)
  /\ tasks' = enable
  /\ m_tphandler' = IF enable THEN NewHandler ELSE m_tphandler
  /\ m_add_hits_tphandler_thread_should_run'
       = (m_add_hits_tphandler_thread_should_run \/ enable)
  /\ consumer' = IF enable THEN [consumer EXCEPT !.pc = "outer"] ELSE consumer
  /\ command' = "configured"
  /\ UNCHANGED <<run, halfVars, m_tphandler_queue, aborted, deleted, leaked, sent>>

(* conf when destinations of an earlier conf are still in the queue: the   *)
(* push into the full queue times out at once and the command fails.  The  *)
(* buffer that did not fit is lost.                                        *)
ConfThrows ==
  /\ command = "initial"
  /\ confs < MaxConfs
  /\ m_dest_queue # {}
  /\ \E dests \in kSubset(DestCapacity - Cardinality(m_dest_queue) + 1,
                          Buffers \ allocated), lost \in Buffers :
       /\ lost \in dests
       /\ m_dest_queue' = m_dest_queue \cup (dests \ {lost})
       /\ allocated' = allocated \cup dests
       /\ leaked' = leaked \cup {lost}
  /\ confs' = confs + 1
  /\ command' = "failed"
  /\ UNCHANGED <<run, m_sw_tpg_enabled, tasks, m_tpg_algorithm, handlerVars,
                 halfVars, deleted, m_tphandler_queue,
                 m_add_hits_tphandler_thread_should_run, consumer, aborted>>

(* start, first part: the handler learns the run number.  Without software *)
(* TPG there is nothing to do; with m_sw_tpg_enabled left over from an     *)
(* earlier conf the handler is a null pointer.                             *)
StartSetRunNumber ==
  /\ command = "configured"
  /\ run < MaxRuns
  /\ run' = run + 1
  /\ IF m_sw_tpg_enabled
     THEN /\ command' = "starting"
          /\ m_tphandler' = IF m_tphandler.exists
                            THEN [m_tphandler EXCEPT !.run_number = run + 1]
                            ELSE m_tphandler
          /\ aborted' = ~m_tphandler.exists
     ELSE /\ command' = "running"
          /\ UNCHANGED <<m_tphandler, aborted>>
  /\ UNCHANGED <<confs, m_sw_tpg_enabled, tasks, m_tpg_algorithm, sent, halfVars,
                 bufferVars, m_dest_queue, m_tphandler_queue,
                 m_add_hits_tphandler_thread_should_run, consumer>>

(* start, second part: reset the handler, give both halves a fresh         *)
(* ProcessingInfo, and let the base class start its threads.               *)
StartReset ==
  /\ command = "starting"
  /\ m_tphandler' = [m_tphandler EXCEPT !.origins = {}, !.recent = {}]
  /\ seeded' = [h \in Halves |-> InvalidRun]
  /\ command' = "running"
  /\ UNCHANGED <<confs, run, m_sw_tpg_enabled, tasks, m_tpg_algorithm, sent,
                 first_hit, producer, bufferVars, m_dest_queue,
                 m_tphandler_queue, m_add_hits_tphandler_thread_should_run,
                 consumer, aborted>>

(* stop, first part: the base class tells its threads to stop.             *)
Stop ==
  /\ command = "running"
  /\ command' = "stopping"
  /\ UNCHANGED <<confs, run, m_sw_tpg_enabled, tasks, m_tpg_algorithm,
                 handlerVars, halfVars, bufferVars, m_dest_queue,
                 m_tphandler_queue, m_add_hits_tphandler_thread_should_run,
                 consumer, aborted>>

(* stop, second part: the threads have finished their superchunk and are   *)
(* joined; the halves are reset.                                           *)
StopDone ==
  /\ command = "stopping"
  /\ \A h \in Halves : producer[h].pc = "idle"
  /\ first_hit' = IF m_sw_tpg_enabled THEN [h \in Halves |-> TRUE] ELSE first_hit
  /\ command' = "configured"
  /\ UNCHANGED <<confs, run, m_sw_tpg_enabled, tasks, m_tpg_algorithm,
                 handlerVars, seeded, producer, bufferVars, m_dest_queue,
                 m_tphandler_queue, m_add_hits_tphandler_thread_should_run,
                 consumer, aborted>>

(* scrap, first part: tell the consumer to stop and wait for it.  Joining  *)
(* a thread that was never launched throws.                                *)
Scrap ==
  /\ command = "configured"
  /\ IF m_sw_tpg_enabled
     THEN /\ m_add_hits_tphandler_thread_should_run' = FALSE
          /\ command' = IF consumer.pc = "none" THEN "failed" ELSE "scrapping"
          /\ UNCHANGED tasks
     ELSE /\ command' = "initial"
          /\ tasks' = FALSE
          /\ UNCHANGED m_add_hits_tphandler_thread_should_run
  /\ UNCHANGED <<confs, run, m_sw_tpg_enabled, m_tpg_algorithm, handlerVars,
                 halfVars, bufferVars, m_dest_queue, m_tphandler_queue,
                 consumer, aborted>>

(* scrap, second part: the consumer is joined, the handler destroyed, and  *)
(* the destinations that are in the queue are deleted.                     *)
ScrapDone ==
  /\ command = "scrapping"
  /\ consumer.pc = "exited"
  /\ consumer' = [consumer EXCEPT !.pc = "none"]
  /\ m_tphandler' = NoHandler
  /\ deleted' = deleted \cup m_dest_queue
  /\ m_dest_queue' = {}
  /\ tasks' = FALSE
  /\ command' = "initial"
  /\ UNCHANGED <<confs, run, m_sw_tpg_enabled, m_tpg_algorithm, sent, halfVars,
                 allocated, leaked, m_tphandler_queue,
                 m_add_hits_tphandler_thread_should_run, aborted>>

----------------------------------------------------------------------------
(* A post-processing thread: find_hits on one half of a superchunk.        *)

(* A superchunk arrives.  The first one of a run seeds the pedestals       *)
(* (setState) before a destination is asked for.                           *)
TakeSuperchunk(h) ==
  /\ command = "running"
  /\ tasks
  /\ producer[h].pc = "idle"
  /\ producer' = [producer EXCEPT ![h].pc = "waitDest"]
  /\ seeded' = [seeded EXCEPT ![h] = IF first_hit[h] THEN run ELSE @]
  /\ first_hit' = [first_hit EXCEPT ![h] = FALSE]
  /\ UNCHANGED <<commandVars, handlerVars, bufferVars, m_dest_queue,
                 m_tphandler_queue, m_add_hits_tphandler_thread_should_run,
                 consumer, aborted>>

(* get_primfind_dest: spin until there is a free destination.              *)
GetPrimfindDest(h) ==
  /\ producer[h].pc = "waitDest"
  /\ \E dest \in m_dest_queue :
       /\ m_dest_queue' = m_dest_queue \ {dest}
       /\ producer' = [producer EXCEPT ![h] = [pc |-> "push", dest |-> dest]]
  /\ UNCHANGED <<commandVars, handlerVars, first_hit, seeded, bufferVars,
                 m_tphandler_queue, m_add_hits_tphandler_thread_should_run,
                 consumer, aborted>>

(* An algorithm that is neither SWTPG nor AbsRS throws in the thread.      *)
UnknownAlgorithm(h) ==
  /\ producer[h].pc = "push"
  /\ m_tpg_algorithm = "other"
  /\ aborted' = TRUE
  /\ UNCHANGED <<commandVars, handlerVars, halfVars, bufferVars, m_dest_queue,
                 m_tphandler_queue, m_add_hits_tphandler_thread_should_run,
                 consumer>>

(* The hits are found and handed over, if the queue has room.              *)
PushHits(h) ==
  /\ producer[h].pc = "push"
  /\ m_tpg_algorithm # "other"
  /\ Len(m_tphandler_queue) < Capacity
  /\ m_tphandler_queue'
       = Append(m_tphandler_queue,
                [output_location |-> producer[h].dest, origin |-> run])
  /\ producer' = [producer EXCEPT ![h] = Idle]
  /\ UNCHANGED <<commandVars, handlerVars, first_hit, seeded, bufferVars,
                 m_dest_queue, m_add_hits_tphandler_thread_should_run, consumer,
                 aborted>>

(* No room: the hits are dropped, and with them the only pointer to the    *)
(* destination.                                                            *)
DropHits(h) ==
  /\ producer[h].pc = "push"
  /\ m_tpg_algorithm # "other"
  /\ Len(m_tphandler_queue) >= Capacity
  /\ leaked' = leaked \cup {producer[h].dest}
  /\ producer' = [producer EXCEPT ![h] = Idle]
  /\ UNCHANGED <<commandVars, handlerVars, first_hit, seeded, allocated, deleted,
                 m_dest_queue, m_tphandler_queue,
                 m_add_hits_tphandler_thread_should_run, consumer, aborted>>

----------------------------------------------------------------------------
(* The consumer: add_hits_to_tphandler.                                    *)

(* The outer loop looks at should_run, once every millisecond.             *)
OuterLoop ==
  /\ consumer.pc = "outer"
  /\ consumer' = [consumer EXCEPT !.pc =
       IF m_add_hits_tphandler_thread_should_run THEN "inner" ELSE "exited"]
  /\ UNCHANGED <<commandVars, handlerVars, halfVars, bufferVars, m_dest_queue,
                 m_tphandler_queue, m_add_hits_tphandler_thread_should_run,
                 aborted>>

(* The inner loop takes results while there are any.                       *)
PopHits ==
  /\ consumer.pc = "inner"
  /\ m_tphandler_queue # <<>>
  /\ consumer' = [pc |-> "process", item |-> Head(m_tphandler_queue)]
  /\ m_tphandler_queue' = Tail(m_tphandler_queue)
  /\ UNCHANGED <<commandVars, handlerVars, halfVars, bufferVars, m_dest_queue,
                 m_add_hits_tphandler_thread_should_run, aborted>>

NoMoreHits ==
  /\ consumer.pc = "inner"
  /\ m_tphandler_queue = <<>>
  /\ consumer' = [consumer EXCEPT !.pc = "outer"]
  /\ UNCHANGED <<commandVars, handlerVars, halfVars, bufferVars, m_dest_queue,
                 m_tphandler_queue, m_add_hits_tphandler_thread_should_run,
                 aborted>>

(* process_swtpg_hits: the handler takes in hits of the result, if there   *)
(* are any and they are young enough.                                      *)
ProcessHits ==
  /\ consumer.pc = "process"
  /\ \E new \in SUBSET {consumer.item.origin} :
       m_tphandler' = [m_tphandler EXCEPT !.recent = new]
  /\ consumer' = [consumer EXCEPT !.pc = "send"]
  /\ UNCHANGED <<commandVars, sent, halfVars, bufferVars, m_dest_queue,
                 m_tphandler_queue, m_add_hits_tphandler_thread_should_run,
                 aborted>>

(* try_sending_tpsets: no TPSet, or one with some of the handler's TPs; of *)
(* the runs they come from others may stay behind.  TPs of the result just *)
(* processed are not among them: add_tp took them in for being younger     *)
(* than the timeout, and the window of a TPSet ended more than the timeout *)
(* before the same currentTime.  How much later the next result is, and so *)
(* whether they can go out with it, is left open.                          *)
SendTPSet ==
  /\ consumer.pc = "send"
  /\ \E objects \in SUBSET m_tphandler.origins :
     \E gone \in SUBSET objects :
       /\ m_tphandler' = [m_tphandler EXCEPT
            !.origins = (@ \ gone) \cup m_tphandler.recent,
            !.recent = {}]
       /\ sent' = sent \cup ({m_tphandler.run_number} \X objects)
  /\ consumer' = [consumer EXCEPT !.pc = "free"]
  /\ UNCHANGED <<commandVars, halfVars, bufferVars, m_dest_queue,
                 m_tphandler_queue, m_add_hits_tphandler_thread_should_run,
                 aborted>>

(* free_primfind_dest: a push with no timeout.  Should the queue be full,  *)
(* it throws in the thread.                                                *)
FreePrimfindDest ==
  /\ consumer.pc = "free"
  /\ IF Cardinality(m_dest_queue) < DestCapacity
     THEN /\ m_dest_queue' = m_dest_queue \cup {consumer.item.output_location}
          /\ consumer' = [pc |-> "inner", item |-> NoItem]
          /\ UNCHANGED aborted
     ELSE /\ aborted' = TRUE
          /\ UNCHANGED <<m_dest_queue, consumer>>
  /\ UNCHANGED <<commandVars, handlerVars, halfVars, bufferVars,
                 m_tphandler_queue, m_add_hits_tphandler_thread_should_run>>

----------------------------------------------------------------------------
Command ==
  \/ \E enable \in EnableChoices, algorithm \in Algorithms :
       Conf(enable, algorithm)
  \/ ConfThrows
  \/ StartSetRunNumber
  \/ Stop
  \/ Scrap

(* The rest of a command that is under way.                                *)
CommandEnd == StartReset \/ StopDone \/ ScrapDone

Produce(h) ==
  GetPrimfindDest(h) \/ UnknownAlgorithm(h) \/ PushHits(h) \/ DropHits(h)

Consume ==
  OuterLoop \/ PopHits \/ NoMoreHits \/ ProcessHits \/ SendTPSet
    \/ FreePrimfindDest

Next ==
  /\ ~aborted
  /\ \/ Command
     \/ CommandEnd
     \/ \E h \in Halves : TakeSuperchunk(h) \/ Produce(h)
     \/ Consume

Spec == Init /\ [][Next]_vars

(* The threads run; whether commands and superchunks come is up to others. *)
Fairness ==
  /\ WF_vars(~aborted /\ CommandEnd)
  /\ \A h \in Halves : WF_vars(~aborted /\ Produce(h))
  /\ WF_vars(~aborted /\ Consume)

FairSpec == Spec /\ Fairness

----------------------------------------------------------------------------
SeparateHalves ==
  \A g, h \in Halves :
    g # h /\ producer[g].dest = producer[h].dest => producer[g].dest = NoBuffer

SeparateResults ==
  \A i, j \in DOMAIN m_tphandler_queue :
    m_tphandler_queue[i].output_location = m_tphandler_queue[j].output_location
      => i = j

SeparatePlaces ==
  /\ Held \cap Queued = {} /\ Held \cap Consumed = {}
  /\ Queued \cap Consumed = {}
  /\ m_dest_queue \cap (Held \cup Queued \cup Consumed) = {}

(* A buffer is in one place at a time: free, with one producer, in the hit *)
(* queue once, or with the consumer.  So find_hits never writes into a     *)
(* buffer that process_swtpg_hits reads or another half writes.            *)
ExclusiveBuffers == SeparateHalves /\ SeparateResults /\ SeparatePlaces

(* Where a buffer is in its life, as module BufferPool has it.             *)
Stages ==
  LET held == Held
      queued == Queued
      consumed == Consumed
  IN  [b \in Buffers |->
         IF b \in m_dest_queue THEN "free"
         ELSE IF b \in held THEN "written"
         ELSE IF b \in queued THEN "waiting"
         ELSE IF b \in consumed THEN "read"
         ELSE IF b \in leaked THEN "lost"
         ELSE IF b \in deleted THEN "deleted"
         ELSE "new"]

Pool == INSTANCE BufferPool WITH
          Size <- DestCapacity, Room <- Capacity, Writers <- Cardinality(Halves),
          stage <- Stages

(* Every buffer goes through its life step by step: one thread after the   *)
(* other, through the hit queue, back into the queue of destinations; none *)
(* vanishes, none is freed twice, and find_hits loses one only when the    *)
(* hit queue is full.                                                      *)
ImplementsBufferPool == Pool!Spec

(* No thread touches a buffer that scrap deleted, and a deleted or leaked  *)
(* buffer never comes back.                                                *)
NoDanglingBuffers ==
  (m_dest_queue \cup Held \cup Queued \cup Consumed) \cap (deleted \cup leaked)
    = {}

(* Within one configuration at most Extra buffers leak: to leak one the    *)
(* queue must hold Capacity others, and the leaking thread one more.  From *)
(* then on the queue can no longer fill up, and no more hits are dropped.  *)
LeakBound == confs <= 1 => Cardinality(leaked) <= Extra

(* The buffers that may come to a thread that waits for one.               *)
Circulating == m_dest_queue \cup Held \cup Queued \cup Consumed

(* A half that spins in get_primfind_dest is never left without buffers:   *)
(* however many were leaked, in this configuration or an earlier one,      *)
(* Capacity of them go around, and the consumer that brings them back is   *)
(* there.                                                                  *)
NoStarvation ==
  \A h \in Halves : producer[h].pc = "waitDest" =>
    /\ Cardinality(Circulating) >= Capacity
    /\ consumer.pc \notin {"none", "exited"}

(* With a known algorithm no thread dies and start finds its handler, in   *)
(* the first configuration: the queue of destinations has room for every   *)
(* buffer that comes back.  In a later one it need not have: results left  *)
(* in the hit queue by the earlier configuration bring their buffers, too. *)
NeverAborts == confs <= 1 /\ m_tpg_algorithm # "other" => ~aborted

(* Every superchunk is processed with pedestals taken from its own run.    *)
SeededThisRun ==
  \A h \in Halves : producer[h].pc # "idle" => seeded[h] = run

(* stop and scrap come to an end: no thread waits for a destination        *)
(* forever, in spite of the leaks.                                         *)
StopEnds == command = "stopping" ~> command = "configured"
ScrapEnds == command = "scrapping" ~> command = "initial"

(* "Reset software TPG resources" at start: a TPSet of a run holds TPs     *)
(* found in data of that run only.                                         *)
RunIsolation == \A s \in sent : s[1] = s[2]
============================================================================
