------------------------ MODULE InductionHandshake ------------------------
(***************************************************************************)
(* The software trigger-primitive generation of WIBFrameProcessor          *)
(* (ProtoWIB).  The channels of a superchunk are split in two groups.  The *)
(* post-processing thread finds the hits of the "collection" group; at the *)
(* same time a second thread finds those of the "induction" group.  The    *)
(* two meet twice for every superchunk, spinning on one atomic flag,       *)
(* m_induction_item_ready:                                                 *)
(*                                                                         *)
(*   collection                           induction                        *)
(*   m_induction_item_to_process = &item  spin until ready                 *)
(*   ready = true                         find hits of *item               *)
(*   find own hits, give them away        ready = false                    *)
(*   spin until not ready                                                  *)
(*   give the induction hits away                                          *)
(*                                                                         *)
(* The item lives on the collection thread's stack, the hits go through a  *)
(* buffer that stop deletes, and the induction thread lives from conf to   *)
(* scrap.  Nothing but the flag protects any of it.                        *)
(***************************************************************************)
EXTENDS Integers, FiniteSets

CONSTANTS
  EnableChoices,  \* the values of enable_software_tpg that conf may be given
  MaxConfs,       \* bound on conf commands
  MaxRuns,        \* bound on start commands
  MaxItems        \* bound on superchunks

ASSUME HandshakeAssumption ==
  /\ EnableChoices \subseteq BOOLEAN
  /\ MaxConfs \in Nat
  /\ MaxRuns \in Nat
  /\ MaxItems \in Nat

VARIABLES
  command,                      \* state of run control, or command under way
  confs,                        \* conf commands so far
  run,                          \* number of the current or last run
  m_sw_tpg_enabled,
  tasks,                        \* is find_collection_hits registered?
  m_tphandler,                  \* does the handler exist?
  m_ind_thread_should_run,
  m_induction_item_ready,
  m_induction_item_to_process,  \* the superchunk it points into, NoItem at first
  m_first_coll,
  m_first_ind,
  collSeed,                     \* the run m_coll_tpg_pi's pedestals come from
  indSeed,                      \* the same of m_ind_tpg_pi
  m_ind_primfind_dest,          \* the superchunk whose hits it holds, or Deleted
  item,                         \* the superchunk on the collection thread's stack
  collection,                   \* where the collection thread is
  induction,                    \* where the induction thread is
  added,                        \* history: <<superchunk under way, hits' own>>
  aborted                       \* a bad access, or a command that threw

commandVars == <<command, confs, run, m_sw_tpg_enabled, tasks, m_tphandler>>
flags       == <<m_ind_thread_should_run, m_induction_item_ready>>
firsts      == <<m_first_coll, m_first_ind, collSeed, indSeed>>
vars == <<commandVars, flags, firsts, m_induction_item_to_process,
          m_ind_primfind_dest, item, collection, induction, added, aborted>>

InvalidRun == 0
AllRuns == 0 .. MaxRuns

NoItem == 0
Items == 1 .. MaxItems
Deleted == -1

FlagTypes ==
  /\ m_sw_tpg_enabled \in BOOLEAN
  /\ tasks \in BOOLEAN
  /\ m_tphandler \in BOOLEAN
  /\ m_ind_thread_should_run \in BOOLEAN
  /\ m_induction_item_ready \in BOOLEAN
  /\ m_first_coll \in BOOLEAN
  /\ m_first_ind \in BOOLEAN
  /\ aborted \in BOOLEAN

DataTypes ==
  /\ command \in {"initial", "configured", "running", "stopping", "scrapping"}
  /\ confs \in 0 .. MaxConfs
  /\ run \in AllRuns
  /\ m_induction_item_to_process \in Items \cup {NoItem}
  /\ collSeed \in AllRuns
  /\ indSeed \in AllRuns
  /\ m_ind_primfind_dest \in Items \cup {NoItem, Deleted}
  /\ item \in Items \cup {NoItem}
  /\ collection \in {"idle", "point", "signal", "find", "wait", "add"}
  /\ induction \in {"none", "outer", "spin", "paused", "check", "find", "done",
                    "exit", "exited"}
  /\ added \in SUBSET (Items \X (Items \cup {NoItem, Deleted}))

TypeOK == FlagTypes /\ DataTypes

Init ==
  /\ command = "initial"
  /\ confs = 0
  /\ run = InvalidRun
  /\ m_sw_tpg_enabled = FALSE
  /\ tasks = FALSE
  /\ m_tphandler = FALSE
  /\ m_ind_thread_should_run = FALSE
  /\ m_induction_item_ready = FALSE
  /\ m_induction_item_to_process = NoItem
  /\ m_first_coll = TRUE
  /\ m_first_ind = TRUE
  /\ collSeed = InvalidRun
  /\ indSeed = InvalidRun
  /\ m_ind_primfind_dest = Deleted
  /\ item = NoItem
  /\ collection = "idle"
  /\ induction = "none"
  /\ added = {}
  /\ aborted = FALSE

----------------------------------------------------------------------------
(* Variants of the code, used to see that the properties notice a bug.     *)

\* find_collection_hits does not wait for the induction thread
NoWait ==
  /\ collection = "wait"
  /\ collection' = "add"
  /\ UNCHANGED <<commandVars, flags, firsts, m_induction_item_to_process,
                 m_ind_primfind_dest, item, induction, added, aborted>>

\* the induction thread takes the flag down before it has found the hits
TakeFlagThenFind ==
  /\ induction = "check"
  /\ induction' = IF m_ind_thread_should_run THEN "find" ELSE "exit"
  /\ m_induction_item_ready' = (m_induction_item_ready /\ ~m_ind_thread_should_run)
  /\ UNCHANGED <<commandVars, m_ind_thread_should_run, firsts,
                 m_induction_item_to_process, m_ind_primfind_dest, item,
                 collection, added, aborted>>

\* the flag stays up
DoneKeepsFlag ==
  /\ induction = "done"
  /\ induction' = "outer"
  /\ UNCHANGED <<commandVars, flags, firsts, m_induction_item_to_process,
                 m_ind_primfind_dest, item, collection, added, aborted>>

\* the inner loop does not look at should_run
PausedSpinsOn ==
  /\ induction = "paused"
  /\ induction' = "spin"
  /\ UNCHANGED <<commandVars, flags, firsts, m_induction_item_to_process,
                 m_ind_primfind_dest, item, collection, added, aborted>>

\* stop deletes the buffers before the base class has joined its threads
StopDeletesAtOnce ==
  /\ command = "stopping"
  /\ m_ind_primfind_dest' = Deleted
  /\ command' = "configured"
  /\ UNCHANGED <<confs, run, m_sw_tpg_enabled, tasks, m_tphandler, flags,
                 firsts, m_induction_item_to_process, item, collection,
                 induction, added, aborted>>

\* start does not set m_first_coll
StartKeepsFirstColl ==
  /\ command = "configured"
  /\ run < MaxRuns
  /\ run' = run + 1
  /\ command' = "running"
  /\ aborted' = (m_sw_tpg_enabled /\ ~m_tphandler)
  /\ IF m_sw_tpg_enabled /\ m_tphandler
     THEN /\ m_ind_primfind_dest' = NoItem
          /\ collSeed' = InvalidRun
          /\ indSeed' = InvalidRun
     ELSE UNCHANGED <<m_ind_primfind_dest, collSeed, indSeed>>
  /\ UNCHANGED <<confs, m_sw_tpg_enabled, tasks, m_tphandler, flags,
                 m_induction_item_to_process, m_first_coll, m_first_ind, item,
                 collection, induction, added>>

----------------------------------------------------------------------------
(* Run control.                                                            *)

(* conf: with software TPG, create the handler, register the collection    *)
(* task and launch the induction thread.  m_sw_tpg_enabled is never set    *)
(* back to false.                                                          *)
Conf(enable) ==
  /\ command = "initial"
  /\ confs < MaxConfs
  /\ confs' = confs + 1
  /\ m_sw_tpg_enabled' = (m_sw_tpg_enabled \/ enable)
  /\ m_tphandler' = (m_tphandler \/ enable)
  /\ tasks' = enable
  /\ m_ind_thread_should_run' = (m_ind_thread_should_run \/ enable)
  /\ induction' = IF enable THEN "outer" ELSE induction
  /\ command' = "configured"
  /\ UNCHANGED <<run, m_induction_item_ready, firsts, item, collection, added,
                 m_induction_item_to_process, m_ind_primfind_dest, aborted>>

(* start: allocate the hit buffers, give both groups a fresh               *)
(* ProcessingInfo, and make the next superchunk the first of the           *)
(* collection group (not of the induction group).  With m_sw_tpg_enabled   *)
(* left over from an earlier conf the handler is a null pointer.           *)
Start ==
  /\ command = "configured"
  /\ run < MaxRuns
  /\ run' = run + 1
  /\ command' = "running"
  /\ aborted' = (m_sw_tpg_enabled /\ ~m_tphandler)
  /\ IF m_sw_tpg_enabled /\ m_tphandler
     THEN /\ m_ind_primfind_dest' =
               IF m_ind_primfind_dest = Deleted THEN NoItem
               ELSE m_ind_primfind_dest
          /\ collSeed' = InvalidRun
          /\ indSeed' = InvalidRun
     ELSE UNCHANGED <<m_ind_primfind_dest, collSeed, indSeed>>
  /\ m_first_coll' = TRUE
  /\ UNCHANGED <<confs, m_sw_tpg_enabled, tasks, m_tphandler, flags,
                 m_induction_item_to_process, m_first_ind, item, collection,
                 induction, added>>

(* stop, first part: the base class tells its threads to stop.             *)
Stop ==
  /\ command = "running"
  /\ command' = "stopping"
  /\ UNCHANGED <<confs, run, m_sw_tpg_enabled, tasks, m_tphandler, flags,
                 firsts, m_induction_item_to_process, m_ind_primfind_dest, item,
                 collection, induction, added, aborted>>

(* stop, second part: the base class has joined the collection thread; the *)
(* hit buffers are deleted.  The induction thread runs on.                 *)
StopDone ==
  /\ command = "stopping"
  /\ collection = "idle"
  /\ m_ind_primfind_dest' =
       IF m_sw_tpg_enabled THEN Deleted ELSE m_ind_primfind_dest
  /\ command' = "configured"
  /\ UNCHANGED <<confs, run, m_sw_tpg_enabled, tasks, m_tphandler, flags,
                 firsts, m_induction_item_to_process, item, collection,
                 induction, added, aborted>>

(* scrap, first part: tell the induction thread to stop and wait for it.   *)
(* Joining a thread that is not there throws: the command fails, and       *)
(* nothing more is modelled.                                               *)
Scrap ==
  /\ command = "configured"
  /\ IF m_sw_tpg_enabled
     THEN /\ m_ind_thread_should_run' = FALSE
          /\ aborted' = (induction = "none")
          /\ command' = "scrapping"
          /\ UNCHANGED <<tasks, m_tphandler>>
     ELSE /\ m_tphandler' = FALSE
          /\ tasks' = FALSE
          /\ command' = "initial"
          /\ UNCHANGED <<m_ind_thread_should_run, aborted>>
  /\ UNCHANGED <<confs, run, m_sw_tpg_enabled, m_induction_item_ready, firsts,
                 m_induction_item_to_process, m_ind_primfind_dest, item,
                 collection, induction, added>>

(* scrap, second part: the induction thread is joined, the handler         *)
(* destroyed and the task dropped.                                         *)
ScrapDone ==
  /\ command = "scrapping"
  /\ induction = "exited"
  /\ induction' = "none"
  /\ m_tphandler' = FALSE
  /\ tasks' = FALSE
  /\ command' = "initial"
  /\ UNCHANGED <<confs, run, m_sw_tpg_enabled, flags, firsts, item, collection,
                 m_induction_item_to_process, m_ind_primfind_dest, added,
                 aborted>>

----------------------------------------------------------------------------
(* The collection thread: find_collection_hits.                            *)

(* A superchunk is expanded onto the stack.  The first one of a run seeds  *)
(* the pedestals of the collection group.                                  *)
TakeSuperchunk ==
  /\ command = "running"
  /\ tasks
  /\ collection = "idle"
  /\ item < MaxItems
  /\ item' = item + 1
  /\ collSeed' = IF m_first_coll THEN run ELSE collSeed
  /\ collection' = "point"
  /\ UNCHANGED <<commandVars, flags, m_first_coll, m_first_ind, indSeed,
                 m_induction_item_to_process, m_ind_primfind_dest, induction,
                 added, aborted>>

PointToItem ==
  /\ collection = "point"
  /\ m_induction_item_to_process' = item
  /\ collection' = "signal"
  /\ UNCHANGED <<commandVars, flags, firsts, m_ind_primfind_dest, item,
                 induction, added, aborted>>

SignalItem ==
  /\ collection = "signal"
  /\ m_induction_item_ready' = TRUE
  /\ collection' = "find"
  /\ UNCHANGED <<commandVars, m_ind_thread_should_run, firsts,
                 m_induction_item_to_process, m_ind_primfind_dest, item,
                 induction, added, aborted>>

FindCollectionHits ==
  /\ collection = "find"
  /\ m_first_coll' = FALSE
  /\ collection' = "wait"
  /\ UNCHANGED <<commandVars, flags, m_first_ind, collSeed, indSeed,
                 m_induction_item_to_process, m_ind_primfind_dest, item,
                 induction, added, aborted>>

WaitForInduction ==
  /\ collection = "wait"
  /\ ~m_induction_item_ready
  /\ collection' = "add"
  /\ UNCHANGED <<commandVars, flags, firsts, m_induction_item_to_process,
                 m_ind_primfind_dest, item, induction, added, aborted>>

(* The induction hits go to the handler under this superchunk's timestamp, *)
(* and try_sending_tpsets is called.                                       *)
AddInductionHits ==
  /\ collection = "add"
  /\ added' = added \cup {<<item, m_ind_primfind_dest>>}
  /\ collection' = "idle"
  /\ UNCHANGED <<commandVars, flags, firsts, m_induction_item_to_process,
                 m_ind_primfind_dest, item, induction, aborted>>

----------------------------------------------------------------------------
(* The induction thread: find_induction_hits_thread.                       *)

(* The outer loop looks at should_run.                                     *)
OuterLoop ==
  /\ induction = "outer"
  /\ induction' = IF m_ind_thread_should_run THEN "spin" ELSE "exit"
  /\ UNCHANGED <<commandVars, flags, firsts, m_induction_item_to_process,
                 m_ind_primfind_dest, item, collection, added, aborted>>

(* The inner loop looks at the flag, and between two looks at should_run.  *)
Spin ==
  /\ induction = "spin"
  /\ induction' = IF m_induction_item_ready THEN "check" ELSE "paused"
  /\ UNCHANGED <<commandVars, flags, firsts, m_induction_item_to_process,
                 m_ind_primfind_dest, item, collection, added, aborted>>

Paused ==
  /\ induction = "paused"
  /\ induction' = IF m_ind_thread_should_run THEN "spin" ELSE "check"
  /\ UNCHANGED <<commandVars, flags, firsts, m_induction_item_to_process,
                 m_ind_primfind_dest, item, collection, added, aborted>>

(* Once out of the inner loop should_run is looked at again.               *)
Check ==
  /\ induction = "check"
  /\ induction' = IF m_ind_thread_should_run THEN "find" ELSE "exit"
  /\ UNCHANGED <<commandVars, flags, firsts, m_induction_item_to_process,
                 m_ind_primfind_dest, item, collection, added, aborted>>

(* find_induction_hits: the first superchunk seeds the pedestals; the hits *)
(* of the item pointed to go into the buffer.                              *)
FindInductionHits ==
  /\ induction = "find"
  /\ indSeed' = IF m_first_ind THEN run ELSE indSeed
  /\ m_first_ind' = FALSE
  /\ m_ind_primfind_dest' = IF m_ind_primfind_dest = Deleted THEN Deleted
                            ELSE m_induction_item_to_process
  /\ induction' = "done"
  /\ UNCHANGED <<commandVars, flags, m_first_coll, collSeed,
                 m_induction_item_to_process, item, collection, added, aborted>>

SignalDone ==
  /\ induction = "done"
  /\ m_induction_item_ready' = FALSE
  /\ induction' = "outer"
  /\ UNCHANGED <<commandVars, m_ind_thread_should_run, firsts,
                 m_induction_item_to_process, m_ind_primfind_dest, item,
                 collection, added, aborted>>

(* On its way out the thread takes the flag down once more.                *)
ExitThread ==
  /\ induction = "exit"
  /\ m_induction_item_ready' = FALSE
  /\ induction' = "exited"
  /\ UNCHANGED <<commandVars, m_ind_thread_should_run, firsts,
                 m_induction_item_to_process, m_ind_primfind_dest, item,
                 collection, added, aborted>>

----------------------------------------------------------------------------
Command ==
  (\E enable \in EnableChoices : Conf(enable)) \/ Start \/ Stop \/ Scrap

(* The rest of a command that is under way.                                *)
CommandEnd == StopDone \/ ScrapDone

(* The collection thread, once it has a superchunk.                        *)
FindHits ==
  PointToItem \/ SignalItem \/ FindCollectionHits \/ WaitForInduction
    \/ AddInductionHits

InductionThread ==
  OuterLoop \/ Spin \/ Paused \/ Check \/ FindInductionHits \/ SignalDone
    \/ ExitThread

Next ==
  /\ ~aborted
  /\ Command \/ CommandEnd \/ TakeSuperchunk \/ FindHits \/ InductionThread

Spec == Init /\ [][Next]_vars

(* Both threads run; whether commands and superchunks come is up to        *)
(* others.                                                                 *)
Fairness ==
  /\ WF_vars(~aborted /\ CommandEnd)
  /\ WF_vars(~aborted /\ FindHits)
  /\ WF_vars(~aborted /\ InductionThread)

FairSpec == Spec /\ Fairness

----------------------------------------------------------------------------
(* The induction hits that are added under a superchunk's timestamp were   *)
(* found in that superchunk, and not left in the buffer by an earlier one. *)
HitsOfThisItem == \A pair \in added : pair[1] = pair[2]

(* The induction thread reads an item only while find_collection_hits,     *)
(* whose stack it is on, is there, and writes only into a buffer that      *)
(* stop has not deleted.                                                   *)
ItemAlive ==
  induction = "find" =>
    /\ collection \in {"find", "wait"}
    /\ m_induction_item_to_process = item
    /\ m_ind_primfind_dest # Deleted

(* The flag is not taken down before the hits of the item it announced are *)
(* in the buffer: neither side can miss the other's signal.                *)
NoLostSignal ==
  [][m_induction_item_ready /\ ~m_induction_item_ready'
       => m_ind_primfind_dest = item]_vars

(* The collection hits are found with pedestals of their own run.          *)
CollectionSeeded == collection \in {"find", "wait"} => collSeed = run

(* So should the induction hits be: "Reset software TPG resources" at      *)
(* start.                                                                  *)
InductionSeeded == induction = "done" => indSeed = run

(* "Make sure this gets set so the collection thread isn't waiting         *)
(* forever": the wait for the induction thread ends.                       *)
CollectionReturns == collection = "wait" ~> collection = "idle"

(* scrap ends: the induction thread leaves its loops when told to.         *)
ScrapEnds == command = "scrapping" ~> (command = "initial" \/ aborted)
============================================================================
