---------------------- MODULE InductionHandshakeProofs ----------------------
(***************************************************************************)
(* Theorems of InductionHandshake.  The one flag is enough because of      *)
(* where the threads are while it is up and while it is down: up, the      *)
(* collection thread is between raising it and finding it down; down, the  *)
(* induction thread is in neither of the steps that touch the item or the  *)
(* buffer.  HInv says so, with what run control adds: no superchunk is     *)
(* under way while the induction thread is told to leave or the buffer is  *)
(* deleted.                                                                *)
(***************************************************************************)
EXTENDS InductionHandshake, TLAPS

(* Who may hold the flag up, and who may count on it.                      *)
FlagInv ==
  /\ m_induction_item_ready => collection \in {"find", "wait"}
  /\ induction \in {"find", "done"} => m_induction_item_ready
  /\ induction = "check" /\ m_ind_thread_should_run => m_induction_item_ready

(* The pointer and the buffer go with the superchunk under way.            *)
ItemInv ==
  /\ collection \in {"signal", "find", "wait"} =>
       m_induction_item_to_process = item
  /\ collection # "idle" => item \in Items
  /\ induction = "done" => m_ind_primfind_dest = item
  /\ collection \in {"find", "wait"} /\ ~m_induction_item_ready =>
       m_ind_primfind_dest = item
  /\ collection = "add" => m_ind_primfind_dest = item

(* Where run control is while the threads work.                            *)
CommandInv ==
  /\ collection # "idle" => command \in {"running", "stopping"} /\ tasks
  /\ command = "initial" => induction = "none"
  /\ induction # "none" /\ ~m_ind_thread_should_run => command = "scrapping"
  /\ induction # "none" => m_sw_tpg_enabled
  /\ induction \in {"exit", "exited"} => ~m_ind_thread_should_run
  /\ tasks => m_sw_tpg_enabled /\ m_tphandler
  /\ tasks /\ command # "scrapping" =>
       m_ind_thread_should_run /\ induction # "none"
  /\ command \in {"running", "stopping"} /\ tasks => m_ind_primfind_dest # Deleted

(* The pedestals of the collection group.                                  *)
SeedInv ==
  /\ collection # "idle" => collSeed = run
  /\ command \in {"running", "stopping"} /\ tasks => m_first_coll \/ collSeed = run

HInv == TypeOK /\ FlagInv /\ ItemInv /\ CommandInv /\ SeedInv /\ HitsOfThisItem

LEMMA InitHInv == Init => HInv
<1> SUFFICES ASSUME Init PROVE HInv
  OBVIOUS
<1> USE DEF Init
<1>1. FlagTypes
  BY DEF FlagTypes
<1>2. DataTypes
  BY HandshakeAssumption
  DEF DataTypes, InvalidRun, AllRuns, NoItem, Items, Deleted
<1>3. FlagInv
  BY DEF FlagInv
<1>4. ItemInv
  BY DEF ItemInv
<1>5. CommandInv
  BY DEF CommandInv
<1>6. SeedInv
  BY DEF SeedInv
<1>7. HitsOfThisItem
  BY DEF HitsOfThisItem
<1> QED
  BY <1>1, <1>2, <1>3, <1>4, <1>5, <1>6, <1>7 DEF HInv, TypeOK

LEMMA KeepsFlagTypes ==
  ASSUME FlagTypes, [Next]_vars
  PROVE  FlagTypes'
<1> USE DEF commandVars, flags, firsts, FlagTypes
<1>1. ASSUME NEW enable \in EnableChoices, Conf(enable) PROVE FlagTypes'
  BY <1>1, HandshakeAssumption DEF Conf
<1>2. CASE Start
  BY <1>2, HandshakeAssumption DEF Start
<1>3. CASE Stop
  BY <1>3, HandshakeAssumption DEF Stop
<1>4. CASE StopDone
  BY <1>4, HandshakeAssumption DEF StopDone
<1>5. CASE Scrap
  BY <1>5, HandshakeAssumption DEF Scrap
<1>6. CASE ScrapDone
  BY <1>6, HandshakeAssumption DEF ScrapDone
<1>7. CASE TakeSuperchunk
  BY <1>7, HandshakeAssumption DEF TakeSuperchunk
<1>8. CASE PointToItem
  BY <1>8, HandshakeAssumption DEF PointToItem
<1>9. CASE SignalItem
  BY <1>9, HandshakeAssumption DEF SignalItem
<1>10. CASE FindCollectionHits
  BY <1>10, HandshakeAssumption DEF FindCollectionHits
<1>11. CASE WaitForInduction
  BY <1>11, HandshakeAssumption DEF WaitForInduction
<1>12. CASE AddInductionHits
  BY <1>12, HandshakeAssumption DEF AddInductionHits
<1>13. CASE OuterLoop
  BY <1>13, HandshakeAssumption DEF OuterLoop
<1>14. CASE Spin
  BY <1>14, HandshakeAssumption DEF Spin
<1>15. CASE Paused
  BY <1>15, HandshakeAssumption DEF Paused
<1>16. CASE Check
  BY <1>16, HandshakeAssumption DEF Check
<1>17. CASE FindInductionHits
  BY <1>17, HandshakeAssumption DEF FindInductionHits
<1>18. CASE SignalDone
  BY <1>18, HandshakeAssumption DEF SignalDone
<1>19. CASE ExitThread
  BY <1>19, HandshakeAssumption DEF ExitThread
<1>20. CASE UNCHANGED vars
  BY <1>20 DEF vars
<1> QED
  BY <1>1, <1>2, <1>3, <1>4, <1>5, <1>6, <1>7, <1>8, <1>9, <1>10, <1>11, <1>12, <1>13, <1>14, <1>15, <1>16, <1>17, <1>18, <1>19, <1>20
  DEF Next, Command, CommandEnd, FindHits, InductionThread

LEMMA KeepsDataTypes ==
  ASSUME DataTypes, ItemInv, [Next]_vars
  PROVE  DataTypes'
<1> USE DEF commandVars, flags, firsts, DataTypes, ItemInv, InvalidRun, AllRuns, NoItem, Items, Deleted
<1>1. ASSUME NEW enable \in EnableChoices, Conf(enable) PROVE DataTypes'
  BY <1>1, HandshakeAssumption DEF Conf
<1>2. CASE Start
  BY <1>2, HandshakeAssumption DEF Start
<1>3. CASE Stop
  BY <1>3, HandshakeAssumption DEF Stop
<1>4. CASE StopDone
  BY <1>4, HandshakeAssumption DEF StopDone
<1>5. CASE Scrap
  BY <1>5, HandshakeAssumption DEF Scrap
<1>6. CASE ScrapDone
  BY <1>6, HandshakeAssumption DEF ScrapDone
<1>7. CASE TakeSuperchunk
  BY <1>7, HandshakeAssumption DEF TakeSuperchunk
<1>8. CASE PointToItem
  BY <1>8, HandshakeAssumption DEF PointToItem
<1>9. CASE SignalItem
  BY <1>9, HandshakeAssumption DEF SignalItem
<1>10. CASE FindCollectionHits
  BY <1>10, HandshakeAssumption DEF FindCollectionHits
<1>11. CASE WaitForInduction
  BY <1>11, HandshakeAssumption DEF WaitForInduction
<1>12. CASE AddInductionHits
  BY <1>12, HandshakeAssumption DEF AddInductionHits
<1>13. CASE OuterLoop
  BY <1>13, HandshakeAssumption DEF OuterLoop
<1>14. CASE Spin
  BY <1>14, HandshakeAssumption DEF Spin
<1>15. CASE Paused
  BY <1>15, HandshakeAssumption DEF Paused
<1>16. CASE Check
  BY <1>16, HandshakeAssumption DEF Check
<1>17. CASE FindInductionHits
  BY <1>17, HandshakeAssumption DEF FindInductionHits
<1>18. CASE SignalDone
  BY <1>18, HandshakeAssumption DEF SignalDone
<1>19. CASE ExitThread
  BY <1>19, HandshakeAssumption DEF ExitThread
<1>20. CASE UNCHANGED vars
  BY <1>20 DEF vars
<1> QED
  BY <1>1, <1>2, <1>3, <1>4, <1>5, <1>6, <1>7, <1>8, <1>9, <1>10, <1>11, <1>12, <1>13, <1>14, <1>15, <1>16, <1>17, <1>18, <1>19, <1>20
  DEF Next, Command, CommandEnd, FindHits, InductionThread

LEMMA KeepsFlagInv ==
  ASSUME HInv, [Next]_vars
  PROVE  FlagInv'
<1> USE DEF commandVars, flags, firsts, HInv, FlagInv, CommandInv
<1>1. ASSUME NEW enable \in EnableChoices, Conf(enable) PROVE FlagInv'
  BY <1>1 DEF Conf
<1>2. CASE Start
  BY <1>2 DEF Start
<1>3. CASE Stop
  BY <1>3 DEF Stop
<1>4. CASE StopDone
  BY <1>4 DEF StopDone
<1>5. CASE Scrap
  BY <1>5 DEF Scrap
<1>6. CASE ScrapDone
  BY <1>6 DEF ScrapDone
<1>7. CASE TakeSuperchunk
  BY <1>7 DEF TakeSuperchunk
<1>8. CASE PointToItem
  BY <1>8 DEF PointToItem
<1>9. CASE SignalItem
  BY <1>9 DEF SignalItem
<1>10. CASE FindCollectionHits
  BY <1>10 DEF FindCollectionHits
<1>11. CASE WaitForInduction
  BY <1>11 DEF WaitForInduction
<1>12. CASE AddInductionHits
  BY <1>12 DEF AddInductionHits
<1>13. CASE OuterLoop
  BY <1>13 DEF OuterLoop
<1>14. CASE Spin
  BY <1>14 DEF Spin
<1>15. CASE Paused
  BY <1>15 DEF Paused
<1>16. CASE Check
  BY <1>16 DEF Check
<1>17. CASE FindInductionHits
  BY <1>17 DEF FindInductionHits
<1>18. CASE SignalDone
  BY <1>18 DEF SignalDone
<1>19. CASE ExitThread
  BY <1>19 DEF ExitThread
<1>20. CASE UNCHANGED vars
  BY <1>20 DEF vars
<1> QED
  BY <1>1, <1>2, <1>3, <1>4, <1>5, <1>6, <1>7, <1>8, <1>9, <1>10, <1>11, <1>12, <1>13, <1>14, <1>15, <1>16, <1>17, <1>18, <1>19, <1>20
  DEF Next, Command, CommandEnd, FindHits, InductionThread

LEMMA KeepsItemInv ==
  ASSUME HInv, [Next]_vars
  PROVE  ItemInv'
<1> USE DEF commandVars, flags, firsts, HInv, TypeOK, DataTypes, FlagInv, ItemInv, CommandInv, NoItem, Items, Deleted
<1>1. ASSUME NEW enable \in EnableChoices, Conf(enable) PROVE ItemInv'
  BY <1>1, HandshakeAssumption DEF Conf
<1>2. CASE Start
  BY <1>2, HandshakeAssumption DEF Start
<1>3. CASE Stop
  BY <1>3, HandshakeAssumption DEF Stop
<1>4. CASE StopDone
  BY <1>4, HandshakeAssumption DEF StopDone
<1>5. CASE Scrap
  BY <1>5, HandshakeAssumption DEF Scrap
<1>6. CASE ScrapDone
  BY <1>6, HandshakeAssumption DEF ScrapDone
<1>7. CASE TakeSuperchunk
  BY <1>7, HandshakeAssumption DEF TakeSuperchunk
<1>8. CASE PointToItem
  BY <1>8, HandshakeAssumption DEF PointToItem
<1>9. CASE SignalItem
  BY <1>9, HandshakeAssumption DEF SignalItem
<1>10. CASE FindCollectionHits
  BY <1>10, HandshakeAssumption DEF FindCollectionHits
<1>11. CASE WaitForInduction
  BY <1>11, HandshakeAssumption DEF WaitForInduction
<1>12. CASE AddInductionHits
  BY <1>12, HandshakeAssumption DEF AddInductionHits
<1>13. CASE OuterLoop
  BY <1>13, HandshakeAssumption DEF OuterLoop
<1>14. CASE Spin
  BY <1>14, HandshakeAssumption DEF Spin
<1>15. CASE Paused
  BY <1>15, HandshakeAssumption DEF Paused
<1>16. CASE Check
  BY <1>16, HandshakeAssumption DEF Check
<1>17. CASE FindInductionHits
  BY <1>17, HandshakeAssumption DEF FindInductionHits
<1>18. CASE SignalDone
  BY <1>18, HandshakeAssumption DEF SignalDone
<1>19. CASE ExitThread
  BY <1>19, HandshakeAssumption DEF ExitThread
<1>20. CASE UNCHANGED vars
  BY <1>20 DEF vars
<1> QED
  BY <1>1, <1>2, <1>3, <1>4, <1>5, <1>6, <1>7, <1>8, <1>9, <1>10, <1>11, <1>12, <1>13, <1>14, <1>15, <1>16, <1>17, <1>18, <1>19, <1>20
  DEF Next, Command, CommandEnd, FindHits, InductionThread

LEMMA KeepsCommandInv ==
  ASSUME HInv, [Next]_vars
  PROVE  CommandInv'
<1> USE DEF commandVars, flags, firsts, HInv, TypeOK, DataTypes, FlagInv, ItemInv, CommandInv, NoItem, Items, Deleted
<1>1. ASSUME NEW enable \in EnableChoices, Conf(enable) PROVE CommandInv'
  BY <1>1 DEF Conf
<1>2. CASE Start
  BY <1>2 DEF Start
<1>3. CASE Stop
  BY <1>3 DEF Stop
<1>4. CASE StopDone
  BY <1>4 DEF StopDone
<1>5. CASE Scrap
  BY <1>5 DEF Scrap
<1>6. CASE ScrapDone
  BY <1>6 DEF ScrapDone
<1>7. CASE TakeSuperchunk
  BY <1>7 DEF TakeSuperchunk
<1>8. CASE PointToItem
  BY <1>8 DEF PointToItem
<1>9. CASE SignalItem
  BY <1>9 DEF SignalItem
<1>10. CASE FindCollectionHits
  BY <1>10 DEF FindCollectionHits
<1>11. CASE WaitForInduction
  BY <1>11 DEF WaitForInduction
<1>12. CASE AddInductionHits
  BY <1>12 DEF AddInductionHits
<1>13. CASE OuterLoop
  BY <1>13 DEF OuterLoop
<1>14. CASE Spin
  BY <1>14 DEF Spin
<1>15. CASE Paused
  BY <1>15 DEF Paused
<1>16. CASE Check
  BY <1>16 DEF Check
<1>17. CASE FindInductionHits
  BY <1>17 DEF FindInductionHits
<1>18. CASE SignalDone
  BY <1>18 DEF SignalDone
<1>19. CASE ExitThread
  BY <1>19 DEF ExitThread
<1>20. CASE UNCHANGED vars
  BY <1>20 DEF vars
<1> QED
  BY <1>1, <1>2, <1>3, <1>4, <1>5, <1>6, <1>7, <1>8, <1>9, <1>10, <1>11, <1>12, <1>13, <1>14, <1>15, <1>16, <1>17, <1>18, <1>19, <1>20
  DEF Next, Command, CommandEnd, FindHits, InductionThread

LEMMA KeepsSeedInv ==
  ASSUME HInv, [Next]_vars
  PROVE  SeedInv'
<1> USE DEF commandVars, flags, firsts, HInv, CommandInv, SeedInv
<1>1. ASSUME NEW enable \in EnableChoices, Conf(enable) PROVE SeedInv'
  BY <1>1 DEF Conf
<1>2. CASE Start
  BY <1>2 DEF Start
<1>3. CASE Stop
  BY <1>3 DEF Stop
<1>4. CASE StopDone
  BY <1>4 DEF StopDone
<1>5. CASE Scrap
  BY <1>5 DEF Scrap
<1>6. CASE ScrapDone
  BY <1>6 DEF ScrapDone
<1>7. CASE TakeSuperchunk
  BY <1>7 DEF TakeSuperchunk
<1>8. CASE PointToItem
  BY <1>8 DEF PointToItem
<1>9. CASE SignalItem
  BY <1>9 DEF SignalItem
<1>10. CASE FindCollectionHits
  BY <1>10 DEF FindCollectionHits
<1>11. CASE WaitForInduction
  BY <1>11 DEF WaitForInduction
<1>12. CASE AddInductionHits
  BY <1>12 DEF AddInductionHits
<1>13. CASE OuterLoop
  BY <1>13 DEF OuterLoop
<1>14. CASE Spin
  BY <1>14 DEF Spin
<1>15. CASE Paused
  BY <1>15 DEF Paused
<1>16. CASE Check
  BY <1>16 DEF Check
<1>17. CASE FindInductionHits
  BY <1>17 DEF FindInductionHits
<1>18. CASE SignalDone
  BY <1>18 DEF SignalDone
<1>19. CASE ExitThread
  BY <1>19 DEF ExitThread
<1>20. CASE UNCHANGED vars
  BY <1>20 DEF vars
<1> QED
  BY <1>1, <1>2, <1>3, <1>4, <1>5, <1>6, <1>7, <1>8, <1>9, <1>10, <1>11, <1>12, <1>13, <1>14, <1>15, <1>16, <1>17, <1>18, <1>19, <1>20
  DEF Next, Command, CommandEnd, FindHits, InductionThread

LEMMA KeepsHits ==
  ASSUME HInv, [Next]_vars
  PROVE  HitsOfThisItem'
<1> USE DEF commandVars, flags, firsts, HInv, ItemInv, HitsOfThisItem
<1>1. ASSUME NEW enable \in EnableChoices, Conf(enable) PROVE HitsOfThisItem'
  BY <1>1 DEF Conf
<1>2. CASE Start
  BY <1>2 DEF Start
<1>3. CASE Stop
  BY <1>3 DEF Stop
<1>4. CASE StopDone
  BY <1>4 DEF StopDone
<1>5. CASE Scrap
  BY <1>5 DEF Scrap
<1>6. CASE ScrapDone
  BY <1>6 DEF ScrapDone
<1>7. CASE TakeSuperchunk
  BY <1>7 DEF TakeSuperchunk
<1>8. CASE PointToItem
  BY <1>8 DEF PointToItem
<1>9. CASE SignalItem
  BY <1>9 DEF SignalItem
<1>10. CASE FindCollectionHits
  BY <1>10 DEF FindCollectionHits
<1>11. CASE WaitForInduction
  BY <1>11 DEF WaitForInduction
<1>12. CASE AddInductionHits
  BY <1>12 DEF AddInductionHits
<1>13. CASE OuterLoop
  BY <1>13 DEF OuterLoop
<1>14. CASE Spin
  BY <1>14 DEF Spin
<1>15. CASE Paused
  BY <1>15 DEF Paused
<1>16. CASE Check
  BY <1>16 DEF Check
<1>17. CASE FindInductionHits
  BY <1>17 DEF FindInductionHits
<1>18. CASE SignalDone
  BY <1>18 DEF SignalDone
<1>19. CASE ExitThread
  BY <1>19 DEF ExitThread
<1>20. CASE UNCHANGED vars
  BY <1>20 DEF vars
<1> QED
  BY <1>1, <1>2, <1>3, <1>4, <1>5, <1>6, <1>7, <1>8, <1>9, <1>10, <1>11, <1>12, <1>13, <1>14, <1>15, <1>16, <1>17, <1>18, <1>19, <1>20
  DEF Next, Command, CommandEnd, FindHits, InductionThread

(* TypeOK and HitsOfThisItem are in HInv; HInv is inductive.               *)
THEOREM InvariantTheorem == Spec => []HInv
<1>1. HInv /\ [Next]_vars => HInv'
  BY KeepsFlagTypes, KeepsDataTypes, KeepsFlagInv, KeepsItemInv,
     KeepsCommandInv, KeepsSeedInv, KeepsHits DEF HInv, TypeOK
<1> QED
  BY InitHInv, <1>1, PTL DEF Spec

(* Every variable keeps to its type.                                       *)
THEOREM TypeCorrect == Spec => []TypeOK
  BY InvariantTheorem, PTL DEF HInv

(* The induction hits added for a superchunk are its own.                  *)
THEOREM HitsTheorem == Spec => []HitsOfThisItem
  BY InvariantTheorem, PTL DEF HInv

(* The induction thread works on a living item and a living buffer.        *)
THEOREM ItemAliveTheorem == Spec => []ItemAlive
<1>1. HInv => ItemAlive
  BY DEF HInv, FlagInv, ItemInv, CommandInv, ItemAlive
<1> QED
  BY InvariantTheorem, <1>1, PTL

(* The collection hits are found with pedestals of their own run.          *)
THEOREM CollectionSeededTheorem == Spec => []CollectionSeeded
<1>1. HInv => CollectionSeeded
  BY DEF HInv, SeedInv, CollectionSeeded
<1> QED
  BY InvariantTheorem, <1>1, PTL

(* Only SignalDone takes the flag down while a superchunk is under way:    *)
(* ExitThread finds it down.                                               *)
LEMMA FlagStep ==
  ASSUME HInv, Next, m_induction_item_ready, ~m_induction_item_ready'
  PROVE  m_ind_primfind_dest = item
<1> USE DEF commandVars, flags, firsts
<1>1. ASSUME NEW enable \in EnableChoices, Conf(enable) PROVE FALSE
  BY <1>1 DEF Conf
<1>2. CASE Command
  BY <1>1, <1>2 DEF Command, Start, Stop, Scrap
<1>3. CASE CommandEnd
  BY <1>3 DEF CommandEnd, StopDone, ScrapDone
<1>4. CASE TakeSuperchunk
  BY <1>4 DEF TakeSuperchunk
<1>5. CASE FindHits
  BY <1>5 DEF FindHits, PointToItem, SignalItem, FindCollectionHits,
     WaitForInduction, AddInductionHits
<1>6. CASE InductionThread
  <2>1. CASE SignalDone
    BY <2>1 DEF SignalDone, HInv, ItemInv
  <2>2. CASE ExitThread
    <3>1. command = "scrapping" /\ collection \in {"find", "wait"}
      BY <2>2 DEF ExitThread, HInv, CommandInv, FlagInv
    <3> QED
      BY <3>1 DEF HInv, CommandInv
  <2>3. CASE OuterLoop \/ Spin \/ Paused \/ Check \/ FindInductionHits
    BY <2>3 DEF OuterLoop, Spin, Paused, Check, FindInductionHits
  <2> QED
    BY <1>6, <2>1, <2>2, <2>3 DEF InductionThread
<1> QED
  BY <1>2, <1>3, <1>4, <1>5, <1>6 DEF Next

(* The flag is never taken down before the hits it stands for are there.   *)
THEOREM NoLostSignalTheorem == Spec => NoLostSignal
<1>1. HInv /\ [Next]_vars
        => [m_induction_item_ready /\ ~m_induction_item_ready'
              => m_ind_primfind_dest = item]_vars
  BY FlagStep
<1> QED
  BY InvariantTheorem, <1>1, PTL DEF Spec, NoLostSignal

(* A wait is always answered.  From wherever the induction thread is while *)
(* the flag is up, it is so many of its own steps from taking it down:     *)
StepsToAnswer ==
  [place \in {"paused", "outer", "spin", "check", "find", "done"} |->
     CASE place \in {"paused", "outer"} -> 5
       [] place = "spin"  -> 4
       [] place = "check" -> 3
       [] place = "find"  -> 2
       [] place = "done"  -> 1]

(* the thread is there and is not about to leave,                          *)
Answerable ==
  m_induction_item_ready =>
    /\ m_ind_thread_should_run
    /\ induction \in DOMAIN StepsToAnswer

(* each step it takes brings it nearer, and nobody else moves it.          *)
Nearer ==
  m_induction_item_ready /\ m_induction_item_ready' =>
    IF InductionThread
    THEN StepsToAnswer[induction'] < StepsToAnswer[induction]
    ELSE induction' = induction

(* While the flag is up the induction thread is there and was not told to  *)
(* leave: the state in which the collection thread would wait forever does *)
(* not exist.                                                              *)
THEOREM AnswerableTheorem == Spec => []Answerable
<1>1. HInv => Answerable
  BY DEF HInv, TypeOK, DataTypes, FlagInv, CommandInv, Answerable,
     StepsToAnswer
<1> QED
  BY InvariantTheorem, <1>1, PTL

LEMMA StepsValues ==
  /\ StepsToAnswer["paused"] = 5 /\ StepsToAnswer["outer"] = 5
  /\ StepsToAnswer["spin"] = 4 /\ StepsToAnswer["check"] = 3
  /\ StepsToAnswer["find"] = 2 /\ StepsToAnswer["done"] = 1
  BY DEF StepsToAnswer

LEMMA NearerStep ==
  ASSUME HInv, [Next]_vars
  PROVE  Nearer
<1> SUFFICES ASSUME m_induction_item_ready, m_induction_item_ready'
             PROVE  IF InductionThread
                    THEN StepsToAnswer[induction'] < StepsToAnswer[induction]
                    ELSE induction' = induction
  BY DEF Nearer
<1> USE DEF commandVars, flags, firsts
<1>1. /\ collection \in {"find", "wait"} /\ m_ind_thread_should_run
      /\ command \in {"running", "stopping"}
  BY DEF HInv, FlagInv, CommandInv, TypeOK, DataTypes
<1>2. CASE InductionThread
  <2> SUFFICES StepsToAnswer[induction'] < StepsToAnswer[induction]
    BY <1>2
  <2>1. CASE OuterLoop
    BY <1>1, <2>1, StepsValues DEF OuterLoop
  <2>2. CASE Spin
    BY <2>2, StepsValues DEF Spin
  <2>3. CASE Paused
    BY <1>1, <2>3, StepsValues DEF Paused
  <2>4. CASE Check
    BY <1>1, <2>4, StepsValues DEF Check
  <2>5. CASE FindInductionHits
    BY <2>5, StepsValues DEF FindInductionHits
  <2>6. CASE SignalDone \/ ExitThread
    BY <2>6 DEF SignalDone, ExitThread
  <2> QED
    BY <1>2, <2>1, <2>2, <2>3, <2>4, <2>5, <2>6 DEF InductionThread
<1>3. CASE ~InductionThread
  <2>1. induction' = induction
    <3>1. CASE Command
      BY <1>1, <3>1 DEF Command, Conf, Start, Stop, Scrap
    <3>2. CASE CommandEnd
      BY <1>1, <3>2 DEF CommandEnd, StopDone, ScrapDone
    <3>3. CASE TakeSuperchunk
      BY <3>3 DEF TakeSuperchunk
    <3>4. CASE FindHits
      BY <3>4 DEF FindHits, PointToItem, SignalItem, FindCollectionHits,
         WaitForInduction, AddInductionHits
    <3>5. CASE UNCHANGED vars
      BY <3>5 DEF vars
    <3> QED
      BY <1>3, <3>1, <3>2, <3>3, <3>4, <3>5 DEF Next
  <2> QED
    BY <1>3, <2>1
<1> QED
  BY <1>2, <1>3

(* While the flag is up every step of the induction thread brings it       *)
(* nearer to taking the flag down, so at most five of its own steps after  *)
(* the signal "the collection thread isn't waiting" any more; that the     *)
(* thread takes those steps is what fairness adds in CollectionReturns.    *)
THEOREM NearerTheorem == Spec => [][Nearer]_vars
<1>1. HInv /\ [Next]_vars => [Nearer]_vars
  BY NearerStep
<1> QED
  BY InvariantTheorem, <1>1, PTL DEF Spec

(* scrap always ends.  Told to leave, with no flag up and none to come,    *)
(* the induction thread is so many of its own steps from the end:          *)
StepsToLeave ==
  [place \in {"spin", "paused", "outer", "check", "exit", "exited"} |->
     CASE place = "spin"   -> 4
       [] place = "paused" -> 3
       [] place \in {"outer", "check"} -> 2
       [] place = "exit"   -> 1
       [] place = "exited" -> 0]

(* there is a thread to join, it was told to leave and works on nothing,   *)
Leaving ==
  command = "scrapping" /\ ~aborted =>
    /\ ~m_ind_thread_should_run
    /\ ~m_induction_item_ready
    /\ induction \in DOMAIN StepsToLeave

(* and no step of anybody but the join comes in between.                   *)
LeavesSooner ==
  command = "scrapping" /\ command' = "scrapping" =>
    /\ InductionThread
    /\ StepsToLeave[induction'] < StepsToLeave[induction]

LeaveInv ==
  command = "scrapping" =>
    /\ ~m_ind_thread_should_run
    /\ aborted \/ induction # "none"

LEMMA LeaveValues ==
  /\ StepsToLeave["spin"] = 4 /\ StepsToLeave["paused"] = 3
  /\ StepsToLeave["outer"] = 2 /\ StepsToLeave["check"] = 2
  /\ StepsToLeave["exit"] = 1 /\ StepsToLeave["exited"] = 0
  BY DEF StepsToLeave

LEMMA LeavingFollows == HInv /\ LeaveInv => Leaving
  BY DEF HInv, TypeOK, DataTypes, FlagInv, CommandInv, LeaveInv, Leaving,
     StepsToLeave

LEMMA LeaveStep ==
  ASSUME HInv, LeaveInv, Next
  PROVE  LeaveInv' /\ LeavesSooner
<1> USE DEF commandVars, flags, firsts
<1>1. ASSUME NEW enable \in EnableChoices, Conf(enable)
      PROVE  LeaveInv' /\ LeavesSooner
  BY <1>1 DEF Conf, LeaveInv, LeavesSooner
<1>2. CASE Start \/ Stop
  BY <1>2 DEF Start, Stop, LeaveInv, LeavesSooner
<1>3. CASE Scrap
  BY <1>3 DEF Scrap, LeaveInv, LeavesSooner
<1>4. CASE CommandEnd
  BY <1>4 DEF CommandEnd, StopDone, ScrapDone, LeaveInv, LeavesSooner
<1>5. CASE TakeSuperchunk
  BY <1>5 DEF TakeSuperchunk, LeaveInv, LeavesSooner
<1>6. CASE FindHits
  <2>1. command # "scrapping" /\ command' = command
    BY <1>6 DEF FindHits, PointToItem, SignalItem, FindCollectionHits,
       WaitForInduction, AddInductionHits, HInv, CommandInv
  <2> QED
    BY <2>1 DEF LeaveInv, LeavesSooner
<1>7. CASE InductionThread
  <2>1. ASSUME command = "scrapping"
        PROVE  StepsToLeave[induction'] < StepsToLeave[induction]
    <3>1. ~m_ind_thread_should_run /\ ~m_induction_item_ready
      BY <2>1 DEF HInv, FlagInv, CommandInv, LeaveInv
    <3>2. induction \notin {"find", "done"}
      BY <3>1 DEF HInv, FlagInv
    <3>3. CASE OuterLoop
      BY <3>1, <3>3, LeaveValues DEF OuterLoop
    <3>4. CASE Spin
      BY <3>1, <3>4, LeaveValues DEF Spin
    <3>5. CASE Paused
      BY <3>1, <3>5, LeaveValues DEF Paused
    <3>6. CASE Check
      BY <3>1, <3>6, LeaveValues DEF Check
    <3>7. CASE FindInductionHits \/ SignalDone
      BY <3>2, <3>7 DEF FindInductionHits, SignalDone
    <3>8. CASE ExitThread
      BY <3>8, LeaveValues DEF ExitThread
    <3> QED
      BY <1>7, <3>3, <3>4, <3>5, <3>6, <3>7, <3>8 DEF InductionThread
  <2>2. LeaveInv'
    BY <1>7 DEF InductionThread, OuterLoop, Spin, Paused, Check,
       FindInductionHits, SignalDone, ExitThread, LeaveInv
  <2> QED
    BY <1>7, <2>1, <2>2 DEF LeavesSooner
<1> QED
  BY <1>1, <1>2, <1>3, <1>4, <1>5, <1>6, <1>7 DEF Next, Command

(* scrap finds a thread to join (or has thrown), and while it waits only   *)
(* that thread takes steps, at most four, each one nearer to its end; that *)
(* it takes them is what fairness adds in ScrapEnds.                       *)
THEOREM LeavingTheorem == Spec => []Leaving /\ [][LeavesSooner]_vars
<1>1. Init => LeaveInv
  BY DEF Init, LeaveInv
<1>2. HInv /\ LeaveInv /\ [Next]_vars => LeaveInv' /\ [LeavesSooner]_vars
  <2>1. HInv /\ LeaveInv /\ UNCHANGED vars => LeaveInv'
    BY DEF vars, commandVars, flags, LeaveInv
  <2> QED
    BY <2>1, LeaveStep
<1> QED
  BY InvariantTheorem, LeavingFollows, <1>1, <1>2, PTL DEF Spec
=============================================================================
