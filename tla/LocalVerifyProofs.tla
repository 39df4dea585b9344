--------------------------- MODULE LocalVerifyProofs ---------------------------
(***************************************************************************)
(* Theorems about LocalVerify for every set of directories and seeds, every *)
(* unit size and every number of translator modes.                          *)
(***************************************************************************)
EXTENDS LocalVerify, FiniteSetTheorems, TLAPS

USE ConstantsAssumption

(***************************************************************************)
(* Facts about the helpers.                                                *)
(***************************************************************************)

\* A glob has one first name.
LEMMA LeastUnique ==
  ASSUME fdirs \subseteq Dirs, NEW d, NEW e, First(d, fdirs), First(e, fdirs)
  PROVE  d = e
  BY DEF First

\* A move of a log to TMP_RES leaves log files there.
LEMMA LogType ==
  ASSUME tmpRes \subseteq LogFile, NEW m \in Modes, NEW u \in Nat, NEW S \in SUBSET Seeds,
         NEW old \in [Seeds -> Nat]
  PROVE  MoveLog(m, u, PlusLines(old, S)) \subseteq LogFile
<1> DEFINE lines == PlusLines(old, S)
<1>1. lines \in [Seeds -> Nat]
  BY DEF PlusLines
<1> HIDE DEF lines
<1>2. [mode |-> m, unit |-> u, lines |-> lines] \in LogFile
  BY <1>1 DEF LogFile
<1>3. MoveLog(m, u, lines) \subseteq LogFile
  BY <1>2 DEF MoveLog, Log
<1>4. QED
  BY <1>3 DEF lines

\* The count of adb processes is a number.
LEMMA AdbCountType ==
  ASSUME UNIT_NUM \in Nat
  PROVE  AdbCount \in Nat
<1>1. IsFiniteSet(Units)
  BY FS_Interval DEF Units
<1>2. IsFiniteSet({v \in Units : child[v].pc = "arm"})
  BY <1>1, FS_Subset
<1>3. QED
  BY <1>2, FS_CardinalityType DEF AdbCount

\* A step of the process of unit u that finds the lines armOld and ubtOld in
\* the logs it appends to.
Thread(u, armOld, ubtOld) ==
  \/ ReadAdb(u)
  \/ ReadAdbAgain(u)
  \/ \E P \in SUBSET InUnit(u, "unit") : RunOnArm(u, P, armOld)
  \/ RunOnUbt(u, ubtOld)
  \/ Collect(u)

\* No unit has a log before its process runs.
LEMMA NoLinesType == NoLines \in [Seeds -> Nat] /\ \A u : VerThd(u) <=> Thread(u, NoLines, NoLines)
  BY DEF NoLines, VerThd, Thread

(***************************************************************************)
(* Type correctness.                                                       *)
(***************************************************************************)

\* The strengthening that makes the type invariant inductive: a process that
\* still has translator modes to run is at one of them.
ModesLeft ==
  \A u \in Units :
    child[u].pc \in {"adb1", "adb2", "arm", "ubt"} => child[u].mode <= LastMode

TypeInv == TypeOK /\ ModesLeft

\* The variables start with their types.
LEMMA InitType == Init => TypeInv
<1> SUFFICES ASSUME Init PROVE TypeInv
  OBVIOUS
<1>1. Units = {}
  BY DEF Init, Units
<1>2. [pc |-> "exit", adb |-> 0, mode |-> 1] \in Child
  BY DEF Child
<1>3. child \in [Units -> Child]
  BY <1>2 DEF Init
<1>4. QED
  BY <1>1, <1>3 DEF Init, TypeInv, TypeOK, ModesLeft, Modes, Places

\* The steps of a forked process preserve the types.
LEMMA ThreadType ==
  ASSUME NEW u \in Units, NEW armOld \in [Seeds -> Nat], NEW ubtOld \in [Seeds -> Nat],
         TypeInv, Thread(u, armOld, ubtOld)
  PROVE  TypeOK'
<1> USE DEF TypeInv, TypeOK
<1>1. ASSUME ReadAdb(u) PROVE TypeOK'
  <2>1. child' \in [Units -> Child]
    BY <1>1, AdbCountType, ZenonT(60) DEF ReadAdb, Child
  <2>2. QED
    BY <1>1, <2>1 DEF ReadAdb, scanVars, unitVars, logVars, Units
<1>2. ASSUME ReadAdbAgain(u) PROVE TypeOK'
  <2>1. PICK p \in {"arm", "adb1"} : child' = [child EXCEPT ![u].pc = p, ![u].adb = 0]
    BY <1>2 DEF ReadAdbAgain
  <2>1a. child' \in [Units -> Child]
    BY <2>1, ZenonT(60) DEF Child
  <2>2. QED
    BY <1>2, <2>1a DEF ReadAdbAgain, scanVars, unitVars, logVars, Units
<1>3. ASSUME NEW P \in SUBSET InUnit(u, "unit"), RunOnArm(u, P, armOld)
       PROVE TypeOK'
  <2>1. MoveLog(0, u, PlusLines(armOld, InUnit(u, "unit"))) \subseteq LogFile
    <3>1. 0 \in Modes /\ u \in Nat
      BY DEF Modes, Units
    <3>2. InUnit(u, "unit") \in SUBSET Seeds
      BY DEF InUnit
    <3>3. QED
      BY <3>1, <3>2, LogType
  <2>2. child' \in [Units -> Child]
    BY <1>3 DEF RunOnArm, Child
  <2>3. loc' \in [Seeds -> Places]
    BY <1>3 DEF RunOnArm, Places
  <2>4. QED
    BY <1>3, <2>1, <2>2, <2>3 DEF RunOnArm, scanVars, unitVars, Units
<1>4. ASSUME RunOnUbt(u, ubtOld) PROVE TypeOK'
  <2>1. child[u].mode \in 1 .. LastMode
    BY <1>4 DEF RunOnUbt, ModesLeft, Child
  <2>2. MoveLog(child[u].mode, u, PlusLines(ubtOld, InUnit(u, "armpass"))) \subseteq LogFile
    <3>1. child[u].mode \in Modes /\ u \in Nat
      BY <2>1 DEF Modes, Units
    <3>2. InUnit(u, "armpass") \in SUBSET Seeds
      BY DEF InUnit
    <3>3. QED
      BY <3>1, <3>2, LogType
  <2>3. child' \in [Units -> Child]
    <3>1. PICK p \in {"collect", "ubt"} :
            child' = [child EXCEPT ![u] = [pc |-> p, adb |-> 0, mode |-> child[u].mode + 1]]
      BY <1>4 DEF RunOnUbt
    <3>2. [pc |-> p, adb |-> 0, mode |-> child[u].mode + 1] \in Child
      BY <2>1 DEF Child
    <3>3. QED
      BY <3>1, <3>2
  <2>4. QED
    BY <1>4, <2>2, <2>3 DEF RunOnUbt, scanVars, unitVars, Units
<1>5. ASSUME Collect(u) PROVE TypeOK'
  <2>1. child' \in [Units -> Child]
    BY <1>5 DEF Collect, Child
  <2>2. loc' \in [Seeds -> Places]
    BY <1>5 DEF Collect, Places
  <2>3. QED
    BY <1>5, <2>1, <2>2 DEF Collect, scanVars, unitVars, logVars, Units
<1>6. QED
  BY <1>1, <1>2, <1>3, <1>4, <1>5 DEF Thread

\* ... and keep it within the modes.
LEMMA ThreadModes ==
  ASSUME NEW u \in Units, NEW armOld, NEW ubtOld, TypeInv, Thread(u, armOld, ubtOld)
  PROVE  ModesLeft'
<1> USE DEF TypeInv, TypeOK, ModesLeft
<1>1. UNCHANGED UNIT_NUM /\ Units' = Units
  BY DEF Thread, ReadAdb, ReadAdbAgain, RunOnArm, RunOnUbt, Collect, unitVars, Units
<1>2. \A v \in Units : v # u => child'[v] = child[v]
  BY DEF Thread, ReadAdb, ReadAdbAgain, RunOnArm, RunOnUbt, Collect
<1>3. CASE RunOnUbt(u, ubtOld)
  <2>1. child'[u].mode = child[u].mode + 1
    BY <1>3 DEF RunOnUbt, Child
  <2>2. child'[u].pc = IF child[u].mode = LastMode THEN "collect" ELSE "ubt"
    BY <1>3 DEF RunOnUbt, Child
  <2>3. child[u].mode \in Nat /\ child[u].mode <= LastMode
    BY <1>3 DEF RunOnUbt, Child
  <2> HIDE DEF TypeInv, TypeOK
  <2>4. child'[u].pc \in {"adb1", "adb2", "arm", "ubt"} => child'[u].mode <= LastMode
    BY <2>1, <2>2, <2>3, ConstantsAssumption
  <2>5. \A v \in Units : child[v].pc \in {"adb1", "adb2", "arm", "ubt"} => child[v].mode <= LastMode
    BY DEF TypeInv
  <2>6. QED
    BY <1>1, <1>2, <2>4, <2>5
<1>4. CASE Collect(u)
  BY <1>1, <1>2, <1>4 DEF Collect, Child
<1>5. CASE ReadAdb(u) \/ ReadAdbAgain(u) \/ \E P \in SUBSET InUnit(u, "unit") : RunOnArm(u, P, armOld)
  <2>1. child'[u].mode = child[u].mode /\ child[u].pc \in {"adb1", "adb2", "arm"}
    BY <1>5 DEF ReadAdb, ReadAdbAgain, RunOnArm, Child
  <2>2. QED
    BY <1>1, <1>2, <2>1
<1>6. QED
  BY <1>3, <1>4, <1>5 DEF Thread

\* Every step preserves the type invariant.
LEMMA NextType == TypeInv /\ [Next]_vars => TypeOK'
<1> SUFFICES ASSUME TypeInv, [Next]_vars PROVE TypeOK'
  OBVIOUS
<1> USE DEF TypeInv, TypeOK
<1>1. ASSUME NEW d \in Dirs, MakeFailDir(d) PROVE TypeOK'
  BY <1>1 DEF MakeFailDir, scanVars, unitVars, logVars, Units
<1>2. ASSUME NEW d \in Dirs, WriteDone(d) PROVE TypeOK'
  BY <1>2 DEF WriteDone, scanVars, unitVars, logVars, Units
<1>3. ASSUME NEW s \in Seeds, FailSeed(s) PROVE TypeOK'
  BY <1>3 DEF FailSeed, scanVars, unitVars, logVars, Units, Places
<1>4. CASE GlobTmpRes
  BY <1>4 DEF GlobTmpRes, scanVars, unitVars, Units
<1>5. ASSUME NEW f \in resFiles, MergeFile(f) PROVE TypeOK'
  <2>1. f.mode \in Modes /\ f.lines \in [Seeds -> Nat]
    BY DEF LogFile
  <2>2. merged' \in [Modes -> [Seeds -> Nat]]
    BY <1>5, <2>1 DEF MergeFile
  <2>3. tmpRes' \subseteq LogFile /\ resFiles' \subseteq LogFile
    BY <1>5 DEF MergeFile
  <2>4. QED
    BY <1>5, <2>2, <2>3 DEF MergeFile, scanVars, unitVars, Units
<1>6. CASE GlobSeedDir
  BY <1>6 DEF GlobSeedDir, unitVars, logVars, Units
<1>7. CASE EndScan
  BY <1>7 DEF EndScan, scanVars, unitVars, logVars, Units
<1>8. ASSUME NEW d \in fdirs, SkipDir(d) PROVE TypeOK'
  BY <1>8 DEF SkipDir, unitVars, logVars, Units
<1>9. ASSUME NEW d \in fdirs, RemoveDir(d) PROVE TypeOK'
  BY <1>9 DEF RemoveDir, unitVars, logVars, Units, Places
<1>10. ASSUME NEW d \in fdirs, NEW s \in Seeds, TakeSeed(d, s) PROVE TypeOK'
  <2>1. GlobList(d) \subseteq Seeds
    BY DEF GlobList, InDir
  <2>2. loc' \in [Seeds -> Places] /\ unitOf' \in [Seeds -> Nat]
    BY <1>10 DEF TakeSeed, Places
  <2>3. QED
    BY <1>10, <2>1, <2>2 DEF TakeSeed, logVars, Units
<1>11. ASSUME NEW d \in fdirs, NEW s \in Seeds, CutScan(d, s) PROVE TypeOK'
  BY <1>11 DEF CutScan, GlobList, InDir, unitVars, logVars, Units
<1>12. CASE Sleep
  BY <1>12 DEF Sleep, scanVars, logVars, Units
<1>13. CASE SubmitNothing
  BY <1>13 DEF SubmitNothing, scanVars, logVars, Units
<1>14. CASE ForkFails
  BY <1>14 DEF ForkFails, scanVars, logVars, Units
<1>15. CASE Fork
  <2>1. child' \in [0 .. UNIT_NUM -> Child]
    BY <1>15 DEF Fork, Units, Child
  <2>2. Units' = 0 .. UNIT_NUM /\ UNIT_NUM' \in Nat
    BY <1>15 DEF Fork, Units
  <2>3. QED
    BY <1>15, <2>1, <2>2 DEF Fork, scanVars, logVars
<1>16. ASSUME NEW u \in Units, VerThd(u) PROVE TypeOK'
  BY <1>16, NoLinesType, ThreadType
<1>17. CASE UNCHANGED vars
  BY <1>17 DEF vars, scanVars, unitVars, logVars, Units
<1>18. QED
  BY <1>1, <1>2, <1>3, <1>4, <1>5, <1>6, <1>7, <1>8, <1>9, <1>10, <1>11,
     <1>12, <1>13, <1>14, <1>15, <1>16, <1>17
     DEF Next, Task, Parent, Merge, Scan, Submit

\* Every step keeps every process within the modes.
LEMMA NextModes == TypeInv /\ [Next]_vars => ModesLeft'
<1> SUFFICES ASSUME TypeInv, [Next]_vars PROVE ModesLeft'
  OBVIOUS
<1> USE DEF TypeInv, TypeOK, ModesLeft
<1>1. CASE UNCHANGED <<child, UNIT_NUM>>
  BY <1>1 DEF Units
<1>2. CASE Fork
  BY <1>2 DEF Fork, Units
<1>3. ASSUME NEW u \in Units, VerThd(u) PROVE ModesLeft'
  BY <1>3, NoLinesType, ThreadModes
<1>4. QED
  BY <1>1, <1>2, <1>3 DEF Next, Task, Parent, Merge, Scan, Submit, vars, unitVars,
     MakeFailDir, WriteDone, FailSeed, GlobTmpRes, MergeFile, GlobSeedDir, EndScan,
     SkipDir, RemoveDir, TakeSeed, CutScan, Sleep, SubmitNothing, ForkFails

\* TypeInv is an invariant.
LEMMA TypeInvariant == Spec => []TypeInv
  BY InitType, NextType, NextModes, PTL DEF Spec, TypeInv

\* The type invariant of the local verifier: in particular the processes of
\* VerThd only ever leave logs of known modes in TMP_RES.
THEOREM TypeCorrect == Spec => []TypeOK
  BY TypeInvariant, PTL DEF TypeInv

-----------------------------------------------------------------------------
(***************************************************************************)
(* The hand-over of directories and the loss of seeds.                     *)
(***************************************************************************)

\* Until a scan is cut short, the list of the scan's glob is exactly what is
\* left in the directory the scan is at.
ScanInv ==
  ~cut /\ globOn =>
    /\ pc = "scan"
    /\ \E d \in fdirs : First(d, fdirs) /\ dirs[d] = "Done" /\ globRest = InDir(d)

\* In any case the glob returns only seeds that are still in a finished
\* directory.
GlobInv ==
  \A s \in globRest : loc[s] = "dir" /\ dirs[Owner[s]] = "Done"

\* A seed in a unit that has a process is one the process has yet to run.
UnitInv ==
  \A s \in Seeds :
    loc[s] = "unit" /\ unitOf[s] \in Units => child[unitOf[s]].pc \in {"adb1", "adb2", "arm"}

IndInv == TypeOK /\ HandOver /\ ScanInv /\ GlobInv /\ UnitInv /\ LossOnlyAfterCut

\* The initial states satisfy IndInv.
LEMMA InitInd == Init => IndInv
<1> SUFFICES ASSUME Init PROVE IndInv
  OBVIOUS
<1>1. TypeOK
  BY InitType DEF TypeInv
<1>2. QED
  BY <1>1 DEF IndInv, Init, HandOver, ScanInv, GlobInv, UnitInv, LossOnlyAfterCut

\* The steps of the tasks preserve it: they only touch unfinished directories.
LEMMA TaskInd == IndInv /\ TypeOK' /\ Task => IndInv'
<1> SUFFICES ASSUME IndInv, TypeOK', Task PROVE IndInv'
  OBVIOUS
<1> USE DEF IndInv, TypeOK
<1>1. UNCHANGED <<unitOf, pc, globOn, globRest, fdirs, cut, UNIT_NUM, child>>
  BY DEF Task, MakeFailDir, WriteDone, FailSeed, scanVars, unitVars
<1>2. \A d \in Dirs : dirs[d] = "Done" => dirs'[d] = "Done"
  BY DEF Task, MakeFailDir, WriteDone, FailSeed
<1>3. \A s \in Seeds :
        \/ loc'[s] = loc[s]
        \/ loc[s] = "generated" /\ loc'[s] = "dir" /\ dirs[Owner[s]] = "filling"
  BY DEF Task, MakeFailDir, WriteDone, FailSeed
<1>4. HandOver'
  <2>1. CASE \E s \in Seeds : FailSeed(s)
    BY <2>1 DEF FailSeed, HandOver
  <2>2. CASE \E d \in Dirs : MakeFailDir(d) \/ WriteDone(d)
    BY <2>2, ZenonT(60) DEF MakeFailDir, WriteDone, HandOver
  <2>3. QED
    BY <2>1, <2>2 DEF Task
<1>5. GlobInv'
  BY <1>1, <1>2, <1>3 DEF GlobInv
<1>6. ScanInv'
  <2>1. ASSUME NEW d \in Dirs, dirs[d] = "Done" PROVE InDir(d)' = InDir(d)
    BY <1>3, <2>1 DEF InDir
  <2>2. QED
    BY <1>1, <1>2, <2>1 DEF ScanInv, First
<1>7. UnitInv'
  BY <1>1, <1>3 DEF UnitInv, Units
<1>8. LossOnlyAfterCut'
  BY <1>1, <1>3 DEF LossOnlyAfterCut
<1>9. QED
  BY <1>4, <1>5, <1>6, <1>7, <1>8

\* The steps of the main loop preserve it.
LEMMA ParentInd == IndInv /\ TypeOK' /\ Parent => IndInv'
<1> SUFFICES ASSUME IndInv, TypeOK', Parent PROVE IndInv'
  OBVIOUS
<1> USE DEF IndInv, TypeOK
<1>1. CASE GlobTmpRes \/ \E f \in resFiles : MergeFile(f)
  <2>1. /\ UNCHANGED <<dirs, loc, unitOf, globOn, globRest, fdirs, cut, UNIT_NUM, child>>
        /\ pc # "scan"
    BY <1>1 DEF GlobTmpRes, MergeFile, scanVars, unitVars
  <2>2. QED
    BY <2>1 DEF HandOver, ScanInv, GlobInv, UnitInv, LossOnlyAfterCut, Units
<1>2. CASE Sleep \/ SubmitNothing \/ ForkFails
  <2>1. /\ UNCHANGED <<dirs, loc, unitOf, globOn, globRest, fdirs, cut, UNIT_NUM, child>>
        /\ pc # "scan"
    BY <1>2 DEF Sleep, SubmitNothing, ForkFails, scanVars
  <2>2. QED
    BY <2>1 DEF HandOver, ScanInv, GlobInv, UnitInv, LossOnlyAfterCut, Units
<1>3. CASE Fork
  <2>1. UNCHANGED <<dirs, loc, unitOf, globOn, globRest, fdirs, cut>> /\ pc # "scan"
    BY <1>3 DEF Fork, scanVars
  <2>2. UnitInv'
    BY <1>3 DEF Fork, UnitInv, Units
  <2>3. QED
    BY <2>1, <2>2 DEF HandOver, ScanInv, GlobInv, LossOnlyAfterCut
<1>4. CASE GlobSeedDir
  BY <1>4 DEF GlobSeedDir, unitVars, HandOver, ScanInv, GlobInv, UnitInv, LossOnlyAfterCut, Units
<1>5. CASE EndScan
  <2>1. UNCHANGED <<dirs, loc, unitOf, globOn, globRest, fdirs, cut, UNIT_NUM, child>> /\ fdirs = {}
    BY <1>5 DEF EndScan, scanVars, unitVars
  <2>2. QED
    BY <2>1 DEF HandOver, ScanInv, GlobInv, UnitInv, LossOnlyAfterCut, Units
<1>6. ASSUME NEW d \in fdirs, SkipDir(d) PROVE IndInv'
  <2>1. UNCHANGED <<dirs, loc, unitOf, globOn, globRest, cut, UNIT_NUM, child>>
    BY <1>6 DEF SkipDir, unitVars
  <2>2. ~(~cut /\ globOn)
    BY <1>6 DEF SkipDir, ScanInv, First
  <2>3. QED
    BY <2>1, <2>2 DEF HandOver, ScanInv, GlobInv, UnitInv, LossOnlyAfterCut, Units
<1>7. ASSUME NEW d \in fdirs, NEW s \in Seeds, TakeSeed(d, s) PROVE IndInv'
  <2>1. /\ UNCHANGED <<dirs, pc, fdirs, cut, UNIT_NUM, child>>
        /\ dirs[d] = "Done" /\ First(d, fdirs) /\ pc = "scan"
        /\ globOn' = TRUE /\ globRest' = GlobList(d) \ {s} /\ s \in GlobList(d)
        /\ loc' = [loc EXCEPT ![s] = "unit"] /\ unitOf' = [unitOf EXCEPT ![s] = UNIT_NUM]
    BY <1>7 DEF TakeSeed, Scanning, First
  <2>2. \A t \in GlobList(d) : loc[t] = "dir" /\ dirs[Owner[t]] = "Done"
    BY <2>1 DEF GlobList, InDir, GlobInv
  <2>3. HandOver'
    BY <2>1, <2>2 DEF HandOver
  <2>4. GlobInv'
    BY <2>1, <2>2 DEF GlobInv, GlobList, InDir
  <2>5. UnitInv'
    BY <2>1 DEF UnitInv, Units
  <2>6. LossOnlyAfterCut'
    BY <2>1 DEF LossOnlyAfterCut
  <2>7. ScanInv'
    <3>1. ~cut => GlobList(d) = InDir(d)
      BY <2>1, LeastUnique DEF ScanInv, GlobList
    <3>2. InDir(d)' = InDir(d) \ {s}
      BY <2>1 DEF InDir
    <3>3. QED
      BY <2>1, <3>1, <3>2 DEF ScanInv, First
  <2>8. QED
    BY <2>3, <2>4, <2>5, <2>6, <2>7
<1>8. ASSUME NEW d \in fdirs, NEW s \in Seeds, CutScan(d, s) PROVE IndInv'
  <2>1. /\ UNCHANGED <<dirs, loc, unitOf, UNIT_NUM, child>>
        /\ dirs[d] = "Done" /\ cut' = TRUE /\ globRest' = GlobList(d) \ {s}
    BY <1>8 DEF CutScan, Scanning, unitVars
  <2>2. \A t \in GlobList(d) : loc[t] = "dir" /\ dirs[Owner[t]] = "Done"
    BY <2>1 DEF GlobList, InDir, GlobInv
  <2>3. QED
    BY <2>1, <2>2 DEF HandOver, ScanInv, GlobInv, UnitInv, LossOnlyAfterCut, Units
<1>9. ASSUME NEW d \in fdirs, RemoveDir(d) PROVE IndInv'
  <2>1. /\ UNCHANGED <<unitOf, cut, UNIT_NUM, child>>
        /\ dirs[d] = "Done" /\ First(d, fdirs) /\ GlobList(d) = {}
        /\ globOn' = FALSE /\ globRest' = {}
        /\ dirs' = [dirs EXCEPT ![d] = "removed"]
        /\ loc' = [s \in Seeds |-> IF s \in InDir(d) THEN "lost" ELSE loc[s]]
    BY <1>9 DEF RemoveDir, Scanning, unitVars
  <2>2. HandOver'
    BY <2>1 DEF HandOver, InDir
  <2>3. UnitInv'
    BY <2>1 DEF UnitInv, Units
  <2>4. ~cut => InDir(d) = {}
    BY <2>1, LeastUnique DEF ScanInv, GlobList
  <2>5. LossOnlyAfterCut'
    BY <2>1, <2>4 DEF LossOnlyAfterCut
  <2>6. QED
    BY <2>1, <2>2, <2>3, <2>5 DEF ScanInv, GlobInv
<1>10. QED
  BY <1>1, <1>2, <1>3, <1>4, <1>5, <1>6, <1>7, <1>8, <1>9
     DEF Parent, Merge, Scan, Submit

\* The steps of the forked processes preserve it: they only touch seeds that
\* left the directories, and none is unjudged when its unit is deleted.
LEMMA ThreadInd ==
  ASSUME NEW u \in Units, NEW armOld, NEW ubtOld, IndInv, TypeOK', Thread(u, armOld, ubtOld)
  PROVE  IndInv'
<1> USE DEF IndInv, TypeOK
<1>1. UNCHANGED <<dirs, unitOf, pc, globOn, globRest, fdirs, cut, UNIT_NUM>>
  BY DEF Thread, ReadAdb, ReadAdbAgain, RunOnArm, RunOnUbt, Collect, scanVars, unitVars
<1>2. child[u].pc = "collect" => InUnit(u, "unit") = {}
  BY DEF UnitInv, InUnit
<1>3. \A s \in Seeds :
        \/ loc'[s] = loc[s]
        \/ /\ loc[s] \in {"unit", "armpass", "armfail"}
           /\ loc'[s] \in {"armpass", "armfail", "PASS", "FAIL"}
  BY <1>2 DEF Thread, ReadAdb, ReadAdbAgain, RunOnArm, RunOnUbt, Collect, InUnit
<1>4. HandOver' /\ GlobInv' /\ LossOnlyAfterCut'
  <2>1. HandOver'
    BY <1>1, <1>3 DEF HandOver
  <2>2. GlobInv'
    BY <1>1, <1>3 DEF GlobInv
  <2>3. LossOnlyAfterCut'
    BY <1>1, <1>3 DEF LossOnlyAfterCut
  <2>4. QED
    BY <2>1, <2>2, <2>3
<1>5. ScanInv'
  <2>1. ASSUME NEW d \in Dirs PROVE InDir(d)' = InDir(d)
    BY <1>3 DEF InDir
  <2>2. QED
    BY <1>1, <2>1 DEF ScanInv, First
<1>6. UnitInv'
  <2>1. Units' = Units
    BY <1>1 DEF Units
  <2>2. \A v \in Units : v # u => child'[v] = child[v]
    BY DEF Thread, ReadAdb, ReadAdbAgain, RunOnArm, RunOnUbt, Collect
  <2>3. ASSUME NEW s \in Seeds, loc'[s] = "unit", unitOf'[s] \in Units',
               child'[unitOf'[s]].pc \notin {"adb1", "adb2", "arm"}
        PROVE  FALSE
    <3>1. loc[s] = "unit" /\ unitOf[s] \in Units
      BY <1>1, <1>3, <2>1, <2>3
    <3>2. unitOf[s] = u
      BY <1>1, <2>2, <2>3, <3>1 DEF UnitInv
    <3>3. child[u].pc \in {"adb1", "adb2", "arm"} /\ child'[u].pc \notin {"adb1", "adb2", "arm"}
      BY <1>1, <2>3, <3>1, <3>2 DEF UnitInv
    <3>4. \E P \in SUBSET InUnit(u, "unit") : RunOnArm(u, P, armOld)
      BY <3>3 DEF Thread, ReadAdb, ReadAdbAgain, RunOnUbt, Collect, Child
    <3>5. s \in InUnit(u, "unit")
      BY <3>1, <3>2 DEF InUnit
    <3>6. QED
      BY <2>3, <3>4, <3>5 DEF RunOnArm
  <2>4. QED
    BY <1>1, <1>3, <2>1, <2>3 DEF UnitInv
<1>7. QED
  BY <1>4, <1>5, <1>6

\* IndInv is inductive.
LEMMA NextInd == IndInv /\ TypeOK' /\ [Next]_vars => IndInv'
<1> SUFFICES ASSUME IndInv, TypeOK', [Next]_vars PROVE IndInv'
  OBVIOUS
<1>1. CASE UNCHANGED vars
  <2>1. UNCHANGED <<dirs, loc, unitOf, pc, globOn, globRest, fdirs, cut, UNIT_NUM, child>>
    BY <1>1 DEF vars, scanVars, unitVars
  <2>2. ScanInv'
    BY <2>1 DEF IndInv, ScanInv, InDir, First
  <2>3. QED
    BY <2>1, <2>2 DEF IndInv, HandOver, GlobInv, UnitInv, LossOnlyAfterCut, Units
<1>2. QED
  BY <1>1, NoLinesType, TaskInd, ParentInd, ThreadInd DEF Next

\* IndInv is an invariant.
LEMMA Inductive == Spec => []IndInv
  BY InitInd, NextInd, TypeCorrect, PTL DEF Spec

\* The Done protocol holds for every number of tasks, directories and seeds.
THEOREM HandOverHolds == Spec => []HandOver
  BY Inductive, PTL DEF IndInv

\* Whatever the sizes, the only way a seed is deleted unseen is that a scan
\* was left early because its unit was full (local_verify.pl:142).
THEOREM LossNeedsCut == Spec => []LossOnlyAfterCut
  BY Inductive, PTL DEF IndInv

-----------------------------------------------------------------------------
(***************************************************************************)
(* The unit being filled.                                                  *)
(***************************************************************************)

\* The seeds in the unit being filled are finitely many.
LEMMA UnitFinite ==
  ASSUME NEW u
  PROVE  IsFiniteSet(InUnit(u, "unit")) /\ Cardinality(InUnit(u, "unit")) \in Nat
<1>1. InUnit(u, "unit") \subseteq Seeds
  BY DEF InUnit
<1>2. IsFiniteSet(InUnit(u, "unit"))
  BY <1>1, FS_Subset
<1>3. QED
  BY <1>2, FS_CardinalityType

\* A step that neither fills a unit nor starts a new one leaves the count right.
LEMMA UnitQuiet ==
  ASSUME TypeOK, TypeOK', UnitPrivate, UnitInv', UNCHANGED <<UNIT_CNT, UNIT_NUM>>,
         \A s \in Seeds : loc'[s] = "unit" => loc[s] = "unit" /\ unitOf'[s] = unitOf[s],
         \A s \in Seeds : loc[s] = "unit" /\ loc'[s] # "unit" => unitOf[s] \in Units,
         \A s \in Seeds : loc[s] = "unit" => unitOf'[s] = unitOf[s]
  PROVE  UnitPrivate'
<1> USE DEF TypeOK
<1>1. UNIT_NUM \notin Units /\ Units' = Units
  BY DEF Units
<1>2. InUnit(UNIT_NUM, "unit")' = InUnit(UNIT_NUM, "unit")
  BY <1>1 DEF InUnit
<1>3. ASSUME NEW s \in Seeds, loc'[s] = "unit", unitOf'[s] # UNIT_NUM'
      PROVE  unitOf'[s] \in Units' /\ child'[unitOf'[s]].pc \in {"adb1", "adb2", "arm"}
  <2>1. unitOf'[s] \in Units'
    BY <1>1, <1>3 DEF UnitPrivate
  <2>2. QED
    BY <1>3, <2>1 DEF UnitInv
<1>4. QED
  BY <1>2, <1>3 DEF UnitPrivate

\* Every step keeps the count of the unit and the seeds in it right.
LEMMA NextUnit ==
  ASSUME IndInv, IndInv', UnitPrivate, [Next]_vars
  PROVE  UnitPrivate'
<1> USE DEF IndInv
<1>1. ASSUME NEW s \in Seeds, FailSeed(s) PROVE UnitPrivate'
  BY <1>1, UnitQuiet DEF FailSeed, unitVars, TypeOK
<1>2. CASE /\ UNCHANGED <<loc, unitOf, UNIT_CNT, UNIT_NUM>>
  BY <1>2, UnitQuiet
<1>3. ASSUME NEW d \in fdirs, RemoveDir(d) PROVE UnitPrivate'
  BY <1>3, UnitQuiet DEF RemoveDir, InDir, unitVars, TypeOK
<1>4. ASSUME NEW d \in fdirs, NEW s \in Seeds, TakeSeed(d, s) PROVE UnitPrivate'
  <2> USE DEF TypeOK
  <2>1. /\ UNCHANGED <<UNIT_NUM, child>> /\ UNIT_CNT < UNIT_MAX /\ UNIT_CNT' = UNIT_CNT + 1
        /\ loc' = [loc EXCEPT ![s] = "unit"] /\ unitOf' = [unitOf EXCEPT ![s] = UNIT_NUM]
        /\ s \in GlobList(d)
    BY <1>4 DEF TakeSeed, First
  <2>2. loc[s] = "dir"
    BY <2>1 DEF GlobList, InDir, GlobInv
  <2>3. /\ s \notin InUnit(UNIT_NUM, "unit")
        /\ InUnit(UNIT_NUM, "unit")' = InUnit(UNIT_NUM, "unit") \cup {s}
    BY <2>1, <2>2 DEF InUnit
  <2>4. UNIT_CNT' = Cardinality(InUnit(UNIT_NUM, "unit")')
    <3>1. Cardinality(InUnit(UNIT_NUM, "unit") \cup {s}) = Cardinality(InUnit(UNIT_NUM, "unit")) + 1
      BY <2>3, UnitFinite, FS_AddElement
    <3>2. QED
      BY <2>1, <2>3, <3>1 DEF UnitPrivate
  <2>5. UNIT_CNT' <= UNIT_MAX
    BY <2>1
  <2>6. ASSUME NEW t \in Seeds, loc'[t] = "unit", unitOf'[t] # UNIT_NUM'
        PROVE  unitOf'[t] \in Units' /\ child'[unitOf'[t]].pc \in {"adb1", "adb2", "arm"}
    BY <2>1, <2>6 DEF UnitPrivate, Units
  <2>7. QED
    BY <2>1, <2>4, <2>5, <2>6 DEF UnitPrivate
<1>5. CASE Fork
  <2> USE DEF TypeOK
  <2>1. /\ UNCHANGED <<loc, unitOf>> /\ UNIT_CNT' = 0 /\ UNIT_NUM' = UNIT_NUM + 1
    BY <1>5 DEF Fork
  <2>2. \A s \in Seeds : loc[s] = "unit" => unitOf[s] \in Units'
    BY <2>1 DEF UnitPrivate, Units
  <2>3. InUnit(UNIT_NUM, "unit")' = {}
    <3>1. UNIT_NUM \in Nat /\ Units' = 0 .. UNIT_NUM
      BY <2>1 DEF Units
    <3> HIDE DEF IndInv, TypeOK
    <3>2. UNIT_NUM' \notin Units'
      BY <2>1, <3>1
    <3>3. \A s \in Seeds : loc'[s] = "unit" => unitOf'[s] # UNIT_NUM'
      BY <2>1, <2>2, <3>2
    <3>4. QED
      BY <3>3 DEF InUnit
  <2>4. UNIT_CNT' = Cardinality(InUnit(UNIT_NUM, "unit")')
    BY <2>1, <2>3, FS_EmptySet
  <2>5. \A s \in Seeds : loc'[s] = "unit" => /\ unitOf'[s] \in Units'
                                             /\ child'[unitOf'[s]].pc \in {"adb1", "adb2", "arm"}
    BY <2>1, <2>2 DEF UnitInv
  <2>6. QED
    BY <2>1, <2>4, <2>5 DEF UnitPrivate
<1>6. ASSUME NEW u \in Units, VerThd(u) PROVE UnitPrivate'
  <2>1. UNCHANGED <<unitOf, UNIT_CNT, UNIT_NUM>>
    BY <1>6 DEF VerThd, ReadAdb, ReadAdbAgain, RunOnArm, RunOnUbt, Collect, unitVars
  <2>2. \A s \in Seeds : loc'[s] # loc[s] => loc'[s] # "unit" /\ unitOf[s] \in Units
    BY <1>6 DEF VerThd, ReadAdb, ReadAdbAgain, RunOnArm, RunOnUbt, Collect, InUnit, TypeOK
  <2>3. QED
    BY <2>1, <2>2, UnitQuiet
<1>7. QED
  BY <1>1, <1>2, <1>3, <1>4, <1>5, <1>6 DEF Next, Task, Parent, Merge, Scan, Submit, vars,
     unitVars, MakeFailDir, WriteDone, GlobTmpRes, MergeFile, GlobSeedDir, EndScan,
     SkipDir, CutScan, Sleep, SubmitNothing, ForkFails

\* The initial unit is empty.
LEMMA InitUnit == Init => UnitPrivate
<1> SUFFICES ASSUME Init PROVE UnitPrivate
  OBVIOUS
<1>1. InUnit(UNIT_NUM, "unit") = {}
  BY DEF Init, InUnit
<1>2. UNIT_CNT = Cardinality(InUnit(UNIT_NUM, "unit"))
  BY <1>1, FS_EmptySet DEF Init
<1>3. UNIT_CNT <= UNIT_MAX
  BY DEF Init
<1>4. \A s \in Seeds : loc[s] # "unit"
  BY DEF Init
<1>5. QED
  BY <1>2, <1>3, <1>4 DEF UnitPrivate

\* For every number of seeds and every unit size: UNIT_CNT is the number of
\* seeds in the unit being filled, and no process works on that unit, whatever
\* forks fail.
THEOREM UnitsPrivate == Spec => []UnitPrivate
  BY InitUnit, NextUnit, Inductive, PTL DEF Spec

-----------------------------------------------------------------------------
(***************************************************************************)
(* The logs.                                                               *)
(***************************************************************************)
Judged == {"armpass", "armfail", "PASS", "FAIL"}
Past == {"ubt", "collect", "exit"}

\* By now the seed has been run in mode m.
HasRun(m, s) ==
  /\ loc[s] \in Judged
  /\ \/ m = 0
     \/ loc[s] = "PASS"
     \/ loc[s] = "armpass" /\ m < child[unitOf[s]].mode

\* The mode a process is at follows from its point; judged seeds that are
\* still in a unit belong to a process that has yet to collect them.
ThreadInv ==
  /\ \A u \in Units :
       /\ child[u].pc \in {"adb1", "adb2", "arm"} => child[u].mode = 1
       /\ child[u].pc \in {"collect", "exit"} => child[u].mode = LastMode + 1
  /\ \A s \in Seeds :
       loc[s] \in {"armpass", "armfail"} =>
         unitOf[s] \in Units /\ child[unitOf[s]].pc \in {"ubt", "collect"}

\* A log in TMP_RES is one its process has moved there, and the only one of
\* its name.
FileInv ==
  /\ resFiles \subseteq tmpRes
  /\ \A f \in tmpRes :
       f.unit \in Units /\ child[f.unit].pc \in Past /\ f.mode < child[f.unit].mode
  /\ \A f, g \in tmpRes : f.mode = g.mode /\ f.unit = g.unit => f = g

\* Every run of a seed left one line, either merged or in the log of its unit.
LineInv ==
  /\ \A f \in tmpRes, s \in Seeds :
       f.lines[s] > 0 =>
         f.lines[s] = 1 /\ unitOf[s] = f.unit /\ HasRun(f.mode, s) /\ merged[f.mode][s] = 0
  /\ \A m \in Modes, s \in Seeds : merged[m][s] > 0 => merged[m][s] = 1 /\ HasRun(m, s)
  /\ \A m \in Modes, s \in Seeds :
       HasRun(m, s) /\ merged[m][s] = 0 => \E f \in tmpRes : f.mode = m /\ f.lines[s] > 0

\* A log that is being merged comes after the device's log.
OrderInv ==
  \A f \in resFiles, s \in Seeds :
    f.lines[s] > 0 => merged[0][s] > 0 \/ \E g \in resFiles : g.mode = 0 /\ g.lines[s] > 0

LogInv == ThreadInv /\ FileInv /\ LineInv /\ OrderInv /\ LogsInStep

\* There are no logs at the start.
LEMMA InitLog == Init => LogInv
<1> SUFFICES ASSUME Init PROVE LogInv
  OBVIOUS
<1>1. Units = {}
  BY DEF Init, Units
<1>2. ThreadInv /\ FileInv /\ OrderInv
  BY <1>1 DEF Init, ThreadInv, FileInv, OrderInv
<1>3. \A m \in Modes, s \in Seeds : ~HasRun(m, s) /\ merged[m][s] = 0
  BY DEF Init, HasRun, Judged
<1>4. LineInv /\ LogsInStep
  BY <1>3 DEF Init, LineInv, LogsInStep, Modes
<1>5. QED
  BY <1>2, <1>4 DEF LogInv

\* A step that writes no log and runs no seed.
LEMMA LogQuiet ==
  ASSUME TypeOK, TypeOK', LogInv, UNCHANGED <<tmpRes, resFiles, merged>>,
         \A m \in Modes, s \in Seeds : HasRun(m, s)' <=> HasRun(m, s),
         \A s \in Seeds : loc[s] \in Judged => unitOf'[s] = unitOf[s],
         \A u \in Units : /\ u \in Units' /\ child'[u].mode = child[u].mode
                          /\ child[u].pc \in Past => child'[u].pc \in Past
  PROVE  FileInv' /\ LineInv' /\ OrderInv' /\ LogsInStep'
<1>1. FileInv'
  BY DEF LogInv, FileInv
<1>2. LineInv'
  <2>1. \A f \in tmpRes : f.mode \in Modes
    BY DEF TypeOK, LogFile
  <2>2. \A f \in tmpRes, s \in Seeds :
          f.lines[s] > 0 =>
            f.lines[s] = 1 /\ unitOf'[s] = f.unit /\ HasRun(f.mode, s)' /\ merged'[f.mode][s] = 0
    BY <2>1 DEF LogInv, LineInv, HasRun
  <2>3. /\ \A m \in Modes, s \in Seeds : merged'[m][s] > 0 => merged'[m][s] = 1 /\ HasRun(m, s)'
        /\ \A m \in Modes, s \in Seeds :
             HasRun(m, s)' /\ merged'[m][s] = 0 => \E f \in tmpRes' : f.mode = m /\ f.lines[s] > 0
    BY DEF LogInv, LineInv
  <2>4. QED
    BY <2>2, <2>3 DEF LineInv
<1>3. OrderInv' /\ LogsInStep'
  BY DEF LogInv, OrderInv, LogsInStep
<1>4. QED
  BY <1>1, <1>2, <1>3

\* A process moves the log of a run of the seeds of S to TMP_RES.
LEMMA LogAdded ==
  ASSUME TypeOK, TypeOK', LogInv, NEW m \in Modes, NEW u \in Units, NEW S \in SUBSET Seeds,
         UNCHANGED <<resFiles, merged, unitOf>>,
         tmpRes' = MoveLog(m, u, PlusLines(NoLines, S)),
         \A f \in tmpRes : ~(f.mode = m /\ f.unit = u),
         \A k \in Modes, s \in Seeds : HasRun(k, s)' <=> HasRun(k, s) \/ (k = m /\ s \in S),
         \A s \in S : unitOf[s] = u /\ ~HasRun(m, s),
         \A v \in Units : /\ v \in Units' /\ child'[v].mode >= child[v].mode
                          /\ child[v].pc \in Past => child'[v].pc \in Past,
         child'[u].pc \in Past, m < child'[u].mode
  PROVE  FileInv' /\ LineInv' /\ OrderInv' /\ LogsInStep'
<1> DEFINE lines == PlusLines(NoLines, S)
           new == [mode |-> m, unit |-> u, lines |-> lines]
<1>1. \A s \in Seeds : lines[s] = IF s \in S THEN 1 ELSE 0
  BY DEF PlusLines, NoLines
<1>2. /\ new.mode = m /\ new.unit = u /\ new.lines = lines
  OBVIOUS
<1>3. tmpRes' \subseteq tmpRes \cup {new} /\ tmpRes \subseteq tmpRes'
  BY DEF MoveLog, Log
<1>4. S # {} => new \in tmpRes'
  <2>1. \A s \in Seeds : NoLines[s] = 0
    BY DEF NoLines
  <2>2. \A s \in S : lines[s] = 1 /\ NoLines[s] = 0
    BY <1>1, <2>1
  <2> HIDE DEF lines
  <2>3. ASSUME NEW s \in S PROVE lines # NoLines
    <3>1. lines[s] = 1 /\ NoLines[s] = 0
      BY <2>2
    <3>2. QED
      BY <3>1
  <2>4. QED
    BY <2>3 DEF MoveLog, Log, lines
<1> HIDE DEF lines, new
<1>5. FileInv'
  <2>1. \A f \in tmpRes' : f.unit \in Units' /\ child'[f.unit].pc \in Past /\ f.mode < child'[f.unit].mode
    <3>1. ASSUME NEW f \in tmpRes
          PROVE  f.unit \in Units' /\ child'[f.unit].pc \in Past /\ f.mode < child'[f.unit].mode
      <4>1. /\ f.unit \in Units /\ child[f.unit].pc \in Past /\ f.mode < child[f.unit].mode
            /\ f.unit \in Units' /\ child'[f.unit].pc \in Past
            /\ child'[f.unit].mode >= child[f.unit].mode
        BY DEF LogInv, FileInv
      <4>2. f.mode \in Int /\ child[f.unit].mode \in Int /\ child'[f.unit].mode \in Int
        BY <4>1 DEF TypeOK, LogFile, Child, Modes
      <4>3. QED
        BY <4>1, <4>2
    <3>2. u \in Units'
      OBVIOUS
    <3>3. QED
      BY <1>2, <1>3, <3>1, <3>2
  <2>2. \A f, g \in tmpRes' : f.mode = g.mode /\ f.unit = g.unit => f = g
    BY <1>2, <1>3 DEF LogInv, FileInv
  <2>3. resFiles' \subseteq tmpRes'
    BY <1>3 DEF LogInv, FileInv
  <2>4. QED
    BY <2>1, <2>2, <2>3 DEF FileInv
<1>6. LineInv'
  <2>1. ASSUME NEW f \in tmpRes', NEW s \in Seeds, f.lines[s] > 0
        PROVE  f.lines[s] = 1 /\ unitOf'[s] = f.unit /\ HasRun(f.mode, s)' /\ merged'[f.mode][s] = 0
    <3>1. CASE f \in tmpRes
      <4>1. f.mode \in Modes
        BY <3>1 DEF TypeOK, LogFile
      <4>2. f.lines[s] = 1 /\ unitOf[s] = f.unit /\ HasRun(f.mode, s) /\ merged[f.mode][s] = 0
        BY <2>1, <3>1 DEF LogInv, LineInv
      <4>3. HasRun(f.mode, s)'
        BY <4>1, <4>2
      <4>4. QED
        BY <4>2, <4>3
    <3>2. CASE f = new
      <4>1. s \in S /\ f.lines[s] = 1
        BY <1>1, <1>2, <2>1, <3>2
      <4>2. merged[m][s] = 0
        <5>1. merged[m][s] \in Nat
          BY DEF TypeOK
        <5>2. ~(merged[m][s] > 0)
          BY <4>1 DEF LogInv, LineInv
        <5>3. QED
          BY <5>1, <5>2
      <4>3. QED
        BY <1>2, <3>2, <4>1, <4>2
    <3>3. QED
      BY <1>3, <3>1, <3>2
  <2>2. \A k \in Modes, s \in Seeds : merged'[k][s] > 0 => merged'[k][s] = 1 /\ HasRun(k, s)'
    BY DEF LogInv, LineInv
  <2>3. ASSUME NEW k \in Modes, NEW s \in Seeds, HasRun(k, s)', merged'[k][s] = 0
        PROVE  \E f \in tmpRes' : f.mode = k /\ f.lines[s] > 0
    <3>1. CASE HasRun(k, s)
      BY <1>3, <2>3, <3>1 DEF LogInv, LineInv
    <3>2. CASE k = m /\ s \in S
      BY <1>1, <1>2, <1>4, <3>2
    <3>3. QED
      BY <2>3, <3>1, <3>2
  <2>4. QED
    BY <2>1, <2>2, <2>3 DEF LineInv
<1>7. OrderInv' /\ LogsInStep'
  BY DEF LogInv, OrderInv, LogsInStep
<1>8. QED
  BY <1>5, <1>6, <1>7

\* The main loop appends the log f.
LEMMA LogMerged ==
  ASSUME TypeOK, TypeOK', LogInv, NEW f \in resFiles, MergeFile(f)
  PROVE  FileInv' /\ LineInv' /\ OrderInv' /\ LogsInStep'
<1>1. /\ f \in tmpRes /\ f \in LogFile /\ \A g \in resFiles : f.mode <= g.mode
      /\ UNCHANGED <<loc, unitOf, UNIT_NUM, child>>
      /\ tmpRes' = tmpRes \ {f} /\ resFiles' = resFiles \ {f}
  BY DEF MergeFile, LogInv, FileInv, TypeOK, unitVars
<1>2. f.mode \in Modes /\ 0 \in Modes /\ Modes \subseteq Nat /\ \A s \in Seeds : f.lines[s] \in Nat
  BY <1>1 DEF LogFile, Modes
<1>3. \A m \in Modes, s \in Seeds :
        /\ merged[m][s] \in Nat
        /\ merged'[m][s] = IF m = f.mode THEN merged[m][s] + f.lines[s] ELSE merged[m][s]
  BY <1>2 DEF MergeFile, TypeOK
<1>4. Units' = Units /\ \A m, s : HasRun(m, s)' <=> HasRun(m, s)
  BY <1>1 DEF HasRun, Units
<1>5. FileInv'
  BY <1>1, <1>4 DEF LogInv, FileInv
<1>6. LineInv'
  <2>1. ASSUME NEW g \in tmpRes', NEW s \in Seeds, g.lines[s] > 0
        PROVE  g.lines[s] = 1 /\ unitOf'[s] = g.unit /\ HasRun(g.mode, s)' /\ merged'[g.mode][s] = 0
    <3>1. g \in tmpRes /\ g # f /\ g.mode \in Modes
      BY <1>1 DEF TypeOK, LogFile
    <3>2. g.lines[s] = 1 /\ unitOf[s] = g.unit /\ HasRun(g.mode, s) /\ merged[g.mode][s] = 0
      BY <2>1, <3>1 DEF LogInv, LineInv
    <3>3. g.mode = f.mode => f.lines[s] = 0
      <4>1. ASSUME g.mode = f.mode, f.lines[s] > 0 PROVE FALSE
        <5>1. unitOf[s] = f.unit
          BY <1>1, <4>1 DEF LogInv, LineInv
        <5>2. f = g
          BY <1>1, <3>1, <3>2, <4>1, <5>1 DEF LogInv, FileInv
        <5>3. QED
          BY <3>1, <5>2
      <4>2. f.lines[s] \in Nat
        BY <1>2
      <4>3. QED
        BY <4>1, <4>2
    <3>4. QED
      BY <1>1, <1>3, <1>4, <3>1, <3>2, <3>3
  <2>2. ASSUME NEW m \in Modes, NEW s \in Seeds, merged'[m][s] > 0
        PROVE  merged'[m][s] = 1 /\ HasRun(m, s)'
    <3>1. CASE m = f.mode /\ f.lines[s] > 0
      <4>1. f.lines[s] = 1 /\ HasRun(m, s) /\ merged[m][s] = 0
        BY <1>1, <3>1 DEF LogInv, LineInv
      <4>2. QED
        BY <1>3, <1>4, <3>1, <4>1
    <3>2. CASE ~(m = f.mode /\ f.lines[s] > 0)
      <4>1. f.lines[s] \in Nat /\ merged[m][s] \in Nat
        BY <1>2, <1>3
      <4>2. merged'[m][s] = IF m = f.mode THEN merged[m][s] + f.lines[s] ELSE merged[m][s]
        BY <1>3
      <4>3. merged'[m][s] = merged[m][s]
        BY <3>2, <4>1, <4>2
      <4>4. QED
        BY <1>4, <2>2, <4>3 DEF LogInv, LineInv
    <3>3. QED
      BY <3>1, <3>2
  <2>3. ASSUME NEW m \in Modes, NEW s \in Seeds, HasRun(m, s)', merged'[m][s] = 0
        PROVE  \E g \in tmpRes' : g.mode = m /\ g.lines[s] > 0
    <3>1. merged[m][s] = 0 /\ ~(m = f.mode /\ f.lines[s] > 0)
      <4>1. f.lines[s] \in Nat /\ merged[m][s] \in Nat
        BY <1>2, <1>3
      <4>2. merged'[m][s] = IF m = f.mode THEN merged[m][s] + f.lines[s] ELSE merged[m][s]
        BY <1>3
      <4>3. QED
        BY <2>3, <4>1, <4>2
    <3>2. PICK g \in tmpRes : g.mode = m /\ g.lines[s] > 0
      BY <1>4, <2>3, <3>1 DEF LogInv, LineInv
    <3>3. QED
      BY <1>1, <3>1, <3>2
  <2>4. QED
    BY <2>1, <2>2, <2>3 DEF LineInv
<1>7. ASSUME NEW s \in Seeds, merged[0][s] > 0 PROVE merged'[0][s] > 0
  <2>1. f.lines[s] \in Nat /\ merged[0][s] \in Nat
    BY <1>2, <1>3
  <2>2. merged'[0][s] = IF 0 = f.mode THEN merged[0][s] + f.lines[s] ELSE merged[0][s]
    BY <1>2, <1>3
  <2>3. QED
    BY <1>7, <2>1, <2>2
<1>8. OrderInv'
  <2>1. ASSUME NEW g \in resFiles', NEW s \in Seeds, g.lines[s] > 0
        PROVE  merged'[0][s] > 0 \/ \E h \in resFiles' : h.mode = 0 /\ h.lines[s] > 0
    <3>1. merged[0][s] > 0 \/ \E h \in resFiles : h.mode = 0 /\ h.lines[s] > 0
      BY <1>1, <2>1 DEF LogInv, OrderInv
    <3>2. CASE f.mode = 0 /\ f.lines[s] > 0
      BY <1>2, <1>3, <3>2
    <3>3. CASE ~(f.mode = 0 /\ f.lines[s] > 0)
      BY <1>1, <1>7, <3>1, <3>3
    <3>4. QED
      BY <3>2, <3>3
  <2>2. QED
    BY <2>1 DEF OrderInv
<1>9. LogsInStep'
  <2>1. ASSUME NEW m \in Modes, NEW s \in Seeds, merged'[m][s] > 0
        PROVE  merged'[0][s] > 0
    <3>1. CASE merged[m][s] > 0
      BY <1>7, <3>1 DEF LogInv, LogsInStep
    <3>2. CASE ~(merged[m][s] > 0)
      <4>1. m = f.mode /\ f.lines[s] > 0
        BY <1>2, <1>3, <2>1, <3>2
      <4>2. CASE m = 0
        BY <2>1, <4>2
      <4>3. CASE m # 0
        <5>1. \A h \in resFiles : h.mode # 0
          BY <1>1, <1>2, <4>1, <4>3
        <5>2. merged[0][s] > 0
          BY <4>1, <5>1 DEF LogInv, OrderInv
        <5>3. QED
          BY <1>7, <5>2
      <4>4. QED
        BY <4>2, <4>3
    <3>3. QED
      BY <3>1, <3>2
  <2>2. QED
    BY <2>1 DEF LogsInStep
<1>10. QED
  BY <1>5, <1>6, <1>8, <1>9

\* The main loop lists TMP_RES.
LEMMA LogListed ==
  ASSUME TypeOK, LogInv, GlobTmpRes
  PROVE  FileInv' /\ LineInv' /\ OrderInv' /\ LogsInStep'
<1>1. UNCHANGED <<loc, unitOf, UNIT_NUM, child, tmpRes, merged>> /\ resFiles' = tmpRes
  BY DEF GlobTmpRes, unitVars
<1>2. FileInv' /\ LineInv' /\ LogsInStep'
  BY <1>1 DEF LogInv, FileInv, LineInv, LogsInStep, HasRun, Units
<1>3. ASSUME NEW f \in tmpRes, NEW s \in Seeds, f.lines[s] > 0
      PROVE  merged[0][s] > 0 \/ \E g \in tmpRes : g.mode = 0 /\ g.lines[s] > 0
  <2>1. HasRun(0, s)
    BY <1>3 DEF LogInv, LineInv, HasRun
  <2>2. 0 \in Modes /\ merged[0][s] \in Nat
    BY DEF TypeOK, Modes
  <2>3. QED
    BY <2>1, <2>2 DEF LogInv, LineInv
<1>4. OrderInv'
  BY <1>1, <1>3 DEF OrderInv
<1>5. QED
  BY <1>2, <1>4

\* The steps of a forked process.
LEMMA LogThread ==
  ASSUME TypeInv, TypeOK', IndInv, IndInv', LogInv, NEW u \in Units, VerThd(u)
  PROVE  LogInv'
<1>1. UNCHANGED <<unitOf, UNIT_NUM, resFiles, merged>> /\ Units' = Units
  BY DEF VerThd, ReadAdb, ReadAdbAgain, RunOnArm, RunOnUbt, Collect, unitVars, logVars, Units
<1>2. /\ child \in [Units -> Child] /\ child' \in [Units -> Child]
      /\ \A v \in Units : v # u => child'[v] = child[v]
  BY <1>1 DEF VerThd, ReadAdb, ReadAdbAgain, RunOnArm, RunOnUbt, Collect, TypeOK, TypeInv
<1>3. CASE ReadAdb(u) \/ ReadAdbAgain(u)
  <2>1. /\ child[u].pc \in {"adb1", "adb2"} /\ child'[u].pc \in {"adb1", "adb2", "arm"}
        /\ child'[u].mode = child[u].mode /\ UNCHANGED <<loc, tmpRes>>
    BY <1>2, <1>3 DEF ReadAdb, ReadAdbAgain, Child, logVars
  <2>2. ThreadInv'
    BY <1>1, <1>2, <2>1 DEF LogInv, ThreadInv
  <2>3. \A m \in Modes, s \in Seeds : HasRun(m, s)' <=> HasRun(m, s)
    <3>1. \A s \in Seeds : loc[s] = "armpass" => unitOf[s] # u /\ unitOf[s] \in Units
      BY <2>1 DEF LogInv, ThreadInv
    <3>2. QED
      BY <1>1, <1>2, <2>1, <3>1 DEF HasRun
  <2>4. \A v \in Units : /\ child'[v].mode = child[v].mode
                         /\ child[v].pc \in Past => child'[v].pc \in Past
    BY <1>2, <2>1 DEF Past
  <2>5. FileInv' /\ LineInv' /\ OrderInv' /\ LogsInStep'
    BY <1>1, <2>1, <2>3, <2>4, LogQuiet DEF TypeInv
  <2>6. QED
    BY <2>2, <2>5 DEF LogInv
<1>4. CASE Collect(u)
  <2>1. /\ child[u].pc = "collect" /\ child'[u].pc = "exit" /\ child'[u].mode = child[u].mode
        /\ child[u].mode = LastMode + 1 /\ UNCHANGED tmpRes
    BY <1>2, <1>4 DEF Collect, Child, logVars, LogInv, ThreadInv
  <2>2. InUnit(u, "unit") = {}
    BY <2>1 DEF IndInv, UnitInv, InUnit
  <2>3. \A s \in Seeds :
          loc'[s] = IF loc[s] = "armfail" /\ unitOf[s] = u THEN "FAIL"
                    ELSE IF loc[s] = "armpass" /\ unitOf[s] = u THEN "PASS" ELSE loc[s]
    BY <1>4, <2>2 DEF Collect, InUnit
  <2>4. ThreadInv'
    BY <1>1, <1>2, <2>1, <2>3 DEF LogInv, ThreadInv
  <2>5. ASSUME NEW m \in Modes, NEW s \in Seeds PROVE HasRun(m, s)' <=> HasRun(m, s)
    <3>1. m < LastMode + 1
      BY DEF Modes
    <3>2. CASE loc[s] \in {"armpass", "armfail"} /\ unitOf[s] = u
      BY <2>1, <2>3, <3>1, <3>2 DEF HasRun, Judged
    <3>3. CASE ~(loc[s] \in {"armpass", "armfail"} /\ unitOf[s] = u)
      <4>1. loc'[s] = loc[s] /\ unitOf'[s] = unitOf[s]
        BY <1>1, <2>3, <3>3
      <4>2. loc[s] = "armpass" => child'[unitOf[s]] = child[unitOf[s]]
        BY <1>2, <3>3 DEF LogInv, ThreadInv
      <4>3. QED
        BY <4>1, <4>2 DEF HasRun
    <3>4. QED
      BY <3>2, <3>3
  <2>6. \A v \in Units : /\ child'[v].mode = child[v].mode
                         /\ child[v].pc \in Past => child'[v].pc \in Past
    BY <1>2, <2>1 DEF Past
  <2>7. FileInv' /\ LineInv' /\ OrderInv' /\ LogsInStep'
    BY <1>1, <2>1, <2>5, <2>6, LogQuiet DEF TypeInv
  <2>8. QED
    BY <2>4, <2>7 DEF LogInv
<1>5. ASSUME NEW P \in SUBSET InUnit(u, "unit"), RunOnArm(u, P, NoLines) PROVE LogInv'
  <2> DEFINE S == InUnit(u, "unit")
  <2>1. /\ child[u].pc = "arm" /\ child'[u].pc = "ubt" /\ child'[u].mode = 1 /\ child[u].mode = 1
        /\ tmpRes' = MoveLog(0, u, PlusLines(NoLines, S))
    BY <1>2, <1>5 DEF RunOnArm, Child, LogInv, ThreadInv
  <2>2. \A s \in Seeds : loc'[s] = IF s \notin S THEN loc[s]
                                   ELSE IF s \in P THEN "armpass" ELSE "armfail"
    BY <1>5 DEF RunOnArm
  <2>3. \A s \in S : s \in Seeds /\ loc[s] = "unit" /\ unitOf[s] = u
    BY DEF InUnit
  <2>4. 0 \in Modes /\ Modes \subseteq Nat
    BY DEF Modes
  <2> HIDE DEF S
  <2>5. ThreadInv'
    BY <1>1, <1>2, <2>1, <2>2, <2>3 DEF LogInv, ThreadInv
  <2>6. \A f \in tmpRes : ~(f.mode = 0 /\ f.unit = u)
    BY <2>1 DEF LogInv, FileInv, Past
  <2>7. ASSUME NEW k \in Modes, NEW s \in Seeds
        PROVE  HasRun(k, s)' <=> HasRun(k, s) \/ (k = 0 /\ s \in S)
    <3>1. CASE s \in S
      <4>1. unitOf'[s] = u /\ child'[u].mode = 1 /\ k \in Nat
        BY <1>1, <2>1, <2>3, <2>4, <3>1
      <4>2. loc[s] = "unit" /\ loc'[s] \in {"armpass", "armfail"}
        BY <2>2, <2>3, <3>1
      <4>3. QED
        BY <3>1, <4>1, <4>2 DEF HasRun, Judged
    <3>2. CASE s \notin S
      <4>1. loc'[s] = loc[s] /\ unitOf'[s] = unitOf[s]
        BY <1>1, <2>2, <3>2
      <4>2. loc[s] = "armpass" => child'[unitOf[s]].mode = child[unitOf[s]].mode
        BY <1>2, <2>1 DEF LogInv, ThreadInv
      <4>3. QED
        BY <3>2, <4>1, <4>2 DEF HasRun
    <3>3. QED
      BY <3>1, <3>2
  <2>8. \A s \in S : unitOf[s] = u /\ ~HasRun(0, s)
    BY <2>3 DEF HasRun, Judged
  <2>9. \A v \in Units : /\ child'[v].mode >= child[v].mode
                         /\ child[v].pc \in Past => child'[v].pc \in Past
    <3>1. \A v \in Units : child[v].mode \in Int
      BY <1>2 DEF Child
    <3>2. QED
      BY <1>2, <2>1, <3>1 DEF Past
  <2>10. S \in SUBSET Seeds /\ child'[u].pc \in Past /\ 0 < child'[u].mode
    BY <2>1, <2>3 DEF Past
  <2>11. FileInv' /\ LineInv' /\ OrderInv' /\ LogsInStep'
    BY <1>1, <2>1, <2>4, <2>6, <2>7, <2>8, <2>9, <2>10, LogAdded DEF TypeInv
  <2>12. QED
    BY <2>5, <2>11 DEF LogInv
<1>6. CASE RunOnUbt(u, NoLines)
  <2> DEFINE S == InUnit(u, "armpass")
             m == child[u].mode
  <2>1. /\ child[u].pc = "ubt" /\ m \in Modes /\ m \in Nat \ {0} /\ m <= LastMode
    BY <1>2, <1>6 DEF RunOnUbt, Child, TypeInv, ModesLeft, Modes
  <2>2. /\ child'[u].pc = IF m = LastMode THEN "collect" ELSE "ubt"
        /\ child'[u].mode = m + 1 /\ UNCHANGED loc
        /\ tmpRes' = MoveLog(m, u, PlusLines(NoLines, S))
    BY <1>2, <1>6 DEF RunOnUbt, Child
  <2>3. S \subseteq Seeds /\ \A s \in Seeds : s \in S <=> loc[s] = "armpass" /\ unitOf[s] = u
    BY DEF InUnit
  <2> HIDE DEF S, m
  <2>4. ThreadInv'
    BY <1>1, <1>2, <2>1, <2>2 DEF LogInv, ThreadInv
  <2>5. \A f \in tmpRes : ~(f.mode = m /\ f.unit = u)
    BY <2>1 DEF LogInv, FileInv, m
  <2>6. ASSUME NEW k \in Modes, NEW s \in Seeds
        PROVE  HasRun(k, s)' <=> HasRun(k, s) \/ (k = m /\ s \in S)
    <3>1. CASE s \in S
      <4>1. k \in Nat
        <5>1. Modes \subseteq Nat
          BY DEF Modes
        <5>2. QED
          BY <5>1
      <4>5. loc[s] = "armpass" /\ unitOf[s] = u
        BY <2>3, <3>1
      <4>6. loc'[s] = "armpass" /\ unitOf'[s] = u
        BY <1>1, <2>2, <4>5
      <4>2. HasRun(k, s)' <=> k = 0 \/ k < m + 1
        BY <2>2, <4>1, <4>6 DEF HasRun, Judged
      <4>3. HasRun(k, s) <=> k = 0 \/ k < m
        BY <4>1, <4>5 DEF HasRun, Judged, m
      <4>4. QED
        BY <2>1, <3>1, <4>1, <4>2, <4>3
    <3>2. CASE s \notin S
      <4>1. loc[s] = "armpass" => child'[unitOf[s]] = child[unitOf[s]]
        BY <1>2, <2>3, <3>2 DEF LogInv, ThreadInv
      <4>2. QED
        BY <1>1, <2>2, <3>2, <4>1 DEF HasRun
    <3>3. QED
      BY <3>1, <3>2
  <2>7. \A s \in S : unitOf[s] = u /\ ~HasRun(m, s)
    BY <2>1, <2>3 DEF HasRun, m
  <2>8. \A v \in Units : /\ child'[v].mode >= child[v].mode
                         /\ child[v].pc \in Past => child'[v].pc \in Past
    <3>1. \A v \in Units : child[v].mode \in Int
      BY <1>2 DEF Child
    <3>2. QED
      BY <1>2, <2>1, <2>2, <3>1 DEF Past, m
  <2>9. S \in SUBSET Seeds /\ child'[u].pc \in Past /\ m < child'[u].mode
    BY <2>1, <2>2, <2>3 DEF Past
  <2>10. FileInv' /\ LineInv' /\ OrderInv' /\ LogsInStep'
    BY <1>1, <2>1, <2>2, <2>5, <2>6, <2>7, <2>8, <2>9, LogAdded DEF TypeInv
  <2>11. QED
    BY <2>4, <2>10 DEF LogInv
<1>7. QED
  BY <1>3, <1>4, <1>5, <1>6 DEF VerThd

\* Every step keeps the logs right.
LEMMA NextLog ==
  ASSUME TypeInv, TypeOK', IndInv, IndInv', LogInv, [Next]_vars
  PROVE  LogInv'
<1>1. ASSUME NEW u \in Units, VerThd(u) PROVE LogInv'
  BY <1>1, LogThread
<1>2. CASE GlobTmpRes
  <2>1. UNCHANGED <<loc, unitOf, UNIT_NUM, child>>
    BY <1>2 DEF GlobTmpRes, unitVars
  <2>2. ThreadInv'
    BY <2>1 DEF LogInv, ThreadInv, Units
  <2>3. QED
    BY <1>2, <2>2, LogListed DEF LogInv, TypeInv
<1>3. ASSUME NEW f \in resFiles, MergeFile(f) PROVE LogInv'
  <2>1. UNCHANGED <<loc, unitOf, UNIT_NUM, child>>
    BY <1>3 DEF MergeFile, unitVars
  <2>2. ThreadInv'
    BY <2>1 DEF LogInv, ThreadInv, Units
  <2>3. QED
    BY <1>3, <2>2, LogMerged DEF LogInv, TypeInv
<1>4. CASE /\ UNCHANGED logVars
           /\ \A s \in Seeds : loc'[s] \in Judged \/ loc[s] \in Judged => loc'[s] = loc[s] /\ unitOf'[s] = unitOf[s]
           /\ UNCHANGED <<UNIT_NUM, child>> \/ Fork
  <2>1. UNCHANGED <<tmpRes, resFiles, merged>>
    BY <1>4 DEF logVars
  <2>2. /\ \A u \in Units : u \in Units' /\ child'[u] = child[u]
        /\ \A u \in Units' : u \notin Units => child'[u].pc = "adb1" /\ child'[u].mode = 1
    <3>1. CASE UNCHANGED <<UNIT_NUM, child>>
      BY <3>1 DEF Units
    <3>2. CASE Fork
      <4>1. UNIT_NUM \in Nat
        BY DEF TypeInv, TypeOK
      <4>2. UNIT_NUM' = UNIT_NUM + 1
            /\ child' = [u \in 0 .. UNIT_NUM |->
                 IF u = UNIT_NUM THEN [pc |-> "adb1", adb |-> 0, mode |-> 1]
                                 ELSE child[u]]
        BY <3>2 DEF Fork
      <4>3. Units' = 0 .. UNIT_NUM /\ \A u \in 0 .. UNIT_NUM : u \in Units <=> u # UNIT_NUM
        BY <4>1, <4>2 DEF Units
      <4>4. \A u \in Units : u \in 0 .. UNIT_NUM /\ u # UNIT_NUM
        BY <4>1 DEF Units
      <4>5. QED
        BY <4>2, <4>3, <4>4
    <3>3. QED
      BY <1>4, <3>1, <3>2
  <2>4. ThreadInv'
    BY <1>4, <2>2 DEF LogInv, ThreadInv, Judged
  <2>5. \A m \in Modes, s \in Seeds : HasRun(m, s)' <=> HasRun(m, s)
    <3>1. \A s \in Seeds : loc[s] = "armpass" => child'[unitOf[s]] = child[unitOf[s]]
      BY <2>2 DEF LogInv, ThreadInv
    <3>2. QED
      BY <1>4, <3>1 DEF HasRun, Judged
  <2>6. FileInv' /\ LineInv' /\ OrderInv' /\ LogsInStep'
    BY <1>4, <2>1, <2>2, <2>5, LogQuiet DEF TypeInv
  <2>7. QED
    BY <2>4, <2>6 DEF LogInv
<1>5. ASSUME NEW s \in Seeds, FailSeed(s) PROVE LogInv'
  BY <1>4, <1>5 DEF FailSeed, unitVars, TypeInv, TypeOK, Judged
<1>6. ASSUME NEW d \in fdirs, RemoveDir(d) PROVE LogInv'
  BY <1>4, <1>6 DEF RemoveDir, InDir, unitVars, TypeInv, TypeOK, Judged
<1>7. ASSUME NEW d \in fdirs, NEW s \in Seeds, TakeSeed(d, s) PROVE LogInv'
  <2>1. s \in GlobList(d) /\ loc' = [loc EXCEPT ![s] = "unit"]
        /\ unitOf' = [unitOf EXCEPT ![s] = UNIT_NUM] /\ UNCHANGED <<UNIT_NUM, child, logVars>>
    BY <1>7 DEF TakeSeed, First
  <2>2. loc[s] = "dir"
    BY <2>1 DEF GlobList, InDir, GlobInv, IndInv
  <2>3. QED
    BY <1>4, <2>1, <2>2 DEF TypeInv, TypeOK, Judged
<1>8. CASE UNCHANGED <<loc, unitOf, UNIT_NUM, child, logVars>> \/ Fork
  BY <1>4, <1>8 DEF Fork
<1>9. QED
  BY <1>1, <1>2, <1>3, <1>5, <1>6, <1>7, <1>8 DEF Next, Task, Parent, Merge, Scan, Submit, vars,
     unitVars, MakeFailDir, WriteDone, GlobSeedDir, EndScan, SkipDir, CutScan, Sleep,
     SubmitNothing, ForkFails

\* LogInv is an invariant.
LEMMA LogInductive == Spec => []LogInv
  BY InitLog, NextLog, TypeInvariant, Inductive, PTL DEF Spec, TypeInv

\* The result log of a translator mode never runs ahead of the device's, for
\* any number of units, modes and processes.
THEOREM LogsKeepStep == Spec => []LogsInStep
  BY LogInductive, PTL DEF LogInv

\* Each run of a seed is counted once: no line is lost or merged twice, in any
\* interleaving of the processes with the main loop.
THEOREM LinesCounted == Spec => []LinesExact
<1>1. ASSUME TypeOK, LogInv PROVE LinesExact
  <2> SUFFICES ASSUME NEW m \in Modes, NEW s \in Seeds
               PROVE  LET pending == {f \in tmpRes : f.mode = m /\ f.lines[s] > 0}
                          lines   == merged[m][s] + Cardinality(pending)
                      IN /\ lines <= 1
                         /\ loc[s] = "PASS" => lines = 1
                         /\ loc[s] = "FAIL" => lines = IF m = 0 THEN 1 ELSE 0
    BY DEF LinesExact
  <2> DEFINE pending == {f \in tmpRes : f.mode = m /\ f.lines[s] > 0}
  <2>1. merged[m][s] \in Nat
    BY <1>1 DEF TypeOK
  <2>2. /\ loc[s] = "PASS" => HasRun(m, s)
        /\ loc[s] = "FAIL" => (HasRun(m, s) <=> m = 0)
    BY DEF HasRun, Judged
  <2>3. merged[m][s] > 0 => merged[m][s] = 1 /\ HasRun(m, s) /\ pending = {}
    <3>1. merged[m][s] > 0 => merged[m][s] = 1 /\ HasRun(m, s)
      BY <1>1 DEF LogInv, LineInv
    <3>2. ASSUME NEW f \in pending PROVE merged[m][s] = 0
      <4>1. f \in tmpRes /\ f.mode = m /\ f.lines[s] > 0
        OBVIOUS
      <4>2. merged[f.mode][s] = 0
        BY <1>1, <4>1 DEF LogInv, LineInv
      <4>3. QED
        BY <4>1, <4>2
    <3>3. QED
      BY <3>1, <3>2
  <2>4. ~HasRun(m, s) => pending = {} /\ merged[m][s] = 0
    <3>1. ~HasRun(m, s) => ~(merged[m][s] > 0)
      BY <2>3
    <3>2. ASSUME NEW f \in pending PROVE HasRun(m, s)
      <4>1. f \in tmpRes /\ f.mode = m /\ f.lines[s] > 0
        OBVIOUS
      <4>2. HasRun(f.mode, s)
        BY <1>1, <4>1 DEF LogInv, LineInv
      <4>3. QED
        BY <4>1, <4>2
    <3>3. QED
      BY <2>1, <3>1, <3>2
  <2>5. ASSUME HasRun(m, s), merged[m][s] = 0 PROVE \E f : pending = {f}
    <3>1. PICK f \in tmpRes : f.mode = m /\ f.lines[s] > 0
      BY <1>1, <2>5 DEF LogInv, LineInv
    <3>2. \A g \in pending : g = f
      BY <1>1, <3>1 DEF LogInv, LineInv, FileInv
    <3>3. QED
      BY <3>1, <3>2
  <2> HIDE DEF pending
  <2>6. /\ pending = {} => Cardinality(pending) = 0
        /\ (\E f : pending = {f}) => Cardinality(pending) = 1
    BY FS_EmptySet, FS_Singleton
  <2>7. /\ HasRun(m, s) => merged[m][s] + Cardinality(pending) = 1
        /\ ~HasRun(m, s) => merged[m][s] + Cardinality(pending) = 0
    <3>1. CASE merged[m][s] > 0
      <4>1. merged[m][s] = 1 /\ HasRun(m, s) /\ Cardinality(pending) = 0
        BY <2>3, <2>6, <3>1
      <4>2. QED
        BY <4>1
    <3>2. CASE merged[m][s] = 0 /\ HasRun(m, s)
      <4>1. Cardinality(pending) = 1
        BY <2>5, <2>6, <3>2
      <4>2. QED
        BY <3>2, <4>1
    <3>3. CASE merged[m][s] = 0 /\ ~HasRun(m, s)
      <4>1. Cardinality(pending) = 0
        BY <2>4, <2>6, <3>3
      <4>2. QED
        BY <3>3, <4>1
    <3>4. QED
      BY <2>1, <3>1, <3>2, <3>3
  <2>8. QED
    BY <2>2, <2>7 DEF pending
<1>2. QED
  BY <1>1, LogInductive, TypeCorrect, PTL
=============================================================================
