-------------------------- MODULE VerifyRestartProofs --------------------------
(***************************************************************************)
(* Stopping and starting local_verify.pl at any point, any number of times *)
(* and for any number of seeds, deletes no seed that was not judged.  The  *)
(* invariant of LocalVerifyProofs carries over: a restart changes nothing  *)
(* of what it says, as it forgets the units and the iterator.  Nor does a  *)
(* stop lose a result: what the logs left in units hold is merged before   *)
(* the first process of the next run can replace them.  What a stop can    *)
(* repeat of the results is bounded by the number of stops.                *)
(***************************************************************************)
EXTENDS VerifyRestart, LocalVerifyProofs

USE ConstantsAssumption, StopAssumption

\* The logs left in units are logs.
LeftType == left \subseteq LogFile

RInv == TypeInv /\ LeftType /\ IndInv

\* A process that appends to a log left in its unit finds lines there.
LEMMA LeftLinesType ==
  ASSUME LeftType, NEW m, NEW u
  PROVE  LeftLines(m, u) \in [Seeds -> Nat]
<1>1. CASE LeftFile(m, u) = {}
  BY <1>1, NoLinesType DEF LeftLines
<1>2. CASE LeftFile(m, u) # {}
  <2> DEFINE f == CHOOSE g \in LeftFile(m, u) : TRUE
  <2>1. f \in LeftFile(m, u)
    BY <1>2
  <2>2. f \in LogFile
    BY <2>1 DEF LeftType, LeftFile
  <2>3. f.lines \in [Seeds -> Nat]
    BY <2>2 DEF LogFile
  <2>4. QED
    BY <1>2, <2>3 DEF LeftLines
<1>3. QED
  BY <1>1, <1>2

\* A log that is written to a unit is a log.
LEMMA LogIsLog ==
  ASSUME NEW m \in Modes, NEW u \in Nat, NEW lines \in [Seeds -> Nat]
  PROVE  Log(m, u, lines) \subseteq LogFile
<1>1. [mode |-> m, unit |-> u, lines |-> lines] \in LogFile
  BY DEF LogFile
<1>2. QED
  BY <1>1 DEF Log

\* So are the logs an interrupted run leaves.
LEMMA LeftAfterType ==
  ASSUME LeftType, NEW m \in Modes, NEW u \in Nat, NEW S \in SUBSET Seeds
  PROVE  LeftAfter(m, u, S) \subseteq LogFile
<1>1. PlusLines(LeftLines(m, u), {s \in S : unitOf[s] = u}) \in [Seeds -> Nat]
  BY LeftLinesType DEF PlusLines
<1>2. QED
  BY <1>1, LogIsLog DEF LeftAfter

\* The logs found after a restart are logs.
LEMMA LeftLogsType ==
  ASSUME TypeInv, LeftType, NEW L \in SUBSET Seeds, NEW U \in SUBSET Seeds
  PROVE  LeftLogs(L, U) \subseteq LogFile
<1> USE DEF TypeInv, TypeOK
<1>1. ASSUME NEW u \in Units, child[u].pc = "arm" PROVE LeftAfter(0, u, L) \subseteq LogFile
  <2>1. 0 \in Modes /\ u \in Nat
    BY DEF Modes, Units
  <2>2. QED
    BY <2>1, LeftAfterType
<1>2. ASSUME NEW u \in Units, child[u].pc = "ubt"
      PROVE  LeftAfter(child[u].mode, u, U) \subseteq LogFile
  <2>1. child[u].mode \in Modes /\ u \in Nat
    BY <1>2 DEF ModesLeft, Child, Modes, Units
  <2>2. QED
    BY <2>1, LeftAfterType
<1>3. ASSUME NEW f \in LeftLogs(L, U) PROVE f \in LogFile
  <2> DEFINE arm == {u \in Units : child[u].pc = "arm"}
             ubt == {u \in Units : child[u].pc = "ubt"}
             armLogs == UNION {LeftAfter(0, u, L) : u \in arm}
             ubtLogs == UNION {LeftAfter(child[u].mode, u, U) : u \in ubt}
             old == {g \in left : ~(g.mode = 0 /\ g.unit \in arm) /\ ~(g.unit \in ubt /\ g.mode = child[g.unit].mode)}
  <2>1. LeftLogs(L, U) = old \cup armLogs \cup ubtLogs
    BY DEF LeftLogs
  <2>2. \A g \in armLogs : \E u \in arm : g \in LeftAfter(0, u, L)
    BY Zenon
  <2>3. \A g \in ubtLogs : \E u \in ubt : g \in LeftAfter(child[u].mode, u, U)
    BY Zenon
  <2>4. old \subseteq left
    OBVIOUS
  <2> HIDE DEF armLogs, ubtLogs, old
  <2>5. QED
    BY <1>1, <1>2, <2>1, <2>2, <2>3, <2>4 DEF LeftType
<1>4. QED
  BY <1>3

\* What a restart does to the seeds: those at a process may be further on.
LEMMA RestartEffect ==
  ASSUME TypeInv, LeftType, Restart
  PROVE  /\ left' \subseteq LogFile
         /\ loc' \in [Seeds -> Places]
         /\ \A s \in Seeds :
              \/ loc'[s] = loc[s]
              \/ /\ loc[s] \in {"unit", "armpass", "armfail"}
                 /\ loc'[s] \in {"armpass", "armfail", "PASS", "FAIL"}
         /\ pc' = "top" /\ globOn' = FALSE /\ globRest' = {} /\ fdirs' = {} /\ resFiles' = {}
         /\ UNIT_CNT' = 0 /\ UNIT_NUM' = 0 /\ SPAN_CNT' = 0 /\ Units' = {}
         /\ child' = [u \in {} |-> [pc |-> "exit", adb |-> 0, mode |-> 1]]
         /\ UNCHANGED <<dirs, unitOf, tmpRes, cut>>
<1>1. PICK L \in SUBSET At("arm", "unit"), U \in SUBSET At("ubt", "armpass") :
        \E J \in SUBSET L : \E P \in SUBSET J :
        \E C \in SUBSET (At("collect", "armfail") \cup At("collect", "armpass")) :
          /\ ArmStopped(L, J)
          /\ CollectStopped(C)
          /\ left' = LeftLogs(L, U)
          /\ Start([s \in Seeds |-> IF s \in P THEN "armpass"
                                    ELSE IF s \in J THEN "armfail"
                                    ELSE IF s \in C /\ loc[s] = "armpass" THEN "PASS"
                                    ELSE IF s \in C THEN "FAIL"
                                    ELSE loc[s]])
  BY Zenon DEF Restart
<1>1a. PICK J \in SUBSET L : \E P \in SUBSET J :
        \E C \in SUBSET (At("collect", "armfail") \cup At("collect", "armpass")) :
          /\ ArmStopped(L, J)
          /\ CollectStopped(C)
          /\ left' = LeftLogs(L, U)
          /\ Start([s \in Seeds |-> IF s \in P THEN "armpass"
                                    ELSE IF s \in J THEN "armfail"
                                    ELSE IF s \in C /\ loc[s] = "armpass" THEN "PASS"
                                    ELSE IF s \in C THEN "FAIL"
                                    ELSE loc[s]])
  BY <1>1, Zenon
<1>2. PICK P \in SUBSET J, C \in SUBSET (At("collect", "armfail") \cup At("collect", "armpass")) :
          /\ ArmStopped(L, J)
          /\ CollectStopped(C)
          /\ left' = LeftLogs(L, U)
          /\ Start([s \in Seeds |-> IF s \in P THEN "armpass"
                                    ELSE IF s \in J THEN "armfail"
                                    ELSE IF s \in C /\ loc[s] = "armpass" THEN "PASS"
                                    ELSE IF s \in C THEN "FAIL"
                                    ELSE loc[s]])
  BY <1>1a, Zenon
<1>3. left' \subseteq LogFile
  BY <1>2, LeftLogsType DEF At
<1>4. /\ pc' = "top" /\ globOn' = FALSE /\ globRest' = {} /\ fdirs' = {} /\ resFiles' = {}
      /\ UNIT_CNT' = 0 /\ UNIT_NUM' = 0 /\ SPAN_CNT' = 0
      /\ child' = [u \in {} |-> [pc |-> "exit", adb |-> 0, mode |-> 1]]
  BY <1>2 DEF Start
<1>5. Units' = {}
  BY <1>4 DEF Units
<1>6. UNCHANGED <<dirs, unitOf, tmpRes, cut>>
  BY DEF Restart
<1>7. \A s \in L : loc[s] = "unit"
  BY DEF At
<1>8. \A s \in C : loc[s] \in {"armpass", "armfail"}
  BY DEF At
<1>9. loc' = [s \in Seeds |-> IF s \in P THEN "armpass"
                              ELSE IF s \in J THEN "armfail"
                              ELSE IF s \in C /\ loc[s] = "armpass" THEN "PASS"
                              ELSE IF s \in C THEN "FAIL"
                              ELSE loc[s]]
  BY <1>2 DEF Start
<1>10. loc' \in [Seeds -> Places]
  BY <1>9 DEF TypeInv, TypeOK, Places
<1>11. \A s \in Seeds :
         \/ loc'[s] = loc[s]
         \/ /\ loc[s] \in {"unit", "armpass", "armfail"}
            /\ loc'[s] \in {"armpass", "armfail", "PASS", "FAIL"}
  BY <1>7, <1>8, <1>9
<1>12. QED
  BY <1>3, <1>4, <1>5, <1>6, <1>10, <1>11

\* The logs merged so far stay counts of lines.
LEMMA RestartMerged ==
  ASSUME TypeInv, Restart
  PROVE  merged' \in [Modes -> [Seeds -> Nat]]
<1> USE DEF TypeInv, TypeOK
<1>1. CASE UNCHANGED merged
  BY <1>1
<1>2. ASSUME NEW f \in resFiles, NEW A \in SUBSET Seeds, MergeStopped(f, A)
      PROVE  merged' \in [Modes -> [Seeds -> Nat]]
  <2>1. f.mode \in Modes /\ f.lines \in [Seeds -> Nat]
    BY DEF LogFile
  <2>2. QED
    BY <1>2, <2>1 DEF MergeStopped
<1>3. QED
  BY <1>1, <1>2 DEF Restart

\* A restart preserves the invariant.
LEMMA RestartInv == ASSUME RInv, Restart PROVE RInv'
<1> USE DEF RInv, TypeInv
<1>1. LeftType'
  BY RestartEffect DEF LeftType
<1>2. child' \in [Units' -> Child]
  BY RestartEffect DEF Child
<1>3. TypeOK'
  <2>1. dirs \in [Dirs -> {"absent", "filling", "Done", "removed"}] /\ unitOf \in [Seeds -> Nat]
        /\ tmpRes \subseteq LogFile /\ cut \in BOOLEAN
    BY DEF TypeOK
  <2>2. dirs' = dirs /\ unitOf' = unitOf /\ tmpRes' = tmpRes /\ cut' = cut
    BY RestartEffect
  <2>3. loc' \in [Seeds -> Places] /\ merged' \in [Modes -> [Seeds -> Nat]]
    BY RestartEffect, RestartMerged
  <2>4. /\ pc' = "top" /\ globOn' = FALSE /\ globRest' = {} /\ fdirs' = {} /\ resFiles' = {}
        /\ UNIT_CNT' = 0 /\ UNIT_NUM' = 0 /\ SPAN_CNT' = 0
    BY RestartEffect
  <2>5. QED
    BY <1>2, <2>1, <2>2, <2>3, <2>4 DEF TypeOK
<1>4. ModesLeft'
  BY RestartEffect DEF ModesLeft
<1>5. HandOver'
  BY RestartEffect DEF IndInv, HandOver
<1>6. ScanInv' /\ GlobInv' /\ UnitInv'
  BY RestartEffect DEF ScanInv, GlobInv, UnitInv
<1>7. LossOnlyAfterCut'
  BY RestartEffect DEF IndInv, LossOnlyAfterCut
<1>8. QED
  BY <1>1, <1>3, <1>4, <1>5, <1>6, <1>7 DEF IndInv

\* So does every other step, which is one of LocalVerify but for the lines
\* the processes find.
LEMMA StepInv == ASSUME RInv, [RNext]_allVars PROVE RInv'
<1> USE DEF RInv
<1>1. CASE Restart
  BY <1>1, RestartInv
<1>2. CASE (Task \/ Parent) /\ UNCHANGED <<left, stops>>
  <2>1. TypeOK' /\ ModesLeft'
    BY <1>2, NextType, NextModes DEF Next
  <2>2. IndInv'
    BY <1>2, <2>1, TaskInd, ParentInd
  <2>3. QED
    BY <1>2, <2>1, <2>2 DEF LeftType, TypeInv
<1>3. ASSUME NEW u \in Units, NEW armOld \in [Seeds -> Nat], NEW ubtOld \in [Seeds -> Nat],
             Thread(u, armOld, ubtOld), left' \subseteq left
      PROVE  RInv'
  <2>1. TypeOK' /\ ModesLeft'
    BY <1>3, ThreadType, ThreadModes
  <2>2. IndInv'
    BY <1>3, <2>1, ThreadInd
  <2>3. QED
    BY <1>3, <2>1, <2>2 DEF LeftType, TypeInv
<1>4. ASSUME NEW u \in Units,
             \/ (ReadAdb(u) \/ ReadAdbAgain(u)) /\ UNCHANGED <<left, stops>>
             \/ RunOnArmAgain(u)
             \/ RunOnUbtAgain(u)
             \/ CollectAgain(u)
      PROVE  RInv'
  <2>1. left' \subseteq left
    BY <1>4 DEF RunOnArmAgain, RunOnUbtAgain, CollectAgain
  <2>2. Thread(u, LeftLines(0, u), LeftLines(child[u].mode, u))
    BY <1>4 DEF Thread, RunOnArmAgain, RunOnUbtAgain, CollectAgain
  <2>3. LeftLines(0, u) \in [Seeds -> Nat] /\ LeftLines(child[u].mode, u) \in [Seeds -> Nat]
    BY LeftLinesType
  <2>4. QED
    BY <1>3, <2>1, <2>2, <2>3
<1>5. CASE UNCHANGED allVars
  <2>1. UNCHANGED vars /\ left' = left
    BY <1>5 DEF allVars
  <2>2. TypeOK' /\ ModesLeft'
    BY <2>1, NextType, NextModes
  <2>3. IndInv'
    BY <2>1, <2>2, NextInd
  <2>4. QED
    BY <2>1, <2>2, <2>3 DEF LeftType, TypeInv
<1>6. QED
  BY <1>1, <1>2, <1>4, <1>5 DEF RNext

\* The initial states satisfy the invariant.
LEMMA InitInv == RInit => RInv
  BY InitType, InitInd DEF RInit, RInv, LeftType

\* RInv is an invariant of the verifier with restarts.
LEMMA RestartInvariant == RSpec => []RInv
  BY InitInv, StepInv, PTL DEF RSpec

\* However often the script is stopped and wherever, no seed is deleted
\* unjudged unless a scan was left early (local_verify.pl:66, 142-146, 233).
THEOREM RestartKeepsSeeds == RSpec => []RestartLosesNothing
<1>1. RInv => RestartLosesNothing
  BY DEF RInv, IndInv, LossOnlyAfterCut, RestartLosesNothing
<1>2. QED
  BY <1>1, RestartInvariant, PTL

\* The Done protocol and the types hold across restarts too.
THEOREM RestartHandOver == RSpec => [](TypeOK /\ HandOver)
<1>1. RInv => TypeOK /\ HandOver
  BY DEF RInv, IndInv, TypeInv
<1>2. QED
  BY <1>1, RestartInvariant, PTL

-----------------------------------------------------------------------------
(***************************************************************************)
(* No result is lost.  The directories verifying_0, verifying_1, ... are   *)
(* used again after a restart, so a process could replace a log of the run *)
(* before in TMP_RES.  It does not, because the first round of the main    *)
(* loop merges all of them before it can fork.                             *)
(***************************************************************************)
Kept(m, s) == merged[m][s] > 0 \/ HasLine(tmpRes, m, s)

\* The mode a process is at follows from its point.
AtMode ==
  \A u \in Units :
    /\ child[u].pc \in {"adb1", "adb2", "arm"} => child[u].mode = 1
    /\ child[u].pc \in {"collect", "exit"} => child[u].mode = LastMode + 1

\* Once a process can be forked, the logs in TMP_RES are those of processes
\* of this run, of modes they have finished.
FreshLogs ==
  /\ UNIT_NUM > 0 \/ pc \in {"scan", "submit"} =>
       \A f \in tmpRes :
         f.unit \in Units /\ child[f.unit].pc \in Past /\ f.mode < child[f.unit].mode
  /\ UNIT_NUM = 0 /\ pc = "merge" => tmpRes \subseteq resFiles

\* The unit of the seed has been run on the device since the last restart.
Tested(s) == unitOf[s] \in Units /\ child[unitOf[s]].pc \in Past

\* Where the lines of a judged seed are; those of a seed that an interrupted
\* process judged may still be in the log of its unit.
SeedKept(s) ==
  /\ loc[s] = "PASS" => \A m \in Modes : Kept(m, s)
  /\ loc[s] = "FAIL" => Kept(0, s)
  /\ loc[s] \in {"armpass", "armfail"} =>
       Kept(0, s) \/ (LeftLines(0, unitOf[s])[s] > 0 /\ ~Tested(s))
  /\ loc[s] = "armpass" /\ unitOf[s] \in Units =>
       \A m \in Modes : 0 < m /\ m < child[unitOf[s]].mode => Kept(m, s)

KeptInv == \A s \in Seeds : SeedKept(s)

KInv == AtMode /\ FreshLogs /\ KeptInv

\* The initial states satisfy it.
LEMMA InitKept == RInit => KInv
<1> SUFFICES ASSUME RInit PROVE KInv
  OBVIOUS
<1>1. Units = {} /\ tmpRes = {}
  BY DEF RInit, Init, Units
<1>2. \A s \in Seeds : loc[s] = "generated"
  BY DEF RInit, Init
<1>3. QED
  BY <1>1, <1>2 DEF KInv, AtMode, FreshLogs, KeptInv, SeedKept

\* A step that judges no seed, moves no log of a unit and loses no line.
LEMMA KeptQuiet ==
  ASSUME KeptInv, UNCHANGED left,
         \A m \in Modes, s \in Seeds : Kept(m, s) => Kept(m, s)',
         \A s \in Seeds : loc'[s] \in Judged => loc'[s] = loc[s] /\ unitOf'[s] = unitOf[s],
         \A u \in Units : /\ u \in Units' /\ child'[u].mode = child[u].mode
                          /\ child'[u].pc \in Past => child[u].pc \in Past,
         \A u \in Units' : u \notin Units => child'[u].pc = "adb1" /\ child'[u].mode = 1
  PROVE  KeptInv'
<1>1. 0 \in Modes /\ Modes \subseteq Nat
  BY DEF Modes
<1>2. \A u : LeftLines(0, u)' = LeftLines(0, u)
  BY DEF LeftLines, LeftFile
<1>3. SUFFICES ASSUME NEW s \in Seeds PROVE SeedKept(s)'
  BY DEF KeptInv
<1>4. CASE loc'[s] \notin Judged
  BY <1>4 DEF Judged, SeedKept
<1>5. CASE loc'[s] \in Judged
  <2>1. loc'[s] = loc[s] /\ unitOf'[s] = unitOf[s]
    BY <1>5
  <2>2. Tested(s)' => Tested(s)
    BY <2>1 DEF Tested, Past
  <2>3. SeedKept(s)
    BY DEF KeptInv
  <2>4. Kept(0, s)' \/ (LeftLines(0, unitOf[s])[s] > 0 /\ ~Tested(s)) =>
          Kept(0, s)' \/ (LeftLines(0, unitOf[s])[s] > 0 /\ ~Tested(s))'
    BY <1>2, <2>1, <2>2 DEF LeftLines, LeftFile
  <2>5. ASSUME loc[s] = "armpass", unitOf[s] \in Units', NEW m \in Modes,
               0 < m, m < child'[unitOf[s]].mode
        PROVE  Kept(m, s)'
    <3>1. m \in Nat
      BY <1>1
    <3>2. unitOf[s] \in Units /\ child'[unitOf[s]].mode = child[unitOf[s]].mode
      BY <2>5, <3>1
    <3>3. QED
      BY <2>3, <2>5, <3>2 DEF SeedKept
  <2>6. QED
    BY <1>1, <2>1, <2>3, <2>4, <2>5 DEF SeedKept
<1>6. QED
  BY <1>4, <1>5

\* A log that replaces no other adds its lines to those in TMP_RES.
LEMMA KeptMoved ==
  ASSUME NEW m, NEW u, NEW lines, \A f \in tmpRes : ~(f.mode = m /\ f.unit = u),
         tmpRes' = MoveLog(m, u, lines), UNCHANGED merged
  PROVE  /\ tmpRes \subseteq tmpRes'
         /\ \A k \in Modes, s \in Seeds : Kept(k, s) => Kept(k, s)'
         /\ \A s \in Seeds : lines[s] > 0 => Kept(m, s)'
<1> DEFINE new == [mode |-> m, unit |-> u, lines |-> lines]
<1>1. tmpRes' = tmpRes \cup Log(m, u, lines)
  BY DEF MoveLog
<1>2. ASSUME NEW s \in Seeds, lines[s] > 0 PROVE HasLine(tmpRes', m, s)
  <2>1. NoLines[s] = 0
    BY DEF NoLines
  <2>2. lines # NoLines
    BY <1>2, <2>1
  <2>3. new \in tmpRes'
    BY <1>1, <2>2 DEF Log
  <2>4. QED
    BY <1>2, <2>3 DEF HasLine
<1>3. QED
  BY <1>1, <1>2 DEF Kept, HasLine

\* Lines in the unit stay when the log does.
LEMMA LeftRest ==
  ASSUME NEW m, NEW u, LeftFile(m, u)' = LeftFile(m, u)
  PROVE  LeftLines(m, u)' = LeftLines(m, u)
<1> DEFINE F == LeftFile(m, u)
<1>1. LeftLines(m, u) = IF F = {} THEN NoLines ELSE (CHOOSE f \in F : TRUE).lines
  BY DEF LeftLines
<1>2. LeftLines(m, u)' = IF F' = {} THEN NoLines ELSE (CHOOSE f \in F' : TRUE).lines
  BY DEF LeftLines, NoLines
<1> HIDE DEF F
<1>3. F' = F
  BY DEF F
<1>4. QED
  BY <1>1, <1>2, <1>3

\* The process of a unit runs its seeds on the device: lines that an
\* interrupted run left in the unit go to TMP_RES with the new ones.
LEMMA ArmKept ==
  ASSUME RInv, TypeOK', KInv, NEW u \in Units, RunOnArmAgain(u)
  PROVE  KInv'
<1> USE DEF RInv, TypeInv
<1> DEFINE S == InUnit(u, "unit")
           old == LeftLines(0, u)
<1>1. PICK P \in SUBSET S : RunOnArm(u, P, old)
  BY DEF RunOnArmAgain
<1>2. child[u].pc = "arm" /\ child[u].mode = 1 /\ Units' = Units /\ UNCHANGED <<UNIT_NUM, pc, unitOf, merged>>
  BY <1>1 DEF RunOnArm, unitVars, Units, KInv, AtMode
<1>3. /\ child \in [Units -> Child] /\ child'[u].pc = "ubt" /\ child'[u].mode = 1
      /\ \A v \in Units : v # u => child'[v] = child[v]
  BY <1>1, <1>2 DEF RunOnArm, Child, TypeOK
<1>4. \A s \in Seeds : loc'[s] = IF s \notin S THEN loc[s]
                                 ELSE IF s \in P THEN "armpass" ELSE "armfail"
  BY <1>1 DEF RunOnArm
<1>5. tmpRes' = MoveLog(0, u, PlusLines(old, S)) /\ left' = left \ LeftFile(0, u)
      /\ resFiles' = resFiles
  BY <1>1 DEF RunOnArm, RunOnArmAgain
<1>6. S \subseteq Seeds /\ \A s \in Seeds : s \in S <=> loc[s] = "unit" /\ unitOf[s] = u
  BY DEF InUnit
<1>7. old \in [Seeds -> Nat]
  BY LeftLinesType
<1>8. UNIT_NUM > 0 /\ 0 \in Modes /\ Modes \subseteq Nat
  BY DEF Units, TypeOK, Modes
<1>9. \A f \in tmpRes : f.unit \in Units /\ child[f.unit].pc \in Past /\ f.mode < child[f.unit].mode
  BY <1>8 DEF KInv, FreshLogs
<1>10. \A f \in tmpRes : ~(f.mode = 0 /\ f.unit = u)
  BY <1>2, <1>9 DEF Past
<1> HIDE DEF S, old
<1> DEFINE lines == PlusLines(old, S)
<1>11. \A s \in Seeds : lines[s] = old[s] + (IF s \in S THEN 1 ELSE 0)
  BY DEF PlusLines
<1>12. \A s \in Seeds : (s \in S \/ old[s] > 0) => lines[s] > 0
  <2>1. \A s \in Seeds : old[s] \in Nat
    BY <1>7
  <2>2. QED
    BY <1>11, <2>1
<1> HIDE DEF lines
<1>13. /\ \A k \in Modes, s \in Seeds : Kept(k, s) => Kept(k, s)'
       /\ \A s \in Seeds : lines[s] > 0 => Kept(0, s)'
  BY <1>2, <1>5, <1>10, KeptMoved DEF lines
<1>14. AtMode'
  BY <1>2, <1>3 DEF KInv, AtMode
<1>15. FreshLogs'
  <2>1. \A f \in tmpRes' : f \in tmpRes \/ (f.mode = 0 /\ f.unit = u)
    BY <1>5 DEF MoveLog, Log
  <2>2. \A f \in tmpRes' : f.unit \in Units /\ child'[f.unit].pc \in Past /\ f.mode < child'[f.unit].mode
    BY <1>2, <1>3, <1>9, <2>1 DEF Past
  <2>3. QED
    BY <1>2, <1>8, <2>2 DEF FreshLogs
<1>16. ASSUME NEW s \in Seeds PROVE SeedKept(s)'
  <2>1. CASE s \in S
    <3>1. unitOf'[s] = u /\ loc'[s] \in {"armpass", "armfail"}
      BY <1>2, <1>4, <1>6, <2>1
    <3>2. Kept(0, s)'
      BY <1>12, <1>13, <2>1
    <3>3. \A m \in Modes : ~(0 < m /\ m < child'[u].mode)
      BY <1>3, <1>8
    <3>4. QED
      BY <3>1, <3>2, <3>3 DEF SeedKept
  <2>2. CASE s \notin S
    <3>1. loc'[s] = loc[s] /\ unitOf'[s] = unitOf[s]
      BY <1>2, <1>4, <2>2
    <3>2. (loc[s] = "PASS" => \A m \in Modes : Kept(m, s)) /\ (loc[s] = "FAIL" => Kept(0, s))
      BY DEF KInv, KeptInv, SeedKept
    <3>3. unitOf[s] \in Units => child'[unitOf[s]].mode = child[unitOf[s]].mode
      BY <1>2, <1>3
    <3>4. loc[s] = "armpass" /\ unitOf[s] \in Units =>
            \A m \in Modes : 0 < m /\ m < child[unitOf[s]].mode => Kept(m, s)
      BY DEF KInv, KeptInv, SeedKept
    <3>5. ASSUME loc[s] \in {"armpass", "armfail"}
          PROVE  Kept(0, s)' \/ (LeftLines(0, unitOf[s])[s] > 0 /\ ~Tested(s))'
      <4>1. Kept(0, s) \/ (LeftLines(0, unitOf[s])[s] > 0 /\ ~Tested(s))
        BY <3>5 DEF KInv, KeptInv, SeedKept
      <4>2. CASE Kept(0, s)
        BY <1>8, <1>13, <4>2
      <4>3. CASE unitOf[s] = u /\ LeftLines(0, unitOf[s])[s] > 0
        BY <1>12, <1>13, <4>3 DEF old
      <4>4. CASE unitOf[s] # u /\ LeftLines(0, unitOf[s])[s] > 0 /\ ~Tested(s)
        <5>1. LeftFile(0, unitOf[s])' = LeftFile(0, unitOf[s])
          BY <1>2, <1>5, <4>4 DEF LeftFile
        <5>2. LeftLines(0, unitOf[s])' = LeftLines(0, unitOf[s])
          BY <1>2, <5>1, LeftRest
        <5>3. ~Tested(s)'
          BY <1>2, <1>3, <4>4 DEF Tested
        <5>4. QED
          BY <4>4, <5>2, <5>3
      <4>5. QED
        BY <4>1, <4>2, <4>3, <4>4
    <3>6. QED
      BY <1>2, <1>8, <1>13, <3>1, <3>2, <3>3, <3>4, <3>5 DEF SeedKept
  <2>3. QED
    BY <2>1, <2>2
<1>17. KeptInv'
  BY <1>16 DEF KeptInv
<1>18. QED
  BY <1>14, <1>15, <1>17 DEF KInv

\* The process of a unit runs its seeds in the next translator mode.
LEMMA UbtKept ==
  ASSUME RInv, TypeOK', KInv, NEW u \in Units, RunOnUbtAgain(u)
  PROVE  KInv'
<1> USE DEF RInv, TypeInv
<1>0. PICK m : m = child[u].mode
  OBVIOUS
<1> DEFINE S == InUnit(u, "armpass")
           old == LeftLines(m, u)
           lines == PlusLines(old, S)
<1>1. RunOnUbt(u, old) /\ left' = left \ LeftFile(m, u)
  BY <1>0 DEF RunOnUbtAgain
<1>2. child[u].pc = "ubt" /\ Units' = Units /\ UNCHANGED <<UNIT_NUM, pc, loc, unitOf, merged, resFiles>>
  BY <1>1 DEF RunOnUbt, unitVars, Units
<1>3. m \in Nat \ {0} /\ m <= LastMode /\ m \in Modes
  BY <1>0, <1>2 DEF TypeOK, ModesLeft, Child, Modes
<1>4. /\ child \in [Units -> Child] /\ child'[u].mode = m + 1
      /\ child'[u].pc = IF m = LastMode THEN "collect" ELSE "ubt"
      /\ \A v \in Units : v # u => child'[v] = child[v]
  BY <1>0, <1>1, <1>2 DEF RunOnUbt, Child, TypeOK
<1>5. tmpRes' = MoveLog(m, u, lines)
  BY <1>0, <1>1 DEF RunOnUbt
<1>6. S \subseteq Seeds /\ \A s \in Seeds : s \in S <=> loc[s] = "armpass" /\ unitOf[s] = u
  BY DEF InUnit
<1>7. old \in [Seeds -> Nat]
  BY LeftLinesType
<1>8. UNIT_NUM > 0 /\ 0 \in Modes /\ Modes \subseteq Nat
  BY DEF Units, TypeOK, Modes
<1>9. \A f \in tmpRes : f.unit \in Units /\ child[f.unit].pc \in Past /\ f.mode < child[f.unit].mode
  BY <1>8 DEF KInv, FreshLogs
<1>10. \A f \in tmpRes : ~(f.mode = m /\ f.unit = u)
  BY <1>0, <1>3, <1>9
<1>11. \A s \in S : lines[s] > 0
  <2>1. \A s \in S : lines[s] = old[s] + 1 /\ old[s] \in Nat
    BY <1>6, <1>7 DEF PlusLines
  <2>2. QED
    BY <2>1
<1> HIDE DEF S, old, lines
<1>12. /\ \A k \in Modes, s \in Seeds : Kept(k, s) => Kept(k, s)'
       /\ \A s \in Seeds : lines[s] > 0 => Kept(m, s)'
  BY <1>2, <1>5, <1>10, KeptMoved
<1>13. AtMode'
  BY <1>2, <1>3, <1>4 DEF KInv, AtMode
<1>14. FreshLogs'
  <2>1. \A f \in tmpRes' : f \in tmpRes \/ (f.mode = m /\ f.unit = u)
    BY <1>5 DEF MoveLog, Log
  <2>2. ASSUME NEW f \in tmpRes'
        PROVE  f.unit \in Units /\ child'[f.unit].pc \in Past /\ f.mode < child'[f.unit].mode
    <3>1. CASE f \in tmpRes
      <4>1. f.unit \in Units /\ child[f.unit].pc \in Past /\ f.mode < child[f.unit].mode
        BY <1>9, <3>1
      <4>2. CASE f.unit = u
        <5>1. f.mode \in Nat /\ f.mode < m
          BY <1>0, <1>8, <3>1, <4>1, <4>2 DEF TypeOK, LogFile
        <5>2. QED
          BY <1>3, <1>4, <4>2, <5>1 DEF Past
      <4>3. CASE f.unit # u
        BY <1>4, <4>1, <4>3
      <4>4. QED
        BY <4>2, <4>3
    <3>2. CASE f.mode = m /\ f.unit = u
      BY <1>3, <1>4, <3>2 DEF Past
    <3>3. QED
      BY <2>1, <3>1, <3>2
  <2>3. QED
    BY <1>2, <1>8, <2>2 DEF FreshLogs
<1>15. ASSUME NEW s \in Seeds PROVE SeedKept(s)'
  <2>1. SeedKept(s) /\ loc'[s] = loc[s] /\ unitOf'[s] = unitOf[s]
    BY <1>2 DEF KInv, KeptInv
  <2>2. ASSUME loc[s] \in {"armpass", "armfail"}
        PROVE  Kept(0, s)' \/ (LeftLines(0, unitOf[s])[s] > 0 /\ ~Tested(s))'
    <3>1. Kept(0, s) \/ (LeftLines(0, unitOf[s])[s] > 0 /\ ~Tested(s))
      BY <2>1, <2>2 DEF SeedKept
    <3>2. CASE Kept(0, s)
      BY <1>8, <1>12, <3>2
    <3>3. CASE LeftLines(0, unitOf[s])[s] > 0 /\ ~Tested(s)
      <4>1. unitOf[s] # u
        BY <1>2, <3>3 DEF Tested, Past
      <4>2. LeftFile(0, unitOf[s])' = LeftFile(0, unitOf[s])
        BY <1>1, <1>2, <4>1 DEF LeftFile
      <4>3. LeftLines(0, unitOf[s])' = LeftLines(0, unitOf[s])
        BY <1>2, <4>2, LeftRest
      <4>4. ~Tested(s)'
        BY <1>2, <1>4, <3>3, <4>1 DEF Tested
      <4>5. QED
        BY <3>3, <4>3, <4>4
    <3>4. QED
      BY <3>1, <3>2, <3>3
  <2>3. ASSUME loc[s] = "armpass", unitOf[s] \in Units, NEW k \in Modes,
               0 < k, k < child'[unitOf[s]].mode
        PROVE  Kept(k, s)'
    <3>1. k \in Nat
      BY <1>8
    <3>2. CASE unitOf[s] # u
      <4>1. Kept(k, s)
        BY <1>4, <2>1, <2>3, <3>2 DEF SeedKept
      <4>2. QED
        BY <1>12, <4>1
    <3>3. CASE unitOf[s] = u /\ k < m
      <4>1. Kept(k, s)
        BY <1>0, <2>1, <2>3, <3>3 DEF SeedKept
      <4>2. QED
        BY <1>12, <4>1
    <3>4. CASE unitOf[s] = u /\ k = m
      BY <1>6, <1>11, <1>12, <2>3, <3>4
    <3>5. QED
      BY <1>3, <1>4, <2>3, <3>1, <3>2, <3>3, <3>4
  <2>4. QED
    BY <1>2, <1>8, <1>12, <2>1, <2>2, <2>3 DEF SeedKept
<1>16. KeptInv'
  BY <1>15 DEF KeptInv
<1>17. QED
  BY <1>13, <1>14, <1>16 DEF KInv

\* The process of a unit stores its seeds; their lines are not in the unit
\* any more.
LEMMA CollectKept ==
  ASSUME RInv, TypeOK', KInv, NEW u \in Units, CollectAgain(u)
  PROVE  KInv'
<1> USE DEF RInv, TypeInv
<1>1. /\ child[u].pc = "collect" /\ child[u].mode = LastMode + 1 /\ Units' = Units
      /\ UNCHANGED <<UNIT_NUM, pc, unitOf, merged, resFiles, tmpRes>>
      /\ left' = {f \in left : f.unit # u}
  BY DEF CollectAgain, Collect, unitVars, logVars, Units, KInv, AtMode
<1>2. /\ child \in [Units -> Child] /\ child'[u].mode = child[u].mode /\ child'[u].pc = "exit"
      /\ \A v \in Units : v # u => child'[v] = child[v]
  BY DEF CollectAgain, Collect, Child, TypeOK
<1>3. \A s \in Seeds :
        loc'[s] = IF s \in InUnit(u, "armfail") THEN "FAIL"
                  ELSE IF s \in InUnit(u, "armpass") THEN "PASS"
                  ELSE IF s \in InUnit(u, "unit") THEN "lost"
                  ELSE loc[s]
  BY DEF CollectAgain, Collect
<1>4. \A k, s : Kept(k, s)' <=> Kept(k, s)
  BY <1>1 DEF Kept, HasLine
<1>5. AtMode' /\ FreshLogs'
  BY <1>1, <1>2 DEF KInv, AtMode, FreshLogs, Past
<1>6. 0 \in Modes /\ \A k \in Modes : k \in Nat /\ k < LastMode + 1
  BY DEF Modes
<1>7. ASSUME NEW s \in Seeds PROVE SeedKept(s)'
  <2>1. SeedKept(s) /\ unitOf'[s] = unitOf[s]
    BY <1>1 DEF KInv, KeptInv
  <2>2. CASE unitOf[s] = u
    <3>1. Tested(s)
      BY <1>1, <2>2 DEF Tested, Past
    <3>2. loc[s] \in {"armpass", "armfail"} => Kept(0, s)
      BY <2>1, <3>1 DEF SeedKept
    <3>3. loc[s] = "armpass" => \A k \in Modes : Kept(k, s)
      <4>1. ASSUME loc[s] = "armpass", NEW k \in Modes, k # 0 PROVE Kept(k, s)
        <5>1. 0 < k /\ k < child[unitOf[s]].mode /\ unitOf[s] \in Units
          BY <1>1, <1>6, <2>2, <4>1
        <5>2. QED
          BY <2>1, <4>1, <5>1 DEF SeedKept
      <4>2. QED
        BY <3>2, <4>1
    <3>4. \/ loc'[s] = "FAIL" /\ loc[s] \in {"armfail", "FAIL"}
          \/ loc'[s] = "PASS" /\ loc[s] \in {"armpass", "PASS"}
          \/ loc'[s] \notin {"FAIL", "PASS", "armpass", "armfail"}
      <4>1. \A x : s \in InUnit(u, x) <=> loc[s] = x
        BY <2>2 DEF InUnit
      <4>2. loc'[s] = IF loc[s] = "armfail" THEN "FAIL"
                      ELSE IF loc[s] = "armpass" THEN "PASS"
                      ELSE IF loc[s] = "unit" THEN "lost" ELSE loc[s]
        BY <1>3, <4>1
      <4>3. QED
        BY <4>2
    <3>5. QED
      BY <1>4, <2>1, <3>2, <3>3, <3>4 DEF SeedKept
  <2>3. CASE unitOf[s] # u
    <3>1. loc'[s] = loc[s]
      BY <1>3, <2>3 DEF InUnit
    <3>2. Tested(s)' <=> Tested(s)
      BY <1>1, <1>2, <2>3 DEF Tested
    <3>3. LeftFile(0, unitOf[s])' = LeftFile(0, unitOf[s])
      BY <1>1, <2>3 DEF LeftFile
    <3>4. LeftLines(0, unitOf[s])' = LeftLines(0, unitOf[s])
      BY <1>1, <3>3, LeftRest
    <3>5. unitOf[s] \in Units => child'[unitOf[s]] = child[unitOf[s]]
      BY <1>2, <2>3
    <3>6. Kept(0, s) \/ (LeftLines(0, unitOf[s])[s] > 0 /\ ~Tested(s)) =>
            Kept(0, s)' \/ (LeftLines(0, unitOf[s])[s] > 0 /\ ~Tested(s))'
      BY <1>4, <3>2, <3>4
    <3>7. QED
      BY <1>1, <1>4, <2>1, <3>1, <3>5, <3>6 DEF SeedKept
  <2>4. QED
    BY <2>2, <2>3
<1>8. QED
  BY <1>5, <1>7 DEF KInv, KeptInv

\* The steps of the tasks and of the main loop, and those of a process that
\* only waits.
LEMMA ParentKept ==
  ASSUME RInv, TypeOK', KInv, UNCHANGED left,
         \/ Task \/ Parent \/ UNCHANGED vars
         \/ \E u \in Units : ReadAdb(u) \/ ReadAdbAgain(u)
  PROVE  KInv'
<1> USE DEF RInv, TypeInv
<1>1. CASE /\ UNCHANGED <<UNIT_NUM, pc, tmpRes, resFiles, merged>>
           /\ \E u \in Units : ReadAdb(u) \/ ReadAdbAgain(u)
  <2>1. PICK u \in Units : ReadAdb(u) \/ ReadAdbAgain(u)
    BY <1>1
  <2>2. UNCHANGED <<loc, unitOf>> /\ Units' = Units /\ child \in [Units -> Child]
    BY <1>1, <2>1 DEF ReadAdb, ReadAdbAgain, Units, TypeOK
  <2>3. /\ child[u].pc \in {"adb1", "adb2"} /\ child'[u].pc \in {"adb1", "adb2", "arm"}
        /\ child'[u].mode = child[u].mode
        /\ \A v \in Units : v # u => child'[v] = child[v]
    BY <2>1, <2>2 DEF ReadAdb, ReadAdbAgain, Child
  <2>4. \A v \in Units : child'[v].mode = child[v].mode /\ (child'[v].pc \in Past <=> child[v].pc \in Past)
    BY <2>3 DEF Past
  <2>5. \A k \in Modes, s \in Seeds : Kept(k, s) => Kept(k, s)'
    BY <1>1 DEF Kept, HasLine
  <2>6. AtMode' /\ FreshLogs'
    BY <1>1, <2>2, <2>3, <2>4 DEF KInv, AtMode, FreshLogs
  <2>7. KeptInv'
    BY <2>2, <2>4, <2>5, KeptQuiet DEF KInv
  <2>8. QED
    BY <2>6, <2>7 DEF KInv
<1>2. CASE /\ UNCHANGED <<UNIT_NUM, child>> \/ Fork
           /\ UNCHANGED <<tmpRes, merged, resFiles>> \/ GlobTmpRes \/ (\E f \in resFiles : MergeFile(f))
           /\ \A s \in Seeds : loc'[s] \in Judged => loc'[s] = loc[s] /\ unitOf'[s] = unitOf[s]
           /\ FreshLogs'
  <2>1. /\ \A u \in Units : u \in Units' /\ child'[u] = child[u]
        /\ \A u \in Units' : u \notin Units => child'[u].pc = "adb1" /\ child'[u].mode = 1
    <3>1. CASE UNCHANGED <<UNIT_NUM, child>>
      BY <3>1 DEF Units
    <3>2. CASE Fork
      <4>1. UNIT_NUM \in Nat
        BY DEF TypeOK
      <4>2. UNIT_NUM' = UNIT_NUM + 1
            /\ child' = [u \in 0 .. UNIT_NUM |->
                 IF u = UNIT_NUM THEN [pc |-> "adb1", adb |-> 0, mode |-> 1]
                                 ELSE child[u]]
        BY <3>2 DEF Fork
      <4>3. Units' = 0 .. UNIT_NUM /\ \A u \in 0 .. UNIT_NUM : u \in Units <=> u # UNIT_NUM
        BY <4>1, <4>2 DEF Units
      <4>4. \A u \in Units : u \in 0 .. UNIT_NUM /\ u # UNIT_NUM
        BY <4>1 DEF Units
      <4>5. QED
        BY <4>2, <4>3, <4>4
    <3>3. QED
      BY <1>2, <3>1, <3>2
  <2>2. AtMode'
    BY <2>1 DEF KInv, AtMode
  <2>3. \A k \in Modes, s \in Seeds : Kept(k, s) => Kept(k, s)'
    <3>1. CASE UNCHANGED <<tmpRes, merged>>
      BY <3>1 DEF Kept, HasLine
    <3>2. ASSUME NEW f \in resFiles, MergeFile(f), NEW k \in Modes, NEW s \in Seeds, Kept(k, s)
          PROVE  Kept(k, s)'
      <4>1. f.mode \in Modes /\ f.lines[s] \in Nat /\ merged[k][s] \in Nat
            /\ merged \in [Modes -> [Seeds -> Nat]]
        BY DEF TypeOK, LogFile
      <4>2. tmpRes' = tmpRes \ {f}
            /\ merged' = [merged EXCEPT ![f.mode] = [t \in Seeds |-> @[t] + f.lines[t]]]
        BY <3>2 DEF MergeFile
      <4>3. merged'[k][s] = IF k = f.mode THEN merged[k][s] + f.lines[s] ELSE merged[k][s]
        BY <4>1, <4>2
      <4>4. CASE merged[k][s] > 0
        <5>1. merged'[k][s] > 0
          BY <4>1, <4>3, <4>4
        <5>2. QED
          BY <5>1 DEF Kept
      <4>5. CASE f.mode = k /\ f.lines[s] > 0
        <5>1. merged'[k][s] > 0
          BY <4>1, <4>3, <4>5
        <5>2. QED
          BY <5>1 DEF Kept
      <4>6. CASE \E g \in tmpRes : g # f /\ g.mode = k /\ g.lines[s] > 0
        <5>1. \E g \in tmpRes' : g.mode = k /\ g.lines[s] > 0
          BY <4>2, <4>6
        <5>2. QED
          BY <5>1 DEF Kept, HasLine
      <4>7. QED
        BY <3>2, <4>4, <4>5, <4>6 DEF Kept, HasLine
    <3>3. QED
      BY <1>2, <3>1, <3>2 DEF GlobTmpRes
  <2>4. KeptInv'
    BY <1>2, <2>1, <2>3, KeptQuiet DEF KInv
  <2>5. QED
    BY <1>2, <2>2, <2>4 DEF KInv
<1>3. CASE GlobTmpRes
  <2>1. UNCHANGED <<loc, unitOf, UNIT_NUM, child, tmpRes, merged>> /\ resFiles' = tmpRes /\ pc' = "merge"
    BY <1>3 DEF GlobTmpRes, unitVars
  <2>2. FreshLogs'
    BY <2>1 DEF KInv, FreshLogs, Units
  <2>3. QED
    BY <1>2, <1>3, <2>1, <2>2
<1>4. ASSUME NEW f \in resFiles, MergeFile(f) PROVE KInv'
  <2>1. /\ UNCHANGED <<loc, unitOf, UNIT_NUM, child, pc>>
        /\ tmpRes' = tmpRes \ {f} /\ resFiles' = resFiles \ {f}
    BY <1>4 DEF MergeFile, unitVars
  <2>2. FreshLogs'
    BY <2>1 DEF KInv, FreshLogs, Units
  <2>3. QED
    BY <1>2, <1>4, <2>1, <2>2
<1>5. CASE GlobSeedDir
  <2>1. /\ UNCHANGED <<loc, unitOf, UNIT_NUM, child, tmpRes, merged, resFiles>>
        /\ pc = "merge" /\ resFiles = {} /\ pc' = "scan"
    BY <1>5 DEF GlobSeedDir, unitVars, logVars
  <2>2. UNIT_NUM = 0 \/ UNIT_NUM > 0
    BY DEF TypeOK
  <2>3. FreshLogs'
    BY <2>1, <2>2 DEF KInv, FreshLogs, Units
  <2>4. QED
    BY <1>2, <2>1, <2>3
<1>6. CASE Fork
  <2>1. /\ UNCHANGED <<loc, unitOf, tmpRes, merged, resFiles>>
        /\ pc = "submit" /\ pc' = "top"
        /\ UNIT_NUM' = UNIT_NUM + 1 /\ UNIT_NUM \in Nat
        /\ child' = [u \in 0 .. UNIT_NUM |->
             IF u = UNIT_NUM THEN [pc |-> "adb1", adb |-> 0, mode |-> 1] ELSE child[u]]
    BY <1>6 DEF Fork, unitVars, logVars, TypeOK
  <2>2. \A u \in Units : u \in Units' /\ u \in 0 .. UNIT_NUM /\ u # UNIT_NUM
    BY <2>1 DEF Units
  <2>3. \A u \in Units : u \in Units' /\ child'[u] = child[u]
    BY <2>1, <2>2
  <2>4. FreshLogs'
    BY <2>1, <2>3 DEF KInv, FreshLogs
  <2>5. QED
    BY <1>2, <1>6, <2>1, <2>4
<1>7. CASE /\ UNCHANGED <<UNIT_NUM, child, tmpRes, merged, resFiles>>
           /\ \/ pc' = pc
              \/ pc = "scan" /\ pc' = "submit"
              \/ pc = "submit" /\ pc' = "top"
           /\ \A s \in Seeds : loc'[s] \in Judged => loc'[s] = loc[s] /\ unitOf'[s] = unitOf[s]
  <2>1. FreshLogs'
    BY <1>7 DEF KInv, FreshLogs, Units
  <2>2. QED
    BY <1>2, <1>7, <2>1
<1>8. ASSUME NEW s \in Seeds, FailSeed(s) PROVE KInv'
  BY <1>7, <1>8 DEF FailSeed, unitVars, logVars, TypeOK, Judged
<1>9. ASSUME NEW d \in fdirs, RemoveDir(d) PROVE KInv'
  BY <1>7, <1>9 DEF RemoveDir, unitVars, logVars, TypeOK, Judged
<1>10. ASSUME NEW d \in fdirs, NEW s \in Seeds, TakeSeed(d, s) PROVE KInv'
  <2>1. loc' = [loc EXCEPT ![s] = "unit"] /\ unitOf' = [unitOf EXCEPT ![s] = UNIT_NUM]
        /\ UNCHANGED <<UNIT_NUM, child, pc, tmpRes, merged, resFiles>>
    BY <1>10 DEF TakeSeed, logVars
  <2>2. \A t \in Seeds : loc'[t] \in Judged => loc'[t] = loc[t] /\ unitOf'[t] = unitOf[t]
    BY <2>1 DEF TypeOK, Judged
  <2>3. QED
    BY <1>7, <2>1, <2>2
<1>11. CASE /\ UNCHANGED <<loc, unitOf, UNIT_NUM, child, tmpRes, merged, resFiles>>
            /\ \/ pc' = pc
               \/ pc = "scan" /\ pc' = "submit"
               \/ pc = "submit" /\ pc' = "top"
  BY <1>7, <1>11
<1>12. CASE UNCHANGED vars
  BY <1>11, <1>12 DEF vars, unitVars, logVars
<1>13. CASE Task
  BY <1>8, <1>11, <1>13 DEF Task, MakeFailDir, WriteDone, unitVars, logVars
<1>14. CASE Scan
  <2>1. CASE EndScan
    BY <1>11, <2>1 DEF EndScan, unitVars, logVars
  <2>2. ASSUME NEW d \in fdirs, SkipDir(d) PROVE KInv'
    BY <1>11, <2>2 DEF SkipDir, unitVars, logVars
  <2>3. ASSUME NEW d \in fdirs, NEW s \in Seeds, CutScan(d, s) PROVE KInv'
    BY <1>11, <2>3 DEF CutScan, Scanning, unitVars, logVars
  <2>4. QED
    BY <1>5, <1>9, <1>10, <1>14, <2>1, <2>2, <2>3 DEF Scan
<1>15. CASE Submit
  <2>1. CASE Sleep \/ SubmitNothing \/ ForkFails
    BY <1>11, <2>1 DEF Sleep, SubmitNothing, ForkFails, unitVars, logVars
  <2>2. QED
    BY <1>6, <1>15, <2>1 DEF Submit
<1>16. CASE \E u \in Units : ReadAdb(u) \/ ReadAdbAgain(u)
  BY <1>1, <1>16 DEF ReadAdb, ReadAdbAgain, unitVars, logVars
<1>17. QED
  BY <1>3, <1>4, <1>12, <1>13, <1>14, <1>15, <1>16 DEF Parent, Merge

\* The logs of F of a mode and a unit.
NamedLog(F, m, u) == {f \in F : f.mode = m /\ f.unit = u}

\* The process of unit u is in its run of mode m.
AtArm(m, u) == u \in Units /\ child[u].pc = "arm" /\ m = 0
AtUbt(m, u) == u \in Units /\ child[u].pc = "ubt" /\ m = child[u].mode

\* The log of a name that a stop leaves in a unit: an interrupted run has
\* appended the lines of L, or of U.
LEMMA LeftLogsNamed ==
  ASSUME TypeInv, LeftType, NEW L \in SUBSET Seeds, NEW U \in SUBSET Seeds, NEW m, NEW u
  PROVE  NamedLog(LeftLogs(L, U), m, u)
           = IF AtArm(m, u) THEN LeftAfter(m, u, L)
             ELSE IF AtUbt(m, u) THEN LeftAfter(m, u, U) ELSE LeftFile(m, u)
<1> USE DEF TypeInv, TypeOK
<1> DEFINE arm == {v \in Units : child[v].pc = "arm"}
           ubt == {v \in Units : child[v].pc = "ubt"}
           armLogs == UNION {LeftAfter(0, v, L) : v \in arm}
           ubtLogs == UNION {LeftAfter(child[v].mode, v, U) : v \in ubt}
           old == {g \in left : ~(g.mode = 0 /\ g.unit \in arm) /\ ~(g.unit \in ubt /\ g.mode = child[g.unit].mode)}
<1>1. LeftLogs(L, U) = old \cup armLogs \cup ubtLogs
  BY DEF LeftLogs
<1>2. \A g : g \in armLogs <=> \E v \in arm : g \in LeftAfter(0, v, L)
  BY Zenon
<1>3. \A g : g \in ubtLogs <=> \E v \in ubt : g \in LeftAfter(child[v].mode, v, U)
  BY Zenon
<1>4. \A k, v, S : \A g \in LeftAfter(k, v, S) : g.mode = k /\ g.unit = v
  BY DEF LeftAfter, Log
<1>5. \A g : g \in old <=> /\ g \in left /\ ~(g.mode = 0 /\ g.unit \in arm)
                           /\ ~(g.unit \in ubt /\ g.mode = child[g.unit].mode)
  OBVIOUS
<1>6. arm \cap ubt = {}
  OBVIOUS
<1>7. /\ AtArm(m, u) <=> u \in arm /\ m = 0
      /\ AtUbt(m, u) <=> u \in ubt /\ m = child[u].mode
  BY DEF AtArm, AtUbt
<1>8. \A g : g.mode = m /\ g.unit = u =>
        /\ g \in armLogs <=> m = 0 /\ u \in arm /\ g \in LeftAfter(m, u, L)
        /\ g \in ubtLogs <=> u \in ubt /\ m = child[u].mode /\ g \in LeftAfter(m, u, U)
        /\ g \in old <=> g \in left /\ ~(m = 0 /\ u \in arm) /\ ~(u \in ubt /\ m = child[u].mode)
  <2> HIDE DEF arm, ubt, armLogs, ubtLogs, old
  <2>1. ASSUME NEW g, g.mode = m, g.unit = u
        PROVE  g \in armLogs <=> m = 0 /\ u \in arm /\ g \in LeftAfter(m, u, L)
    BY <1>2, <1>4, <2>1
  <2>2. ASSUME NEW g, g.mode = m, g.unit = u
        PROVE  g \in ubtLogs <=> u \in ubt /\ m = child[u].mode /\ g \in LeftAfter(m, u, U)
    BY <1>3, <1>4, <2>2
  <2>3. ASSUME NEW g, g.mode = m, g.unit = u
        PROVE  g \in old <=> g \in left /\ ~(m = 0 /\ u \in arm) /\ ~(u \in ubt /\ m = child[u].mode)
    BY <1>5, <2>3
  <2>4. QED
    BY <2>1, <2>2, <2>3
<1> HIDE DEF arm, ubt, armLogs, ubtLogs, old
<1>9. CASE u \in arm /\ m = 0
  BY <1>1, <1>4, <1>6, <1>7, <1>8, <1>9 DEF NamedLog
<1>10. CASE u \in ubt /\ m = child[u].mode
  BY <1>1, <1>4, <1>6, <1>7, <1>8, <1>10 DEF NamedLog
<1>11. CASE ~(u \in arm /\ m = 0) /\ ~(u \in ubt /\ m = child[u].mode)
  BY <1>1, <1>7, <1>8, <1>11 DEF LeftFile, NamedLog
<1>12. QED
  BY <1>9, <1>10, <1>11

\* So a stop loses no line of the device's log of a unit.
LEMMA LeftLogsGrow ==
  ASSUME TypeInv, LeftType, NEW L \in SUBSET Seeds, NEW U \in SUBSET Seeds,
         left' = LeftLogs(L, U), UNCHANGED unitOf, NEW u, NEW s \in Seeds
  PROVE  /\ LeftLines(0, u)[s] > 0 => LeftLines(0, u)'[s] > 0
         /\ u \in Units /\ child[u].pc = "arm" /\ s \in L /\ unitOf[s] = u =>
              LeftLines(0, u)'[s] > 0
<1> DEFINE F == LeftFile(0, u)
           lines == PlusLines(LeftLines(0, u), {t \in L : unitOf[t] = u})
<1>1. LeftFile(0, u)' = NamedLog(left', 0, u)
  BY DEF LeftFile, NamedLog
<1>2. LeftFile(0, u)' = IF u \in Units /\ child[u].pc = "arm" THEN LeftAfter(0, u, L) ELSE LeftFile(0, u)
  <2>1. NamedLog(LeftLogs(L, U), 0, u)
          = IF AtArm(0, u) THEN LeftAfter(0, u, L)
            ELSE IF AtUbt(0, u) THEN LeftAfter(0, u, U) ELSE LeftFile(0, u)
    BY LeftLogsNamed
  <2>2. ~AtUbt(0, u)
    BY DEF AtUbt, TypeInv, TypeOK, Child
  <2>3. AtArm(0, u) <=> u \in Units /\ child[u].pc = "arm"
    BY DEF AtArm
  <2>4. QED
    BY <1>1, <2>1, <2>2, <2>3
<1>3. CASE ~(u \in Units /\ child[u].pc = "arm")
  <2>1. LeftLines(0, u)' = LeftLines(0, u)
    BY <1>2, <1>3, LeftRest
  <2>2. QED
    BY <1>3, <2>1
<1>4. CASE u \in Units /\ child[u].pc = "arm"
  <2>1. LeftFile(0, u)' = Log(0, u, lines)
    BY <1>2, <1>4 DEF LeftAfter
  <2>2. LeftLines(0, u)' = IF LeftFile(0, u)' = {} THEN NoLines
                           ELSE (CHOOSE f \in LeftFile(0, u)' : TRUE).lines
    BY DEF LeftLines, NoLines
  <2> HIDE DEF lines
  <2>3. LeftLines(0, u)' = lines
    <3>1. CASE lines = NoLines
      BY <2>1, <2>2, <3>1 DEF Log
    <3>2. CASE lines # NoLines
      <4> DEFINE new == [mode |-> 0, unit |-> u, lines |-> lines]
      <4>1. LeftFile(0, u)' = {new} /\ new.lines = lines
        BY <2>1, <3>2 DEF Log
      <4> HIDE DEF new
      <4>2. (CHOOSE f \in {new} : TRUE) = new
        <5>1. (CHOOSE f \in {new} : TRUE) \in {new}
          OBVIOUS
        <5>2. QED
          BY <5>1
      <4>3. QED
        BY <2>2, <4>1, <4>2
    <3>3. QED
      BY <3>1, <3>2
  <2>4. LeftLines(0, u)[s] \in Nat
    BY LeftLinesType
  <2>5. lines[s] = LeftLines(0, u)[s] + (IF s \in L /\ unitOf[s] = u THEN 1 ELSE 0)
    BY DEF lines, PlusLines
  <2>6. QED
    BY <2>3, <2>4, <2>5
<1>5. QED
  BY <1>3, <1>4

\* A stop loses no line of the logs being merged.
LEMMA RestartMerges ==
  ASSUME TypeInv, Restart, NEW m \in Modes, NEW s \in Seeds, Kept(m, s)
  PROVE  Kept(m, s)'
<1> USE DEF TypeInv, TypeOK
<1>1. UNCHANGED tmpRes
  BY DEF Restart
<1>2. merged[m][s] \in Nat
  OBVIOUS
<1>3. merged'[m][s] >= merged[m][s]
  <2>1. CASE UNCHANGED merged
    BY <1>2, <2>1
  <2>2. ASSUME NEW f \in resFiles, NEW A \in SUBSET Seeds, MergeStopped(f, A)
        PROVE  merged'[m][s] >= merged[m][s]
    <3>1. f.mode \in Modes /\ f.lines[s] \in Nat
      BY DEF LogFile
    <3>2. merged'[m][s] = IF m = f.mode THEN merged[m][s] + (IF s \in A THEN f.lines[s] ELSE 0)
                          ELSE merged[m][s]
      BY <2>2, <3>1 DEF MergeStopped
    <3>3. QED
      BY <1>2, <3>1, <3>2
  <2>3. QED
    BY <2>1, <2>2 DEF Restart
<1>4. merged'[m][s] \in Nat
  BY RestartMerged
<1>5. merged[m][s] > 0 => merged'[m][s] > 0
  BY <1>2, <1>3, <1>4
<1>6. QED
  BY <1>1, <1>5 DEF Kept, HasLine

\* A seed that a stop finds judged has its lines in its unit at least, and
\* one that was being stored has all of them.
LEMMA RestartKept ==
  ASSUME RInv, KInv, Restart
  PROVE  KInv'
<1> USE DEF RInv
<1>1. /\ pc' = "top" /\ UNIT_NUM' = 0 /\ Units' = {}
      /\ UNCHANGED <<unitOf, tmpRes>>
  BY RestartEffect
<1>2. AtMode' /\ FreshLogs'
  BY <1>1 DEF AtMode, FreshLogs
<1>3. PICK L \in SUBSET At("arm", "unit"), U \in SUBSET At("ubt", "armpass") :
        \E J \in SUBSET L : \E P \in SUBSET J :
        \E C \in SUBSET (At("collect", "armfail") \cup At("collect", "armpass")) :
          /\ ArmStopped(L, J)
          /\ CollectStopped(C)
          /\ left' = LeftLogs(L, U)
          /\ Start([s \in Seeds |-> IF s \in P THEN "armpass"
                                    ELSE IF s \in J THEN "armfail"
                                    ELSE IF s \in C /\ loc[s] = "armpass" THEN "PASS"
                                    ELSE IF s \in C THEN "FAIL"
                                    ELSE loc[s]])
  BY Zenon DEF Restart
<1>4. PICK J \in SUBSET L : \E P \in SUBSET J :
        \E C \in SUBSET (At("collect", "armfail") \cup At("collect", "armpass")) :
          /\ ArmStopped(L, J)
          /\ CollectStopped(C)
          /\ left' = LeftLogs(L, U)
          /\ Start([s \in Seeds |-> IF s \in P THEN "armpass"
                                    ELSE IF s \in J THEN "armfail"
                                    ELSE IF s \in C /\ loc[s] = "armpass" THEN "PASS"
                                    ELSE IF s \in C THEN "FAIL"
                                    ELSE loc[s]])
  BY <1>3, Zenon
<1>5. PICK P \in SUBSET J, C \in SUBSET (At("collect", "armfail") \cup At("collect", "armpass")) :
          /\ ArmStopped(L, J)
          /\ CollectStopped(C)
          /\ left' = LeftLogs(L, U)
          /\ Start([s \in Seeds |-> IF s \in P THEN "armpass"
                                    ELSE IF s \in J THEN "armfail"
                                    ELSE IF s \in C /\ loc[s] = "armpass" THEN "PASS"
                                    ELSE IF s \in C THEN "FAIL"
                                    ELSE loc[s]])
  BY <1>4, Zenon
<1>6. \A s \in Seeds : loc'[s] = IF s \in P THEN "armpass"
                                 ELSE IF s \in J THEN "armfail"
                                 ELSE IF s \in C /\ loc[s] = "armpass" THEN "PASS"
                                 ELSE IF s \in C THEN "FAIL"
                                 ELSE loc[s]
  BY <1>5 DEF Start
<1>7. L \in SUBSET Seeds /\ U \in SUBSET Seeds
  BY DEF At
<1>8. \A s \in J : s \in L /\ unitOf[s] \in Units /\ child[unitOf[s]].pc = "arm"
  BY DEF At
<1>9. \A s \in C : /\ unitOf[s] \in Units /\ child[unitOf[s]].pc = "collect"
                   /\ loc[s] \in {"armpass", "armfail"}
  BY DEF At
<1>10. 0 \in Modes /\ \A m \in Modes : m \in Nat /\ m < LastMode + 1
  BY DEF Modes
<1>11. ASSUME NEW s \in Seeds PROVE SeedKept(s)'
  <2>1. SeedKept(s)
    BY DEF KInv, KeptInv
  <2>2. unitOf'[s] = unitOf[s] /\ ~Tested(s)' /\ unitOf'[s] \notin Units'
    BY <1>1 DEF Tested
  <2>3. \A m \in Modes : Kept(m, s) => Kept(m, s)'
    BY RestartMerges
  <2>4. CASE s \in J
    <3>1. LeftLines(0, unitOf[s])'[s] > 0
      BY <1>1, <1>5, <1>7, <1>8, <2>4, LeftLogsGrow
    <3>2. loc'[s] \in {"armpass", "armfail"}
      BY <1>6, <2>4
    <3>3. QED
      BY <2>2, <3>1, <3>2 DEF SeedKept
  <2>5. CASE s \in C /\ s \notin J
    <3>1. Tested(s) /\ child[unitOf[s]].mode = LastMode + 1
      BY <1>9, <2>5 DEF Tested, Past, KInv, AtMode
    <3>2. Kept(0, s)
      BY <1>9, <2>1, <2>5, <3>1 DEF SeedKept
    <3>3. ASSUME loc[s] = "armpass", NEW m \in Modes, m # 0 PROVE Kept(m, s)
      <4>1. 0 < m /\ m < child[unitOf[s]].mode
        BY <1>10, <3>1, <3>3
      <4>2. QED
        BY <1>9, <2>1, <2>5, <3>3, <4>1 DEF SeedKept
    <3>4. loc'[s] = IF loc[s] = "armpass" THEN "PASS" ELSE "FAIL"
      BY <1>6, <2>5
    <3>5. QED
      BY <1>10, <2>3, <3>2, <3>3, <3>4 DEF SeedKept
  <2>6. CASE s \notin C /\ s \notin J
    <3>1. loc'[s] = loc[s]
      BY <1>6, <2>6
    <3>2. LeftLines(0, unitOf[s])[s] > 0 => LeftLines(0, unitOf[s])'[s] > 0
      BY <1>1, <1>5, <1>7, LeftLogsGrow
    <3>3. QED
      BY <1>10, <2>1, <2>2, <2>3, <3>1, <3>2 DEF SeedKept
  <2>7. QED
    BY <2>4, <2>5, <2>6
<1>12. QED
  BY <1>2, <1>11 DEF KInv, KeptInv

\* KInv is an invariant of the verifier with restarts.
LEMMA KeptInvariant == RSpec => []KInv
<1>1. RInv /\ RInv' /\ KInv /\ [RNext]_allVars => KInv'
  <2> SUFFICES ASSUME RInv, RInv', KInv, [RNext]_allVars PROVE KInv'
    OBVIOUS
  <2>1. TypeOK'
    BY DEF RInv, TypeInv
  <2>2. CASE UNCHANGED allVars
    BY <2>1, <2>2, ParentKept DEF allVars
  <2>3. CASE (Task \/ Parent) /\ UNCHANGED <<left, stops>>
    BY <2>1, <2>3, ParentKept
  <2>4. ASSUME NEW u \in Units, ReadAdb(u) \/ ReadAdbAgain(u), UNCHANGED <<left, stops>> PROVE KInv'
    BY <2>1, <2>4, ParentKept
  <2>5. ASSUME NEW u \in Units, RunOnArmAgain(u) \/ RunOnUbtAgain(u) \/ CollectAgain(u) PROVE KInv'
    BY <2>1, <2>5, ArmKept, UbtKept, CollectKept
  <2>6. QED
    BY <2>2, <2>3, <2>4, <2>5, RestartKept DEF RNext
<1>2. QED
  BY <1>1, InitKept, RestartInvariant, PTL DEF RSpec

\* Stopping and starting the script, at any point and any number of times,
\* loses no result of a seed (local_verify.pl:66, 126-136, 208-233).
THEOREM RestartKeepsResults == RSpec => []ResultsKept
<1>1. RInv /\ KInv => ResultsKept
  <2> SUFFICES ASSUME RInv, KInv, NEW s \in Seeds, NEW m \in Modes
               PROVE  /\ loc[s] = "PASS" \/ (loc[s] = "FAIL" /\ m = 0) => Kept(m, s)
                      /\ loc[s] \in {"armpass", "armfail"} => Kept(0, s) \/ HasLine(left, 0, s)
    BY DEF ResultsKept, Kept
  <2>1. SeedKept(s)
    BY DEF KInv, KeptInv
  <2>2. ASSUME LeftLines(0, unitOf[s])[s] > 0 PROVE HasLine(left, 0, s)
    <3> DEFINE F == LeftFile(0, unitOf[s])
    <3>1. NoLines[s] = 0
      BY DEF NoLines
    <3>2. F # {} /\ LeftLines(0, unitOf[s]) = (CHOOSE f \in F : TRUE).lines
      BY <2>2, <3>1 DEF LeftLines
    <3>3. (CHOOSE f \in F : TRUE) \in F
      BY <3>2
    <3>4. QED
      BY <2>2, <3>2, <3>3 DEF LeftFile, HasLine
  <2>3. QED
    BY <2>1, <2>2 DEF SeedKept
<1>2. QED
  BY <1>1, KeptInvariant, RestartInvariant, PTL

-----------------------------------------------------------------------------
(***************************************************************************)
(* Repeated lines.  What a stop can repeat is a merge, of a log with the   *)
(* lines that earlier stops left in it, and a run of a unit.  The lines of *)
(* a seed in a mode are in one log of its unit and in one log of TMP_RES   *)
(* at most; after n stops the first holds at most n of them, the second at *)
(* most n + 1, and a seed that a translator has yet to run has one line    *)
(* less than the bound.                                                    *)
(***************************************************************************)
\* A log is named by its mode and its unit.
Named(F) == \A f, g \in F : f.mode = g.mode /\ f.unit = g.unit => f = g

\* The lines of a seed are in logs of the unit it was moved to.
Placed(F, unit) == \A f \in F, s \in Seeds : f.lines[s] > 0 => f.unit = unit[s]

\* A seed that is not in a unit yet has none.
Started(F) == \A f \in F, s \in Seeds : f.lines[s] > 0 => loc[s] \notin {"generated", "dir"}

FilesInv ==
  /\ Named(tmpRes) /\ Placed(tmpRes, unitOf) /\ Started(tmpRes)
  /\ Named(left) /\ Placed(left, unitOf) /\ Started(left)
  /\ resFiles \subseteq tmpRes

Unjudged(s) == loc[s] \in {"generated", "dir", "unit"}

\* The seed may be run in translator mode m before the next stop.
Pending(m, s) ==
  \/ Unjudged(s)
  \/ loc[s] = "armpass" /\ (unitOf[s] \in Units => child[unitOf[s]].mode <= m)

\* The lines of a seed in mode m, M in the result log, X in TMP_RES and Y in
\* its unit, are within the bound after n stops.
Within(n, m, M, X, Y) ==
  2 * (M + X + Y) <= 2 + n * (n + 1) + (IF m = 0 THEN 0 ELSE 2 * n)

SeedBound(m, s) ==
  LET M == merged[m][s]
      X == LinesIn(tmpRes, m, s)
      Y == LinesIn(left, m, s)
  IN  /\ Y <= stops
      /\ X <= stops + 1
      /\ m = 0 /\ Unjudged(s) => M = 0 /\ X = 0
      /\ Within(stops, m, M, X, Y)
      /\ m > 0 /\ Pending(m, s) => Within(stops, m, M + 1, X, Y)

BoundInv == \A m \in Modes, s \in Seeds : SeedBound(m, s)

QInv == stops \in Nat /\ FilesInv /\ BoundInv

\* The lines of a seed are those of the log that has some.
LEMMA LinesOfLog ==
  ASSUME NEW F, NEW m, NEW s, OneLog(F, m, s), NEW f \in F, f.mode = m, f.lines[s] > 0
  PROVE  LinesIn(F, m, s) = f.lines[s]
<1> DEFINE Q(g) == g.mode = m /\ g.lines[s] > 0
<1>1. HasLine(F, m, s)
  BY DEF HasLine
<1>2. LinesIn(F, m, s) = (CHOOSE g \in F : Q(g)).lines[s]
  BY <1>1, Zenon DEF LinesIn
<1>3. (CHOOSE g \in F : Q(g)) \in F /\ Q(CHOOSE g \in F : Q(g))
  <2>1. f \in F /\ Q(f)
    OBVIOUS
  <2> HIDE DEF Q
  <2>2. QED
    BY <2>1, Zenon
<1>4. PICK h : h = (CHOOSE g \in F : Q(g))
  OBVIOUS
<1>5. h \in F /\ h.mode = m /\ h.lines[s] > 0
  BY <1>3, <1>4
<1>6. h = f
  BY <1>5 DEF OneLog
<1>7. QED
  BY <1>2, <1>4, <1>6

\* A seed's lines of a mode are in one log, that of its unit.
LEMMA LogOfSeed ==
  ASSUME NEW F, NEW unit, Named(F), Placed(F, unit), NEW s \in Seeds, NEW m
  PROVE  OneLog(F, m, s)
<1>1. SUFFICES ASSUME NEW f \in F, NEW g \in F, f.mode = m, g.mode = m,
                      f.lines[s] > 0, g.lines[s] > 0
               PROVE  f = g
  BY DEF OneLog
<1>2. f.unit = unit[s] /\ g.unit = unit[s]
  BY <1>1 DEF Placed
<1>3. QED
  BY <1>1, <1>2 DEF Named

\* The log of the unit holds the lines of the seed.
LEMMA LinesAt ==
  ASSUME NEW F \in SUBSET LogFile, NEW unit, Named(F), Placed(F, unit), NEW s \in Seeds,
         NEW f \in F, f.unit = unit[s]
  PROVE  LinesIn(F, f.mode, s) = f.lines[s]
<1>1. f.lines[s] \in Nat
  BY DEF LogFile
<1>2. CASE f.lines[s] > 0
  BY <1>2, LogOfSeed, LinesOfLog
<1>3. CASE f.lines[s] = 0
  <2>1. ASSUME NEW g \in F, g.mode = f.mode, g.lines[s] > 0 PROVE FALSE
    <3>1. g.unit = unit[s]
      BY <2>1 DEF Placed
    <3>2. g = f
      BY <2>1, <3>1 DEF Named
    <3>3. QED
      BY <1>3, <2>1, <3>2
  <2>2. ~HasLine(F, f.mode, s)
    BY <2>1 DEF HasLine
  <2>3. QED
    BY <1>3, <2>2 DEF LinesIn
<1>4. QED
  BY <1>1, <1>2, <1>3

\* Without such a log there are none.
LEMMA LinesNone ==
  ASSUME NEW F, NEW unit, Placed(F, unit), NEW s \in Seeds, NEW m,
         \A f \in F : ~(f.mode = m /\ f.unit = unit[s])
  PROVE  LinesIn(F, m, s) = 0
  BY DEF Placed, LinesIn, HasLine

\* They are a number.
LEMMA LinesNat ==
  ASSUME NEW F \in SUBSET LogFile, NEW unit, Named(F), Placed(F, unit), NEW s \in Seeds, NEW m
  PROVE  LinesIn(F, m, s) \in Nat
<1>1. CASE \A f \in F : ~(f.mode = m /\ f.unit = unit[s])
  BY <1>1, LinesNone
<1>2. ASSUME NEW f \in F, f.mode = m, f.unit = unit[s] PROVE LinesIn(F, m, s) \in Nat
  <2>1. LinesIn(F, f.mode, s) = f.lines[s]
    BY <1>2, LinesAt
  <2>2. f.lines[s] \in Nat
    BY DEF LogFile
  <2>3. QED
    BY <1>2, <2>1, <2>2
<1>3. QED
  BY <1>1, <1>2

\* They depend on the log of the unit alone.
LEMMA LinesSame ==
  ASSUME NEW F \in SUBSET LogFile, NEW G \in SUBSET LogFile, NEW unit,
         Named(F), Placed(F, unit), Named(G), Placed(G, unit), NEW s \in Seeds, NEW m,
         \A f : f.mode = m /\ f.unit = unit[s] => (f \in F <=> f \in G)
  PROVE  LinesIn(F, m, s) = LinesIn(G, m, s)
<1>1. CASE \A f \in F : ~(f.mode = m /\ f.unit = unit[s])
  <2>1. \A f \in G : ~(f.mode = m /\ f.unit = unit[s])
    BY <1>1
  <2>2. LinesIn(F, m, s) = 0
    BY <1>1, LinesNone
  <2>3. LinesIn(G, m, s) = 0
    BY <2>1, LinesNone
  <2>4. QED
    BY <2>2, <2>3
<1>2. ASSUME NEW f \in F, f.mode = m, f.unit = unit[s] PROVE LinesIn(F, m, s) = LinesIn(G, m, s)
  <2>1. LinesIn(F, f.mode, s) = f.lines[s]
    BY <1>2, LinesAt
  <2>2. f \in G
    BY <1>2
  <2>3. LinesIn(G, f.mode, s) = f.lines[s]
    BY <1>2, <2>2, LinesAt
  <2>4. QED
    BY <1>2, <2>1, <2>3
<1>3. QED
  BY <1>1, <1>2

\* The sum of the first n + 1 numbers, twice.
LEMMA Stopped ==
  ASSUME NEW n \in Nat
  PROVE  /\ n * (n + 1) \in Nat
         /\ (n + 1) * ((n + 1) + 1) = n * (n + 1) + 2 * n + 2
         /\ 2 * n <= n * (n + 1)
<1>1. n * (n + 1) \in Nat /\ (n + 1) * ((n + 1) + 1) = n * (n + 1) + 2 * n + 2
  OBVIOUS
<1>2. n = 0 \/ n >= 1
  OBVIOUS
<1>3. n >= 1 => n * (n + 1) >= n * 2
  OBVIOUS
<1>4. QED
  BY <1>1, <1>2, <1>3

\* The initial states satisfy it.
LEMMA InitBound == RInit => QInv
<1> SUFFICES ASSUME RInit PROVE QInv
  OBVIOUS
<1>1. tmpRes = {} /\ left = {} /\ resFiles = {} /\ stops = 0
  BY DEF RInit, Init
<1>2. FilesInv
  BY <1>1 DEF FilesInv, Named, Placed, Started
<1>3. ASSUME NEW m \in Modes, NEW s \in Seeds PROVE SeedBound(m, s)
  <2>1. merged[m][s] = 0
    BY DEF RInit, Init
  <2>2. LinesIn(tmpRes, m, s) = 0 /\ LinesIn(left, m, s) = 0
    BY <1>1 DEF LinesIn, HasLine
  <2>3. QED
    BY <1>1, <2>1, <2>2 DEF SeedBound, Within
<1>4. QED
  BY <1>1, <1>2, <1>3 DEF QInv, BoundInv

\* A step that leaves the logs alone, and moves a seed to a unit at most.
LEMMA FilesQuiet ==
  ASSUME FilesInv, UNCHANGED <<left, tmpRes>>, resFiles' \subseteq tmpRes,
         \A s \in Seeds : loc'[s] \in {"generated", "dir"} => loc[s] \in {"generated", "dir"},
         \A s \in Seeds : unitOf'[s] = unitOf[s] \/ loc[s] \in {"generated", "dir"}
  PROVE  FilesInv'
<1>1. ASSUME NEW F, Placed(F, unitOf), Started(F) PROVE Placed(F, unitOf') /\ Started(F)'
  BY <1>1 DEF Placed, Started
<1>2. QED
  BY <1>1 DEF FilesInv, Named, Placed, Started

\* A step that judges no seed and changes no log.
LEMMA BoundQuiet ==
  ASSUME QInv, FilesInv', UNCHANGED <<left, tmpRes, merged, stops>>,
         \A s \in Seeds : Unjudged(s)' => Unjudged(s),
         \A m \in Modes, s \in Seeds : m > 0 /\ Pending(m, s)' => Pending(m, s)
  PROVE  QInv'
<1>1. ASSUME NEW m \in Modes, NEW s \in Seeds PROVE SeedBound(m, s)'
  <2>1. SeedBound(m, s)
    BY DEF QInv, BoundInv
  <2>2. (Unjudged(s)' => Unjudged(s)) /\ (m > 0 /\ Pending(m, s)' => Pending(m, s))
    OBVIOUS
  <2>3. QED
    BY <2>1, <2>2 DEF SeedBound
<1>2. QED
  BY <1>1 DEF QInv, BoundInv

\* The lines of a seed in the logs are numbers.
LEMMA LinesType ==
  ASSUME RInv, QInv, NEW m \in Modes, NEW s \in Seeds
  PROVE  /\ merged[m][s] \in Nat
         /\ LinesIn(tmpRes, m, s) \in Nat
         /\ LinesIn(left, m, s) \in Nat
         /\ m \in Nat /\ stops \in Nat
<1>1. tmpRes \in SUBSET LogFile /\ left \in SUBSET LogFile /\ merged[m][s] \in Nat
  BY DEF RInv, TypeInv, TypeOK, LeftType
<1>2. LinesIn(tmpRes, m, s) \in Nat
  BY <1>1, LinesNat DEF QInv, FilesInv
<1>3. LinesIn(left, m, s) \in Nat
  BY <1>1, LinesNat DEF QInv, FilesInv
<1>4. m \in Nat /\ stops \in Nat
  BY DEF Modes, QInv
<1>5. QED
  BY <1>1, <1>2, <1>3, <1>4

\* A log of TMP_RES holds all the lines in TMP_RES of the seeds it has.
LEMMA LinesMerged ==
  ASSUME RInv, QInv, NEW f \in resFiles, NEW s \in Seeds, NEW m \in Modes
  PROVE  /\ f.lines[s] \in Nat
         /\ f.mode = m /\ f.lines[s] > 0 => LinesIn(tmpRes, m, s) = f.lines[s]
<1>1. tmpRes \in SUBSET LogFile /\ f \in tmpRes
  BY DEF RInv, TypeInv, TypeOK, QInv, FilesInv
<1>2. f.lines[s] \in Nat
  BY <1>1 DEF LogFile
<1>3. ASSUME f.mode = m, f.lines[s] > 0 PROVE LinesIn(tmpRes, m, s) = f.lines[s]
  <2>1. OneLog(tmpRes, m, s)
    BY LogOfSeed DEF QInv, FilesInv
  <2>2. QED
    BY <1>1, <1>3, <2>1, LinesOfLog
<1>4. QED
  BY <1>2, <1>3

\* Merging a log moves its lines.
LEMMA MergeBound ==
  ASSUME RInv, QInv, NEW f \in resFiles, MergeFile(f), UNCHANGED <<left, stops>>
  PROVE  QInv'
<1>1. /\ UNCHANGED <<loc, unitOf, child, UNIT_NUM>> /\ Units' = Units
      /\ tmpRes' = tmpRes \ {f} /\ resFiles' = resFiles \ {f}
      /\ merged' = [merged EXCEPT ![f.mode] = [t \in Seeds |-> @[t] + f.lines[t]]]
  BY DEF MergeFile, unitVars, Units
<1>2. FilesInv'
  BY <1>1 DEF QInv, FilesInv, Named, Placed, Started
<1>3. tmpRes \in SUBSET LogFile /\ tmpRes' \in SUBSET LogFile /\ f \in tmpRes /\ f.mode \in Modes
  BY <1>1 DEF RInv, TypeInv, TypeOK, LogFile, QInv, FilesInv
<1>4. Named(tmpRes') /\ Placed(tmpRes', unitOf)
  BY <1>1, <1>2 DEF FilesInv
<1>5. ASSUME NEW m \in Modes, NEW s \in Seeds PROVE SeedBound(m, s)'
  <2>1. SeedBound(m, s)
    BY DEF QInv, BoundInv
  <2>2. (Unjudged(s)' <=> Unjudged(s)) /\ (Pending(m, s)' <=> Pending(m, s))
    BY <1>1 DEF Unjudged, Pending
  <2>3. merged'[m][s] = IF m = f.mode THEN merged[m][s] + f.lines[s] ELSE merged[m][s]
    BY <1>1, <1>3 DEF RInv, TypeInv, TypeOK
  <2>4. CASE f.mode = m /\ f.lines[s] > 0
    <3>1. LinesIn(tmpRes, m, s) = f.lines[s]
      BY <2>4, LinesMerged
    <3>2. LinesIn(tmpRes', m, s) = 0
      <4>1. \A g \in tmpRes' : ~(g.mode = m /\ g.lines[s] > 0)
        BY <1>1, <1>3, <2>4 DEF QInv, FilesInv, Named, Placed
      <4>2. QED
        BY <4>1 DEF LinesIn, HasLine
    <3>3. merged'[m][s] + LinesIn(tmpRes', m, s) = merged[m][s] + LinesIn(tmpRes, m, s)
          /\ merged'[m][s] \in Nat
      BY <2>3, <2>4, <3>1, <3>2, LinesType
    <3>4. ~(m = 0 /\ Unjudged(s))
      BY <2>1, <2>4, <3>1, LinesMerged DEF SeedBound
    <3>5. PICK M, X, Y : M = merged[m][s] /\ X = LinesIn(tmpRes, m, s) /\ Y = LinesIn(left, m, s)
      OBVIOUS
    <3>6. M \in Nat /\ X \in Nat /\ Y \in Nat /\ stops \in Nat
      BY <3>5, LinesType
    <3>7. /\ Y <= stops /\ Within(stops, m, M, X, Y)
          /\ m > 0 /\ Pending(m, s) => Within(stops, m, M + 1, X, Y)
      BY <2>1, <3>5 DEF SeedBound
    <3>8. merged'[m][s] = M + X /\ LinesIn(tmpRes', m, s) = 0 /\ LinesIn(left', m, s) = Y
      BY <3>2, <3>3, <3>5
    <3>9. /\ Within(stops, m, M, X, Y) => Within(stops, m, M + X, 0, Y)
          /\ Within(stops, m, M + 1, X, Y) => Within(stops, m, (M + X) + 1, 0, Y)
      <4>1. M + X + Y = (M + X) + 0 + Y /\ (M + 1) + X + Y = ((M + X) + 1) + 0 + Y
        BY <3>6
      <4>2. QED
        BY <4>1 DEF Within
    <3>10. QED
      BY <2>2, <3>4, <3>6, <3>7, <3>8, <3>9 DEF SeedBound
  <2>5. CASE ~(f.mode = m /\ f.lines[s] > 0)
    <3>1. merged'[m][s] = merged[m][s]
      BY <2>3, <2>5, LinesMerged, LinesType
    <3>2. LinesIn(tmpRes', m, s) = LinesIn(tmpRes, m, s)
      <4>1. ASSUME NEW g \in tmpRes, g.mode = m, g.lines[s] > 0
            PROVE  LinesIn(tmpRes', m, s) = LinesIn(tmpRes, m, s)
        <5>1. g \in tmpRes'
          BY <1>1, <2>5, <4>1
        <5>2. LinesIn(tmpRes, m, s) = g.lines[s]
          BY <4>1, LogOfSeed, LinesOfLog DEF QInv, FilesInv
        <5>3. LinesIn(tmpRes', m, s) = g.lines[s]
          BY <1>4, <4>1, <5>1, LogOfSeed, LinesOfLog
        <5>4. QED
          BY <5>2, <5>3
      <4>2. CASE \A g \in tmpRes : ~(g.mode = m /\ g.lines[s] > 0)
        BY <1>1, <4>2 DEF LinesIn, HasLine
      <4>3. QED
        BY <4>1, <4>2
    <3>3. QED
      BY <2>1, <2>2, <3>1, <3>2 DEF SeedBound
  <2>6. QED
    BY <2>4, <2>5
<1>6. QED
  BY <1>2, <1>5 DEF QInv, BoundInv

\* The steps of the tasks, of the main loop and of a process that waits.
LEMMA ParentBound ==
  ASSUME RInv, RInv', QInv, UNCHANGED <<left, stops>>,
         \/ Task \/ Parent \/ UNCHANGED vars
         \/ \E u \in Units : ReadAdb(u) \/ ReadAdbAgain(u)
  PROVE  QInv'
<1> USE DEF RInv, TypeInv
<1>1. CASE /\ UNCHANGED <<tmpRes, merged>> /\ resFiles' \subseteq tmpRes
           /\ \A s \in Seeds : loc'[s] # loc[s] =>
                loc'[s] \in {"dir", "unit", "lost"} /\ loc[s] \in {"generated", "dir"}
           /\ \A s \in Seeds : unitOf'[s] = unitOf[s] \/ loc[s] \in {"generated", "dir"}
           /\ \A u \in Units : u \in Units' /\ child'[u].mode = child[u].mode
  <2>1. \A s \in Seeds : Unjudged(s)' => Unjudged(s)
    BY <1>1 DEF Unjudged
  <2>2. \A s \in Seeds : loc'[s] \in {"generated", "dir"} => loc[s] \in {"generated", "dir"}
    BY <1>1
  <2>3. ASSUME NEW m \in Modes, NEW s \in Seeds, Pending(m, s)' PROVE Pending(m, s)
    <3>1. CASE loc[s] \in {"generated", "dir"}
      BY <3>1 DEF Pending, Unjudged
    <3>2. CASE loc[s] \notin {"generated", "dir"}
      <4>1. loc'[s] = loc[s] /\ unitOf'[s] = unitOf[s]
        BY <1>1, <3>2
      <4>2. QED
        BY <1>1, <2>3, <4>1 DEF Pending, Unjudged
    <3>3. QED
      BY <3>1, <3>2
  <2>4. FilesInv'
    BY <1>1, <2>2, FilesQuiet DEF QInv
  <2>5. QED
    BY <1>1, <2>1, <2>3, <2>4, BoundQuiet
<1>2. CASE /\ UNCHANGED <<tmpRes, merged, loc, unitOf, child, UNIT_NUM>> /\ resFiles' \subseteq tmpRes
  BY <1>1, <1>2 DEF Units
<1>3. resFiles \subseteq tmpRes
  BY DEF QInv, FilesInv
<1>4. CASE UNCHANGED vars
  BY <1>2, <1>3, <1>4 DEF vars, unitVars, logVars
<1>5. CASE \E u \in Units : ReadAdb(u) \/ ReadAdbAgain(u)
  <2>1. PICK u \in Units : ReadAdb(u) \/ ReadAdbAgain(u)
    BY <1>5
  <2>2. UNCHANGED <<loc, unitOf, tmpRes, merged, resFiles>> /\ Units' = Units /\ child \in [Units -> Child]
    BY <2>1 DEF ReadAdb, ReadAdbAgain, Units, TypeOK, unitVars, logVars
  <2>3. \A v \in Units : child'[v].mode = child[v].mode
    BY <2>1, <2>2 DEF ReadAdb, ReadAdbAgain, Child
  <2>4. QED
    BY <1>1, <1>3, <2>2, <2>3
<1>6. ASSUME NEW s \in Seeds, FailSeed(s) PROVE QInv'
  <2>1. UNCHANGED <<unitOf, child, tmpRes, merged, resFiles>> /\ Units' = Units
        /\ loc[s] = "generated" /\ loc' = [loc EXCEPT ![s] = "dir"]
    BY <1>6 DEF FailSeed, unitVars, logVars, Units
  <2>2. QED
    BY <1>1, <1>3, <2>1 DEF TypeOK
<1>7. CASE Task
  BY <1>2, <1>3, <1>6, <1>7 DEF Task, MakeFailDir, WriteDone, unitVars, logVars
<1>8. CASE Merge
  <2>1. CASE GlobTmpRes
    BY <1>2, <2>1 DEF GlobTmpRes, unitVars
  <2>2. QED
    BY <1>8, <2>1, MergeBound DEF Merge
<1>9. CASE Scan
  <2>1. CASE GlobSeedDir \/ EndScan
    BY <1>2, <1>3, <2>1 DEF GlobSeedDir, EndScan, unitVars, logVars
  <2>2. ASSUME NEW d \in fdirs, SkipDir(d) PROVE QInv'
    BY <1>2, <1>3, <2>2 DEF SkipDir, unitVars, logVars
  <2>3. ASSUME NEW d \in fdirs, NEW s \in Seeds, CutScan(d, s) PROVE QInv'
    BY <1>2, <1>3, <2>3 DEF CutScan, unitVars, logVars
  <2>4. ASSUME NEW d \in fdirs, RemoveDir(d) PROVE QInv'
    <3>1. UNCHANGED <<unitOf, child, tmpRes, merged, resFiles>> /\ Units' = Units
          /\ loc' = [s \in Seeds |-> IF s \in InDir(d) THEN "lost" ELSE loc[s]]
      BY <2>4 DEF RemoveDir, unitVars, logVars, Units
    <3>2. QED
      BY <1>1, <1>3, <3>1 DEF InDir
  <2>5. ASSUME NEW d \in fdirs, NEW s \in Seeds, TakeSeed(d, s) PROVE QInv'
    <3>1. UNCHANGED <<child, tmpRes, merged, resFiles>> /\ Units' = Units
          /\ loc' = [loc EXCEPT ![s] = "unit"] /\ unitOf' = [unitOf EXCEPT ![s] = UNIT_NUM]
          /\ s \in GlobList(d)
      BY <2>5 DEF TakeSeed, logVars, Units, First
    <3>2. loc[s] = "dir"
      BY <3>1 DEF GlobList, InDir, IndInv, GlobInv
    <3>3. QED
      BY <1>1, <1>3, <3>1, <3>2 DEF TypeOK
  <2>6. QED
    BY <1>9, <2>1, <2>2, <2>3, <2>4, <2>5 DEF Scan
<1>10. CASE Submit
  <2>1. CASE Sleep \/ SubmitNothing \/ ForkFails
    BY <1>2, <1>3, <2>1 DEF Sleep, SubmitNothing, ForkFails, unitVars, logVars
  <2>2. CASE Fork
    <3>1. UNCHANGED <<loc, unitOf, tmpRes, merged, resFiles>> /\ UNIT_NUM \in Nat
          /\ UNIT_NUM' = UNIT_NUM + 1
          /\ child' = [u \in 0 .. UNIT_NUM |->
               IF u = UNIT_NUM THEN [pc |-> "adb1", adb |-> 0, mode |-> 1] ELSE child[u]]
      BY <2>2 DEF Fork, logVars, TypeOK
    <3>2. \A u \in Units : u \in Units' /\ u \in 0 .. UNIT_NUM /\ u # UNIT_NUM
      BY <3>1 DEF Units
    <3>3. \A u \in Units : u \in Units' /\ child'[u].mode = child[u].mode
      BY <3>1, <3>2
    <3>4. QED
      BY <1>1, <1>3, <3>1, <3>3
  <2>3. QED
    BY <1>10, <2>1, <2>2 DEF Submit
<1>11. QED
  BY <1>4, <1>5, <1>7, <1>8, <1>9, <1>10 DEF Parent

\* What the log of a unit holds of a seed.
LEMMA LeftLinesIn ==
  ASSUME LeftType, FilesInv, NEW m, NEW u, NEW s \in Seeds
  PROVE  LeftLines(m, u)[s] = IF unitOf[s] = u THEN LinesIn(left, m, s) ELSE 0
<1>1. CASE LeftFile(m, u) = {}
  <2>1. LeftLines(m, u)[s] = 0
    BY <1>1 DEF LeftLines, NoLines
  <2>2. unitOf[s] = u => LinesIn(left, m, s) = 0
    <3>1. \A f \in left : ~(f.mode = m /\ f.unit = u)
      BY <1>1 DEF LeftFile
    <3>2. QED
      BY <3>1, LinesNone DEF FilesInv
  <2>3. QED
    BY <2>1, <2>2
<1>2. CASE LeftFile(m, u) # {}
  <2>1. PICK f : f = CHOOSE g \in LeftFile(m, u) : TRUE
    OBVIOUS
  <2>2. f \in LeftFile(m, u)
    BY <1>2, <2>1
  <2>3. f \in left /\ f.mode = m /\ f.unit = u
    BY <2>2 DEF LeftFile
  <2>4. LeftLines(m, u) = f.lines
    BY <1>2, <2>1 DEF LeftLines
  <2>5. unitOf[s] = u => LinesIn(left, f.mode, s) = f.lines[s]
    BY <2>3, LinesAt DEF FilesInv, LeftType
  <2>6. f.lines[s] \in Nat
    BY <2>3 DEF LeftType, LogFile
  <2>7. unitOf[s] # u => f.lines[s] = 0
    BY <2>3, <2>6 DEF FilesInv, Placed
  <2>8. QED
    BY <2>3, <2>4, <2>5, <2>7
<1>3. QED
  BY <1>1, <1>2

RunMoved(m, u, S) ==
  \A k \in Modes, s \in Seeds :
    IF k = m /\ unitOf[s] = u
    THEN /\ LinesIn(tmpRes, k, s) = 0 /\ LinesIn(left', k, s) = 0
         /\ LinesIn(tmpRes', k, s) = LinesIn(left, k, s) + IF s \in S THEN 1 ELSE 0
    ELSE /\ LinesIn(tmpRes', k, s) = LinesIn(tmpRes, k, s)
         /\ LinesIn(left', k, s) = LinesIn(left, k, s)

\* A run of a unit whose log is not in TMP_RES moves what is left there of
\* the log, and a line more for the seeds that were run.
LEMMA RunMoves ==
  ASSUME RInv, RInv', QInv, NEW m \in Modes, NEW u \in Nat, NEW S \in SUBSET Seeds,
         \A s \in S : unitOf[s] = u /\ loc[s] \notin {"generated", "dir"},
         \A f \in tmpRes : ~(f.mode = m /\ f.unit = u),
         tmpRes' = MoveLog(m, u, PlusLines(LeftLines(m, u), S)),
         left' = left \ LeftFile(m, u), UNCHANGED <<unitOf, resFiles>>,
         \A s \in Seeds : loc'[s] \in {"generated", "dir"} => loc[s] \in {"generated", "dir"}
  PROVE  FilesInv' /\ RunMoved(m, u, S)
<1>1. PICK lines : lines = PlusLines(LeftLines(m, u), S)
  OBVIOUS
<1>2. PICK new : new = [mode |-> m, unit |-> u, lines |-> lines]
  OBVIOUS
<1>3. FilesInv /\ LeftType /\ tmpRes \subseteq LogFile /\ tmpRes' \subseteq LogFile /\ LeftType'
  BY DEF QInv, RInv, TypeInv, TypeOK
<1>4. ASSUME NEW s \in Seeds
      PROVE  /\ lines[s] \in Nat
             /\ lines[s] = LeftLines(m, u)[s] + (IF s \in S THEN 1 ELSE 0)
             /\ LeftLines(m, u)[s] \in Nat
  <2>1. LeftLines(m, u)[s] \in Nat
    BY <1>3, LeftLinesType
  <2>2. lines[s] = LeftLines(m, u)[s] + (IF s \in S THEN 1 ELSE 0)
    BY <1>1 DEF PlusLines
  <2>3. QED
    BY <2>1, <2>2
<1>5. ASSUME NEW s \in Seeds, unitOf[s] # u PROVE lines[s] = 0
  <2>1. LeftLines(m, u)[s] = 0
    BY <1>3, <1>5, LeftLinesIn
  <2>2. s \notin S
    BY <1>5
  <2>3. QED
    BY <1>4, <2>1, <2>2
<1>6. ASSUME NEW s \in Seeds, unitOf[s] = u
      PROVE  lines[s] = LinesIn(left, m, s) + IF s \in S THEN 1 ELSE 0
  BY <1>3, <1>4, <1>6, LeftLinesIn
<1>7. ASSUME NEW s \in Seeds, lines[s] > 0 PROVE loc[s] \notin {"generated", "dir"}
  <2>1. CASE s \in S
    BY <2>1
  <2>2. CASE s \notin S
    <3>1. lines[s] = LinesIn(left, m, s)
      <4>1. unitOf[s] = u
        BY <1>5, <1>7
      <4>2. LinesIn(left, m, s) \in Nat
        BY LinesType
      <4>3. QED
        BY <1>6, <2>2, <4>1, <4>2
    <3>2. HasLine(left, m, s)
      BY <1>7, <3>1 DEF LinesIn
    <3>3. QED
      BY <1>3, <3>2 DEF HasLine, FilesInv, Started
  <2>3. QED
    BY <2>1, <2>2
<1>8. tmpRes' = tmpRes \cup Log(m, u, lines)
  BY <1>1 DEF MoveLog
<1>9. \A f \in tmpRes' : f \in tmpRes \/ f = new
  BY <1>2, <1>8 DEF Log
<1>10. new.mode = m /\ new.unit = u /\ new.lines = lines
  BY <1>2
<1>11. FilesInv'
  <2>1. Named(tmpRes')
    BY <1>3, <1>9, <1>10 DEF FilesInv, Named
  <2>2. Placed(tmpRes', unitOf)
    <3>1. \A f \in tmpRes, s \in Seeds : f.lines[s] > 0 => f.unit = unitOf[s]
      BY <1>3 DEF FilesInv, Placed
    <3>2. ASSUME NEW s \in Seeds, new.lines[s] > 0 PROVE new.unit = unitOf[s]
      <4>1. lines[s] # 0
        BY <1>10, <3>2
      <4>2. QED
        BY <1>5, <1>10, <4>1
    <3>3. QED
      BY <1>9, <3>1, <3>2 DEF Placed
  <2>3. Started(tmpRes)'
    <3>1. \A f \in tmpRes, s \in Seeds : f.lines[s] > 0 => loc[s] \notin {"generated", "dir"}
      BY <1>3 DEF FilesInv, Started
    <3>2. \A s \in Seeds : new.lines[s] > 0 => loc[s] \notin {"generated", "dir"}
      BY <1>7, <1>10
    <3>3. QED
      BY <1>9, <3>1, <3>2 DEF Started
  <2>4. Named(left') /\ Placed(left', unitOf) /\ Started(left)'
    BY <1>3 DEF FilesInv, Named, Placed, Started
  <2>5. resFiles' \subseteq tmpRes'
    BY <1>3, <1>8 DEF FilesInv
  <2>6. QED
    BY <2>1, <2>2, <2>3, <2>4, <2>5 DEF FilesInv
<1>12. Named(tmpRes') /\ Placed(tmpRes', unitOf) /\ Named(left') /\ Placed(left', unitOf)
  BY <1>11 DEF FilesInv
<1>13. ASSUME NEW s \in Seeds, unitOf[s] = u
       PROVE  /\ LinesIn(tmpRes, m, s) = 0 /\ LinesIn(left', m, s) = 0
              /\ LinesIn(tmpRes', m, s) = lines[s]
  <2>1. LinesIn(tmpRes, m, s) = 0
    BY <1>3, <1>13, LinesNone DEF FilesInv
  <2>2. LinesIn(left', m, s) = 0
    <3>1. \A f \in left' : ~(f.mode = m /\ f.unit = unitOf[s])
      BY <1>13 DEF LeftFile
    <3>2. QED
      BY <1>12, <3>1, LinesNone
  <2>3. CASE lines = NoLines
    <3>1. \A f \in tmpRes' : ~(f.mode = m /\ f.unit = unitOf[s])
      BY <1>8, <1>13, <2>3 DEF Log
    <3>2. LinesIn(tmpRes', m, s) = 0
      BY <1>12, <3>1, LinesNone
    <3>3. QED
      BY <2>1, <2>2, <2>3, <3>2 DEF NoLines
  <2>4. CASE lines # NoLines
    <3>1. new \in tmpRes' /\ new.unit = unitOf[s]
      BY <1>2, <1>8, <1>10, <1>13, <2>4 DEF Log
    <3>2. LinesIn(tmpRes', new.mode, s) = new.lines[s]
      BY <1>3, <1>12, <3>1, LinesAt
    <3>3. QED
      BY <1>10, <2>1, <2>2, <3>2
  <2>5. QED
    BY <2>3, <2>4
<1>14. ASSUME NEW k \in Modes, NEW s \in Seeds, ~(k = m /\ unitOf[s] = u)
       PROVE  /\ LinesIn(tmpRes', k, s) = LinesIn(tmpRes, k, s)
              /\ LinesIn(left', k, s) = LinesIn(left, k, s)
  <2>1. \A f : f.mode = k /\ f.unit = unitOf[s] => (f \in tmpRes' <=> f \in tmpRes)
    BY <1>8, <1>9, <1>10, <1>14
  <2>2. \A f : f.mode = k /\ f.unit = unitOf[s] => (f \in left' <=> f \in left)
    BY <1>14 DEF LeftFile
  <2>3. LinesIn(tmpRes', k, s) = LinesIn(tmpRes, k, s)
    BY <1>3, <1>12, <2>1, LinesSame DEF FilesInv
  <2>4. LinesIn(left', k, s) = LinesIn(left, k, s)
    BY <1>3, <1>12, <2>2, LinesSame DEF FilesInv, LeftType
  <2>5. QED
    BY <2>3, <2>4
<1>15. ASSUME NEW k \in Modes, NEW s \in Seeds
       PROVE  IF k = m /\ unitOf[s] = u
              THEN /\ LinesIn(tmpRes, k, s) = 0 /\ LinesIn(left', k, s) = 0
                   /\ LinesIn(tmpRes', k, s) = LinesIn(left, k, s) + IF s \in S THEN 1 ELSE 0
              ELSE /\ LinesIn(tmpRes', k, s) = LinesIn(tmpRes, k, s)
                   /\ LinesIn(left', k, s) = LinesIn(left, k, s)
  <2>1. CASE k = m /\ unitOf[s] = u
    BY <1>6, <1>13, <2>1
  <2>2. CASE ~(k = m /\ unitOf[s] = u)
    BY <1>14, <2>2
  <2>3. QED
    BY <2>1, <2>2
<1>16. QED
  BY <1>11, <1>15 DEF RunMoved

\* The process of a unit runs its seeds on the device: a seed is judged, with
\* the lines that interrupted runs left and one more.
LEMMA ArmBound ==
  ASSUME RInv, RInv', KInv, QInv, NEW u \in Units, RunOnArmAgain(u)
  PROVE  QInv'
<1>1. PICK S : S = InUnit(u, "unit")
  OBVIOUS
<1>2. PICK P \in SUBSET S : RunOnArm(u, P, LeftLines(0, u))
  BY <1>1 DEF RunOnArmAgain
<1>3. /\ child[u].pc = "arm" /\ Units' = Units
      /\ UNCHANGED <<unitOf, resFiles, merged, stops>> /\ left' = left \ LeftFile(0, u)
      /\ tmpRes' = MoveLog(0, u, PlusLines(LeftLines(0, u), S))
      /\ \A s \in Seeds : loc'[s] = IF s \notin S THEN loc[s]
                                    ELSE IF s \in P THEN "armpass" ELSE "armfail"
  BY <1>1, <1>2 DEF RunOnArm, RunOnArmAgain, unitVars, Units
<1>4. child \in [Units -> Child] /\ \A v \in Units : child'[v].mode = child[v].mode
  BY <1>2 DEF RunOnArm, Child, RInv, TypeInv, TypeOK
<1>5. S \in SUBSET Seeds /\ \A s \in S : loc[s] = "unit" /\ unitOf[s] = u
  BY <1>1 DEF InUnit
<1>6. 0 \in Modes /\ u \in Nat /\ UNIT_NUM > 0
  <2>1. UNIT_NUM \in Nat
    BY DEF RInv, TypeInv, TypeOK
  <2>2. 0 \in Modes
    BY DEF Modes
  <2>3. QED
    BY <2>1, <2>2 DEF Units
<1>7. \A f \in tmpRes : ~(f.mode = 0 /\ f.unit = u)
  BY <1>3, <1>6 DEF KInv, FreshLogs, Past
<1>8. \A s \in Seeds : loc'[s] \in {"generated", "dir"} => loc[s] \in {"generated", "dir"}
  BY <1>3
<1>9. \A s \in S : unitOf[s] = u /\ loc[s] \notin {"generated", "dir"}
  BY <1>5
<1>10. FilesInv' /\ RunMoved(0, u, S)
  <2>1. UNCHANGED <<unitOf, resFiles>>
    BY <1>3
  <2>2. QED
    BY <1>3, <1>5, <1>6, <1>7, <1>8, <1>9, <2>1, RunMoves, Zenon
<1>11. ASSUME NEW m \in Modes, NEW s \in Seeds PROVE SeedBound(m, s)'
  <2>1. PICK M, X, Y : M = merged[m][s] /\ X = LinesIn(tmpRes, m, s) /\ Y = LinesIn(left, m, s)
    OBVIOUS
  <2>2. M \in Nat /\ X \in Nat /\ Y \in Nat /\ stops \in Nat /\ m \in Nat
    BY <2>1, LinesType
  <2>3. /\ Y <= stops /\ X <= stops + 1
        /\ m = 0 /\ Unjudged(s) => M = 0 /\ X = 0
        /\ Within(stops, m, M, X, Y)
        /\ m > 0 /\ Pending(m, s) => Within(stops, m, M + 1, X, Y)
    BY <2>1 DEF QInv, BoundInv, SeedBound
  <2>4. Unjudged(s)' => Unjudged(s) /\ s \notin S
    BY <1>3 DEF Unjudged
  <2>5. Pending(m, s)' => Pending(m, s)
    BY <1>3, <1>4, <1>5 DEF Pending, Unjudged
  <2>6. merged'[m][s] = M /\ stops' = stops
    BY <1>3, <2>1
  <2>7. CASE m = 0 /\ unitOf[s] = u
    <3>1. X = 0 /\ LinesIn(left', m, s) = 0 /\ LinesIn(tmpRes', m, s) = Y + IF s \in S THEN 1 ELSE 0
      BY <1>10, <2>1, <2>7 DEF RunMoved
    <3>2. CASE s \in S
      <4>1. M = 0 /\ ~Unjudged(s)'
        BY <1>5, <2>3, <2>4, <2>7, <3>2 DEF Unjudged
      <4>2. Within(stops, m, M, Y + 1, 0)
        BY <2>2, <2>3, <2>7, <4>1, Stopped DEF Within
      <4>3. QED
        BY <2>2, <2>3, <2>6, <2>7, <3>1, <3>2, <4>1, <4>2 DEF SeedBound
    <3>3. CASE s \notin S
      <4>1. ~Unjudged(s)' \/ Y = 0
        <5>1. ASSUME loc[s] \in {"generated", "dir"} PROVE Y = 0
          BY <2>1, <5>1 DEF QInv, FilesInv, Started, LinesIn, HasLine
        <5>2. loc[s] # "unit"
          BY <1>1, <2>7, <3>3 DEF InUnit
        <5>3. QED
          BY <2>4, <5>1, <5>2 DEF Unjudged
      <4>2. Within(stops, m, M, Y, 0)
        BY <2>2, <2>3, <3>1 DEF Within
      <4>3. QED
        BY <2>2, <2>3, <2>4, <2>6, <2>7, <3>1, <3>3, <4>1, <4>2 DEF SeedBound
    <3>4. QED
      BY <3>2, <3>3
  <2>8. CASE ~(m = 0 /\ unitOf[s] = u)
    <3>1. LinesIn(tmpRes', m, s) = X /\ LinesIn(left', m, s) = Y
      BY <1>10, <2>1, <2>8 DEF RunMoved
    <3>2. QED
      BY <2>3, <2>4, <2>5, <2>6, <3>1 DEF SeedBound
  <2>9. QED
    BY <2>7, <2>8
<1>12. QED
  BY <1>3, <1>10, <1>11 DEF QInv, BoundInv

\* The process of a unit runs its seeds in the next translator mode, once.
LEMMA UbtBound ==
  ASSUME RInv, RInv', KInv, QInv, NEW u \in Units, RunOnUbtAgain(u)
  PROVE  QInv'
<1>0. PICK n : n = child[u].mode
  OBVIOUS
<1>1. PICK S : S = InUnit(u, "armpass")
  OBVIOUS
<1>2. RunOnUbt(u, LeftLines(n, u)) /\ left' = left \ LeftFile(n, u) /\ stops' = stops
  BY <1>0 DEF RunOnUbtAgain
<1>3. /\ child[u].pc = "ubt" /\ Units' = Units
      /\ UNCHANGED <<loc, unitOf, resFiles, merged, stops>>
      /\ tmpRes' = MoveLog(n, u, PlusLines(LeftLines(n, u), S))
  BY <1>0, <1>1, <1>2 DEF RunOnUbt, unitVars, Units
<1>4. n \in Nat \ {0} /\ n <= LastMode /\ n \in Modes
  BY <1>0, <1>3 DEF RInv, TypeInv, TypeOK, ModesLeft, Child, Modes
<1>5. child'[u].mode = n + 1 /\ \A v \in Units : v # u => child'[v] = child[v]
  BY <1>0, <1>2 DEF RunOnUbt, Child, RInv, TypeInv, TypeOK
<1>6. S \in SUBSET Seeds /\ \A s \in Seeds : s \in S <=> loc[s] = "armpass" /\ unitOf[s] = u
  BY <1>1 DEF InUnit
<1>7. u \in Nat /\ UNIT_NUM > 0
  <2>1. UNIT_NUM \in Nat
    BY DEF RInv, TypeInv, TypeOK
  <2>2. QED
    BY <2>1 DEF Units
<1>8. \A f \in tmpRes : ~(f.mode = n /\ f.unit = u)
  BY <1>0, <1>4, <1>7 DEF KInv, FreshLogs
<1>8a. \A s \in Seeds : loc'[s] \in {"generated", "dir"} => loc[s] \in {"generated", "dir"}
  BY <1>3
<1>9. \A s \in S : unitOf[s] = u /\ loc[s] \notin {"generated", "dir"}
  BY <1>6
<1>10. FilesInv' /\ RunMoved(n, u, S)
  <2>1. UNCHANGED <<unitOf, resFiles>>
    BY <1>3
  <2>2. QED
    BY <1>2, <1>3, <1>4, <1>6, <1>7, <1>8, <1>8a, <1>9, <2>1, RunMoves, Zenon
<1>11. ASSUME NEW m \in Modes, NEW s \in Seeds PROVE SeedBound(m, s)'
  <2>1. PICK M, X, Y : M = merged[m][s] /\ X = LinesIn(tmpRes, m, s) /\ Y = LinesIn(left, m, s)
    OBVIOUS
  <2>2. M \in Nat /\ X \in Nat /\ Y \in Nat /\ stops \in Nat /\ m \in Nat
    BY <2>1, LinesType
  <2>3. /\ Y <= stops /\ X <= stops + 1
        /\ m = 0 /\ Unjudged(s) => M = 0 /\ X = 0
        /\ Within(stops, m, M, X, Y)
        /\ m > 0 /\ Pending(m, s) => Within(stops, m, M + 1, X, Y)
    BY <2>1 DEF QInv, BoundInv, SeedBound
  <2>4. Unjudged(s)' <=> Unjudged(s)
    BY <1>3 DEF Unjudged
  <2>5. Pending(m, s)' => Pending(m, s)
    <3>1. CASE unitOf[s] = u
      BY <1>0, <1>3, <1>4, <1>5, <2>2, <3>1 DEF Pending, Unjudged
    <3>2. CASE unitOf[s] # u
      BY <1>3, <1>5, <3>2 DEF Pending, Unjudged
    <3>3. QED
      BY <3>1, <3>2
  <2>6. merged'[m][s] = M /\ stops' = stops
    BY <1>3, <2>1
  <2>7. CASE m = n /\ unitOf[s] = u
    <3>1. X = 0 /\ LinesIn(left', m, s) = 0 /\ LinesIn(tmpRes', m, s) = Y + IF s \in S THEN 1 ELSE 0
      BY <1>10, <2>1, <2>7 DEF RunMoved
    <3>2. CASE s \in S
      <4>1. Pending(m, s)
        <5>1. loc[s] = "armpass" /\ child[unitOf[s]].mode = m /\ m <= m
          BY <1>0, <1>4, <1>6, <2>7, <3>2
        <5>2. QED
          BY <5>1 DEF Pending
      <4>2. ~Pending(m, s)'
        BY <1>3, <1>4, <1>5, <1>6, <2>7, <3>2 DEF Pending, Unjudged
      <4>3. Within(stops, m, M, Y + 1, 0)
        BY <1>4, <2>2, <2>3, <2>7, <3>1, <4>1 DEF Within
      <4>4. QED
        BY <1>4, <2>2, <2>3, <2>6, <2>7, <3>1, <3>2, <4>2, <4>3 DEF SeedBound
    <3>3. CASE s \notin S
      <4>1. Within(stops, m, M, Y, 0) /\ (Pending(m, s) => Within(stops, m, M + 1, Y, 0))
        BY <1>4, <2>2, <2>3, <2>7, <3>1 DEF Within
      <4>2. QED
        BY <1>4, <2>2, <2>3, <2>5, <2>6, <2>7, <3>1, <3>3, <4>1 DEF SeedBound
    <3>4. QED
      BY <3>2, <3>3
  <2>8. CASE ~(m = n /\ unitOf[s] = u)
    <3>1. LinesIn(tmpRes', m, s) = X /\ LinesIn(left', m, s) = Y
      BY <1>10, <2>1, <2>8 DEF RunMoved
    <3>2. QED
      BY <2>3, <2>4, <2>5, <2>6, <3>1 DEF SeedBound
  <2>9. QED
    BY <2>7, <2>8
<1>12. QED
  BY <1>3, <1>10, <1>11 DEF QInv, BoundInv

\* The process of a unit deletes it.
LEMMA CollectBound ==
  ASSUME RInv, RInv', QInv, NEW u \in Units, CollectAgain(u)
  PROVE  QInv'
<1>1. /\ UNCHANGED <<UNIT_NUM, unitOf, merged, resFiles, tmpRes, stops>> /\ Units' = Units
      /\ left' = {f \in left : f.unit # u} /\ stops' = stops
      /\ \A s \in Seeds :
           loc'[s] = IF s \in InUnit(u, "armfail") THEN "FAIL"
                     ELSE IF s \in InUnit(u, "armpass") THEN "PASS"
                     ELSE IF s \in InUnit(u, "unit") THEN "lost"
                     ELSE loc[s]
  BY DEF CollectAgain, Collect, unitVars, logVars, Units
<1>2. child \in [Units -> Child] /\ \A v \in Units : child'[v].mode = child[v].mode
  BY DEF CollectAgain, Collect, Child, RInv, TypeInv, TypeOK
<1>3. \A s \in Seeds : loc'[s] = loc[s] \/ loc'[s] \in {"PASS", "FAIL", "lost"}
  BY <1>1
<1>4. FilesInv'
  BY <1>1, <1>3 DEF QInv, FilesInv, Named, Placed, Started
<1>5. left \in SUBSET LogFile /\ left' \in SUBSET LogFile
  BY DEF RInv, LeftType
<1>6. Named(left') /\ Placed(left', unitOf)
  BY <1>1, <1>4 DEF FilesInv
<1>7. ASSUME NEW m \in Modes, NEW s \in Seeds PROVE SeedBound(m, s)'
  <2>1. PICK M, X, Y : M = merged[m][s] /\ X = LinesIn(tmpRes, m, s) /\ Y = LinesIn(left, m, s)
    OBVIOUS
  <2>2. M \in Nat /\ X \in Nat /\ Y \in Nat /\ stops \in Nat /\ m \in Nat
    BY <2>1, LinesType
  <2>3. /\ Y <= stops /\ X <= stops + 1
        /\ m = 0 /\ Unjudged(s) => M = 0 /\ X = 0
        /\ Within(stops, m, M, X, Y)
        /\ m > 0 /\ Pending(m, s) => Within(stops, m, M + 1, X, Y)
    BY <2>1 DEF QInv, BoundInv, SeedBound
  <2>4. (Unjudged(s)' => Unjudged(s)) /\ (Pending(m, s)' => Pending(m, s))
    BY <1>1, <1>2, <1>3 DEF Unjudged, Pending
  <2>5. LinesIn(left', m, s) \in {0, Y}
    <3>1. CASE unitOf[s] = u
      <4>1. \A f \in left' : ~(f.mode = m /\ f.unit = unitOf[s])
        BY <1>1, <3>1
      <4>2. QED
        BY <1>6, <4>1, LinesNone
    <3>2. CASE unitOf[s] # u
      <4>1. \A f : f.mode = m /\ f.unit = unitOf[s] => (f \in left' <=> f \in left)
        BY <1>1, <3>2
      <4>2. LinesIn(left', m, s) = LinesIn(left, m, s)
        BY <1>5, <1>6, <4>1, LinesSame DEF QInv, FilesInv
      <4>3. QED
        BY <2>1, <4>2
    <3>3. QED
      BY <3>1, <3>2
  <2>6. /\ Within(stops, m, M, X, Y) => Within(stops, m, M, X, 0)
        /\ Within(stops, m, M + 1, X, Y) => Within(stops, m, M + 1, X, 0)
    BY <2>2, Stopped DEF Within
  <2>7. merged'[m][s] = M /\ LinesIn(tmpRes', m, s) = X /\ stops' = stops
    BY <1>1, <2>1
  <2>8. QED
    BY <2>2, <2>3, <2>4, <2>5, <2>6, <2>7 DEF SeedBound
<1>8. QED
  BY <1>1, <1>4, <1>7 DEF QInv, BoundInv

\* A stop interrupts the run of the seed in mode m after its line was written.
Interrupted(m, s, L, U) ==
  \/ AtArm(m, unitOf[s]) /\ s \in L
  \/ AtUbt(m, unitOf[s]) /\ s \in U

\* The log of a unit holds one more line of the seed then.
LEMMA LeftAfterLines ==
  ASSUME RInv, QInv, NEW m \in Modes, NEW u, NEW S \in SUBSET Seeds, NEW f \in LeftAfter(m, u, S),
         NEW s \in Seeds
  PROVE  f.lines[s] = IF unitOf[s] = u THEN LinesIn(left, m, s) + (IF s \in S THEN 1 ELSE 0) ELSE 0
<1>1. f.lines = PlusLines(LeftLines(m, u), {t \in S : unitOf[t] = u})
  BY DEF LeftAfter, Log
<1>2. f.lines[s] = LeftLines(m, u)[s] + (IF s \in S /\ unitOf[s] = u THEN 1 ELSE 0)
  BY <1>1 DEF PlusLines
<1>3. LeftLines(m, u)[s] = IF unitOf[s] = u THEN LinesIn(left, m, s) ELSE 0
  BY LeftLinesIn DEF RInv, QInv
<1>4. LinesIn(left, m, s) \in Nat
  BY LinesType
<1>5. QED
  BY <1>2, <1>3, <1>4

\* There is one such log at most, and none when no seed has a line.
LEMMA LeftAfterLog ==
  ASSUME NEW m, NEW u, NEW S
  PROVE  /\ \A f, g \in LeftAfter(m, u, S) : f = g
         /\ \A f \in LeftAfter(m, u, S) : f.mode = m /\ f.unit = u
  BY DEF LeftAfter, Log

\* What a stop leaves in the units.
LEMMA StopFiles ==
  ASSUME RInv, RInv', QInv, NEW L \in SUBSET Seeds, NEW U \in SUBSET Seeds,
         \A s \in L \cup U : loc[s] \notin {"generated", "dir"},
         left' = LeftLogs(L, U), UNCHANGED unitOf,
         \A s \in Seeds : loc'[s] \in {"generated", "dir"} => loc[s] \in {"generated", "dir"}
  PROVE  Named(left') /\ Placed(left', unitOf) /\ Started(left)'
<1>1. TypeInv /\ LeftType /\ LeftType'
  BY DEF RInv
<1>2. \A m, u : NamedLog(left', m, u) =
                 IF AtArm(m, u) THEN LeftAfter(m, u, L)
                 ELSE IF AtUbt(m, u) THEN LeftAfter(m, u, U) ELSE LeftFile(m, u)
  BY <1>1, LeftLogsNamed
<1>3. ASSUME NEW f \in left'
      PROVE  \/ f \in LeftAfter(f.mode, f.unit, L)
             \/ f \in LeftAfter(f.mode, f.unit, U)
             \/ f \in left
  <2>1. f \in NamedLog(left', f.mode, f.unit)
    BY DEF NamedLog
  <2>2. QED
    BY <1>2, <2>1 DEF LeftFile
<1>4. Named(left')
  <2>1. SUFFICES ASSUME NEW f \in left', NEW g \in left', f.mode = g.mode, f.unit = g.unit PROVE f = g
    BY DEF Named
  <2>2. f \in NamedLog(left', f.mode, f.unit) /\ g \in NamedLog(left', f.mode, f.unit)
    BY <2>1 DEF NamedLog
  <2>3. \A h, k \in LeftFile(f.mode, f.unit) : h = k
    BY DEF LeftFile, QInv, FilesInv, Named
  <2>4. \A h, k \in LeftAfter(f.mode, f.unit, L) : h = k
    BY LeftAfterLog
  <2>5. \A h, k \in LeftAfter(f.mode, f.unit, U) : h = k
    BY LeftAfterLog
  <2>6. QED
    BY <1>2, <2>2, <2>3, <2>4, <2>5
<1>5. ASSUME NEW f \in left', NEW s \in Seeds, f.lines[s] > 0
      PROVE  f.unit = unitOf[s] /\ loc[s] \notin {"generated", "dir"}
  <2>1. f.mode \in Modes
    BY <1>1 DEF LeftType, LogFile
  <2>2. ASSUME NEW S \in SUBSET (L \cup U), f \in LeftAfter(f.mode, f.unit, S)
        PROVE  f.unit = unitOf[s] /\ loc[s] \notin {"generated", "dir"}
    <3>1. S \in SUBSET Seeds
      OBVIOUS
    <3>2. f.lines[s] = IF unitOf[s] = f.unit
                       THEN LinesIn(left, f.mode, s) + (IF s \in S THEN 1 ELSE 0) ELSE 0
      BY <2>1, <2>2, <3>1, LeftAfterLines
    <3>3. unitOf[s] = f.unit
      BY <1>5, <3>2
    <3>4. CASE s \in S
      BY <3>3, <3>4
    <3>5. CASE s \notin S
      <4>1. LinesIn(left, f.mode, s) \in Nat
        BY <2>1, LinesType
      <4>2. LinesIn(left, f.mode, s) > 0
        BY <1>5, <3>2, <3>3, <3>5, <4>1
      <4>3. HasLine(left, f.mode, s)
        BY <4>2 DEF LinesIn
      <4>4. QED
        BY <3>3, <4>3 DEF HasLine, QInv, FilesInv, Started
    <3>6. QED
      BY <3>4, <3>5
  <2>3. CASE f \in left
    BY <1>5, <2>3 DEF QInv, FilesInv, Placed, Started
  <2>4. QED
    BY <1>3, <2>2, <2>3
<1>6. Placed(left', unitOf)
  BY <1>5 DEF Placed
<1>7. Started(left)'
  BY <1>5 DEF Started
<1>8. QED
  BY <1>4, <1>6, <1>7

\* The lines of a seed in the log of its unit after a stop.
LEMMA StopLines ==
  ASSUME RInv, RInv', QInv, NEW L \in SUBSET Seeds, NEW U \in SUBSET Seeds,
         left' = LeftLogs(L, U), Named(left'), Placed(left', unitOf),
         NEW m \in Modes, NEW s \in Seeds
  PROVE  LinesIn(left', m, s) = LinesIn(left, m, s) + (IF Interrupted(m, s, L, U) THEN 1 ELSE 0)
<1>1. PICK u : u = unitOf[s]
  OBVIOUS
<1>2. TypeInv /\ LeftType /\ left \in SUBSET LogFile /\ left' \in SUBSET LogFile
  BY DEF RInv, LeftType
<1>3. Named(left) /\ Placed(left, unitOf) /\ LinesIn(left, m, s) \in Nat
  BY LinesType DEF QInv, FilesInv
<1>4. NamedLog(left', m, u) = IF AtArm(m, u) THEN LeftAfter(m, u, L)
                              ELSE IF AtUbt(m, u) THEN LeftAfter(m, u, U) ELSE LeftFile(m, u)
  BY <1>2, LeftLogsNamed
<1>5. Interrupted(m, s, L, U) <=> (AtArm(m, u) /\ s \in L) \/ (AtUbt(m, u) /\ s \in U)
  BY <1>1 DEF Interrupted
<1>6. ~(AtArm(m, u) /\ AtUbt(m, u))
  BY DEF AtArm, AtUbt
<1>7. ASSUME NEW S \in SUBSET Seeds, NamedLog(left', m, u) = LeftAfter(m, u, S)
      PROVE  LinesIn(left', m, s) = LinesIn(left, m, s) + (IF s \in S THEN 1 ELSE 0)
  <2>1. CASE LeftAfter(m, u, S) = {}
    <3>1. LinesIn(left', m, s) = 0
      <4>1. \A f \in left' : ~(f.mode = m /\ f.unit = unitOf[s])
        BY <1>1, <1>7, <2>1 DEF NamedLog
      <4>2. QED
        BY <4>1, LinesNone
    <3>2. PlusLines(LeftLines(m, u), {t \in S : unitOf[t] = u}) = NoLines
      BY <2>1 DEF LeftAfter, Log
    <3>3. LeftLines(m, u)[s] + (IF s \in S THEN 1 ELSE 0) = 0
      BY <1>1, <3>2 DEF PlusLines, NoLines
    <3>4. LeftLines(m, u)[s] = LinesIn(left, m, s)
      BY <1>1, <1>2, LeftLinesIn DEF QInv
    <3>5. QED
      BY <3>1, <3>3, <3>4
  <2>2. ASSUME NEW f \in LeftAfter(m, u, S)
        PROVE  LinesIn(left', m, s) = LinesIn(left, m, s) + (IF s \in S THEN 1 ELSE 0)
    <3>1. f \in left' /\ f.mode = m /\ f.unit = unitOf[s]
      BY <1>1, <1>7 DEF NamedLog
    <3>2. LinesIn(left', f.mode, s) = f.lines[s]
      BY <1>2, <3>1, LinesAt
    <3>3. f.lines[s] = IF unitOf[s] = u THEN LinesIn(left, m, s) + (IF s \in S THEN 1 ELSE 0) ELSE 0
      BY LeftAfterLines
    <3>4. QED
      BY <1>1, <3>1, <3>2, <3>3
  <2>3. QED
    BY <2>1, <2>2
<1>8. CASE AtArm(m, u)
  BY <1>4, <1>5, <1>6, <1>7, <1>8
<1>9. CASE AtUbt(m, u)
  BY <1>4, <1>5, <1>6, <1>7, <1>9
<1>10. CASE ~AtArm(m, u) /\ ~AtUbt(m, u)
  <2>1. NamedLog(left', m, u) = LeftFile(m, u)
    BY <1>4, <1>10
  <2>2. \A f : f.mode = m /\ f.unit = unitOf[s] => (f \in left' <=> f \in left)
    BY <1>1, <2>1 DEF LeftFile, NamedLog
  <2>3. LinesIn(left', m, s) = LinesIn(left, m, s)
    <3>1. PICK F, G : F = left' /\ G = left
      OBVIOUS
    <3>2. F \in SUBSET LogFile /\ G \in SUBSET LogFile
      BY <1>2, <3>1
    <3>3. Named(F) /\ Placed(F, unitOf) /\ Named(G) /\ Placed(G, unitOf)
      BY <1>3, <3>1
    <3>4. \A f : f.mode = m /\ f.unit = unitOf[s] => (f \in F <=> f \in G)
      BY <2>2, <3>1
    <3>5. LinesIn(F, m, s) = LinesIn(G, m, s)
      BY <3>2, <3>3, <3>4, LinesSame
    <3>6. QED
      BY <3>1, <3>5
  <2>4. QED
    BY <1>3, <1>5, <1>10, <2>3
<1>11. QED
  BY <1>8, <1>9, <1>10

\* The merge that a stop interrupts has at most added the lines in TMP_RES.
LEMMA StopMerged ==
  ASSUME RInv, QInv, Restart, NEW m \in Modes, NEW s \in Seeds
  PROVE  merged'[m][s] \in {merged[m][s], merged[m][s] + LinesIn(tmpRes, m, s)}
<1>1. CASE UNCHANGED merged
  BY <1>1
<1>2. ASSUME NEW f \in resFiles, NEW A \in SUBSET {t \in Seeds : f.lines[t] > 0}, MergeStopped(f, A)
      PROVE  merged'[m][s] \in {merged[m][s], merged[m][s] + LinesIn(tmpRes, m, s)}
  <2>1. f.mode \in Modes /\ f.lines[s] \in Nat /\ merged \in [Modes -> [Seeds -> Nat]]
    BY DEF RInv, TypeInv, TypeOK, LogFile
  <2>2. merged'[m][s] = IF m = f.mode THEN merged[m][s] + (IF s \in A THEN f.lines[s] ELSE 0)
                        ELSE merged[m][s]
    BY <1>2, <2>1 DEF MergeStopped
  <2>3. CASE m = f.mode /\ s \in A
    <3>1. LinesIn(tmpRes, m, s) = f.lines[s]
      BY <2>3, LinesMerged
    <3>2. QED
      BY <2>2, <2>3, <3>1
  <2>4. CASE ~(m = f.mode /\ s \in A)
    <3>1. merged[m][s] \in Nat
      BY <2>1
    <3>2. QED
      BY <2>2, <2>4, <3>1
  <2>5. QED
    BY <2>3, <2>4
<1>3. QED
  BY <1>1, <1>2 DEF Restart

\* How the bound grows with a stop: of the device's lines ...
LEMMA StopDevice ==
  ASSUME NEW n \in Nat, NEW M \in Nat, NEW X \in Nat, NEW Y \in Nat, Y <= n, X <= n + 1,
         Within(n, 0, M, X, Y)
  PROVE  Within(n + 1, 0, M, X, Y) /\ Within(n + 1, 0, M + X, X, Y) /\ Within(n + 1, 0, 0, 0, Y + 1)
<1>1. PICK p : p = n * (n + 1)
  OBVIOUS
<1>2. p \in Nat /\ (n + 1) * ((n + 1) + 1) = p + 2 * n + 2
  BY <1>1, Stopped
<1>3. 2 * (M + X + Y) <= 2 + p
  BY <1>1, <1>2 DEF Within
<1>4. /\ 2 * (M + X + Y) <= 2 + (p + 2 * n + 2)
      /\ 2 * ((M + X) + X + Y) <= 2 + (p + 2 * n + 2)
      /\ 2 * (0 + 0 + (Y + 1)) <= 2 + (p + 2 * n + 2)
  BY <1>2, <1>3
<1>5. QED
  BY <1>2, <1>4 DEF Within

\* ... and of a translator's.
LEMMA StopTranslator ==
  ASSUME NEW n \in Nat, NEW m \in Nat \ {0}, NEW M \in Nat, NEW X \in Nat, NEW Y \in Nat, X <= n + 1
  PROVE  /\ Within(n, m, M, X, Y) =>
              /\ Within(n + 1, m, M + 1, X, Y) /\ Within(n + 1, m, (M + X) + 1, X, Y)
         /\ Within(n, m, M + 1, X, Y) =>
              /\ Within(n + 1, m, M + 1, X, Y + 1) /\ Within(n + 1, m, (M + X) + 1, X, Y + 1)
         /\ \A N \in Nat, Z \in Nat : Within(n + 1, m, N + 1, X, Z) => Within(n + 1, m, N, X, Z)
<1>1. PICK p : p = n * (n + 1)
  OBVIOUS
<1>2. p \in Nat /\ (n + 1) * ((n + 1) + 1) = p + 2 * n + 2
  BY <1>1, Stopped
<1>3. \A N \in Nat, Z \in Nat : Within(n, m, N, X, Z) <=> 2 * (N + X + Z) <= 2 + p + 2 * n
  BY <1>1, <1>2 DEF Within
<1>4. \A N \in Nat, Z \in Nat :
        Within(n + 1, m, N, X, Z) <=> 2 * (N + X + Z) <= 2 + p + 2 * n + 2 + 2 * n + 2
  BY <1>2 DEF Within
<1>5. QED
  BY <1>2, <1>3, <1>4

\* A stop keeps the bounds.
LEMMA RestartBound ==
  ASSUME RInv, RInv', QInv, Restart
  PROVE  QInv'
<1>1. /\ Units' = {} /\ resFiles' = {} /\ UNCHANGED <<unitOf, tmpRes>>
      /\ \A s \in Seeds :
           \/ loc'[s] = loc[s]
           \/ /\ loc[s] \in {"unit", "armpass", "armfail"}
              /\ loc'[s] \in {"armpass", "armfail", "PASS", "FAIL"}
  BY RestartEffect DEF RInv
<1>2. PICK L \in SUBSET At("arm", "unit"), U \in SUBSET At("ubt", "armpass") : left' = LeftLogs(L, U)
  BY Zenon DEF Restart
<1>3. /\ L \in SUBSET Seeds /\ U \in SUBSET Seeds
      /\ \A s \in L : loc[s] = "unit"
      /\ \A s \in U : loc[s] = "armpass"
  BY DEF At
<1>4. \A s \in Seeds : loc'[s] \in {"generated", "dir"} => loc[s] \in {"generated", "dir"}
  BY <1>1
<1>5. \A s \in L \cup U : loc[s] \notin {"generated", "dir"}
  BY <1>3
<1>6. Named(left') /\ Placed(left', unitOf) /\ Started(left)'
  BY <1>1, <1>2, <1>3, <1>4, <1>5, StopFiles
<1>7. FilesInv'
  BY <1>1, <1>4, <1>6 DEF QInv, FilesInv, Named, Placed, Started
<1>8. stops' = stops + 1 /\ stops \in Nat
  BY DEF Restart, QInv
<1>9. ASSUME NEW m \in Modes, NEW s \in Seeds PROVE SeedBound(m, s)'
  <2>1. PICK M, X, Y : M = merged[m][s] /\ X = LinesIn(tmpRes, m, s) /\ Y = LinesIn(left, m, s)
    OBVIOUS
  <2>2. M \in Nat /\ X \in Nat /\ Y \in Nat /\ stops \in Nat /\ m \in Nat
    BY <2>1, LinesType
  <2>3. /\ Y <= stops /\ X <= stops + 1
        /\ m = 0 /\ Unjudged(s) => M = 0 /\ X = 0
        /\ Within(stops, m, M, X, Y)
        /\ m > 0 /\ Pending(m, s) => Within(stops, m, M + 1, X, Y)
    BY <2>1 DEF QInv, BoundInv, SeedBound
  <2>4. Unjudged(s)' => Unjudged(s)
    BY <1>1 DEF Unjudged
  <2>5. PICK N, Z : N = merged'[m][s] /\ Z = LinesIn(left', m, s)
    OBVIOUS
  <2>6. N \in {M, M + X} /\ N \in Nat
    BY <2>1, <2>2, <2>5, StopMerged
  <2>7. Z = Y + (IF Interrupted(m, s, L, U) THEN 1 ELSE 0)
    BY <1>2, <1>3, <1>6, <2>1, <2>5, StopLines
  <2>8. LinesIn(tmpRes', m, s) = X
    BY <1>1, <2>1
  <2>9. Z \in Nat /\ Z <= stops + 1 /\ X <= (stops + 1) + 1
    BY <2>2, <2>3, <2>7
  <2>10. CASE m = 0
    <3>1. Interrupted(m, s, L, U) => M = 0 /\ X = 0
      BY <1>3, <2>2, <2>3, <2>10 DEF Interrupted, AtArm, AtUbt, Unjudged, RInv, TypeInv, TypeOK, Child
    <3>2. Within(stops + 1, m, N, X, Z)
      <4>1. CASE Interrupted(m, s, L, U)
        <5>1. N = 0 /\ X = 0 /\ Z = Y + 1
          BY <2>2, <2>6, <2>7, <3>1, <4>1
        <5>2. Within(stops + 1, 0, 0, 0, Y + 1)
          BY <2>2, <2>3, <2>10, StopDevice
        <5>3. QED
          BY <2>10, <5>1, <5>2
      <4>2. CASE ~Interrupted(m, s, L, U)
        <5>1. Z = Y
          BY <2>2, <2>7, <4>2
        <5>2. Within(stops + 1, 0, M, X, Y) /\ Within(stops + 1, 0, M + X, X, Y)
          BY <2>2, <2>3, <2>10, StopDevice
        <5>3. QED
          BY <2>6, <2>10, <5>1, <5>2
      <4>3. QED
        BY <4>1, <4>2
    <3>3. Unjudged(s)' => N = 0 /\ X = 0
      BY <2>2, <2>3, <2>4, <2>6, <2>10
    <3>4. QED
      BY <1>8, <2>5, <2>8, <2>9, <2>10, <3>2, <3>3 DEF SeedBound
  <2>11. CASE m # 0
    <3>1. m \in Nat \ {0}
      BY <2>2, <2>11
    <3>2. Interrupted(m, s, L, U) => Pending(m, s)
      BY <1>3, <2>2, <2>11 DEF Interrupted, AtArm, AtUbt, Pending
    <3>3. Within(stops + 1, m, N + 1, X, Z)
      <4>1. CASE Interrupted(m, s, L, U)
        <5>1. Z = Y + 1 /\ Within(stops, m, M + 1, X, Y)
          BY <2>2, <2>3, <2>7, <3>1, <3>2, <4>1
        <5>2. /\ Within(stops + 1, m, M + 1, X, Y + 1)
              /\ Within(stops + 1, m, (M + X) + 1, X, Y + 1)
          BY <2>2, <2>3, <3>1, <5>1, StopTranslator
        <5>3. QED
          BY <2>6, <5>1, <5>2
      <4>2. CASE ~Interrupted(m, s, L, U)
        <5>1. Z = Y
          BY <2>2, <2>7, <4>2
        <5>2. Within(stops + 1, m, M + 1, X, Y) /\ Within(stops + 1, m, (M + X) + 1, X, Y)
          BY <2>2, <2>3, <3>1, StopTranslator
        <5>3. QED
          BY <2>6, <5>1, <5>2
      <4>3. QED
        BY <4>1, <4>2
    <3>4. Within(stops + 1, m, N, X, Z)
      BY <2>2, <2>3, <2>6, <2>9, <3>1, <3>3, StopTranslator
    <3>5. QED
      BY <1>8, <2>5, <2>8, <2>9, <2>11, <3>3, <3>4 DEF SeedBound
  <2>12. QED
    BY <2>10, <2>11
<1>10. QED
  BY <1>7, <1>8, <1>9 DEF QInv, BoundInv

\* QInv is an invariant of the verifier with restarts.
LEMMA BoundInvariant == RSpec => []QInv
<1>1. RInv /\ RInv' /\ KInv /\ QInv /\ [RNext]_allVars => QInv'
  <2> SUFFICES ASSUME RInv, RInv', KInv, QInv, [RNext]_allVars PROVE QInv'
    OBVIOUS
  <2>1. CASE UNCHANGED allVars
    BY <2>1, ParentBound DEF allVars
  <2>2. CASE (Task \/ Parent) /\ UNCHANGED <<left, stops>>
    BY <2>2, ParentBound
  <2>3. ASSUME NEW u \in Units, ReadAdb(u) \/ ReadAdbAgain(u), UNCHANGED <<left, stops>> PROVE QInv'
    BY <2>3, ParentBound
  <2>4. ASSUME NEW u \in Units, RunOnArmAgain(u) \/ RunOnUbtAgain(u) \/ CollectAgain(u) PROVE QInv'
    BY <2>4, ArmBound, UbtBound, CollectBound
  <2>5. QED
    BY <2>1, <2>2, <2>3, <2>4, RestartBound DEF RNext
<1>2. QED
  BY <1>1, InitBound, RestartInvariant, KeptInvariant, PTL DEF RSpec

\* However often the script is stopped and wherever, the lines of a seed are
\* repeated at most so often: quadratically in the number of stops
\* (local_verify.pl:126-133, run_on_ARM.pl:125, run_on_UBT.pl:88).
THEOREM RestartRepeats == RSpec => []RepeatsBounded
<1>1. RInv /\ QInv => RepeatsBounded
  <2> SUFFICES ASSUME RInv, QInv, NEW s \in Seeds, NEW m \in Modes
               PROVE  /\ OneLog(tmpRes, m, s) /\ OneLog(left, m, s)
                      /\ Within(stops, m, merged[m][s], LinesIn(tmpRes, m, s), LinesIn(left, m, s))
    BY DEF RepeatsBounded, Within
  <2>1. OneLog(tmpRes, m, s) /\ OneLog(left, m, s)
    BY LogOfSeed DEF QInv, FilesInv
  <2>2. QED
    BY <2>1 DEF QInv, BoundInv, SeedBound
<1>2. QED
  BY <1>1, BoundInvariant, RestartInvariant, PTL
=============================================================================
