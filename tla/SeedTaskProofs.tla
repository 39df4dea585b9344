---------------------------- MODULE SeedTaskProofs ----------------------------
(***************************************************************************)
(* Proofs about SeedTask, for any number of seeds and modes and any        *)
(* options.                                                                *)
(***************************************************************************)
EXTENDS SeedTask, FiniteSetTheorems, TLAPS

USE ConstantsAssumption DEF genVars, procVars, endVars

\* The loop has counted at most the seeds before the current one, and has not
\* touched the later ones.
LoopInv ==
  /\ SUCC_NUM < i
  /\ covFailed \subseteq 1 .. (i - 1)
  /\ \A s \in Seeds : s >= i => place[s] = "none" /\ binOf[s] = 0 /\ errSrc[s] = 0
  /\ pc # "loop" => i > SEED_NUM

TypeInv == TypeOK /\ LoopInv

\* The variables start with their types.
LEMMA InitType == Init => TypeInv
<1> SUFFICES ASSUME Init PROVE TypeInv
  OBVIOUS
<1>1. /\ i \in 1 .. (SEED_NUM + 1) /\ m \in 1 .. (LastMode + 1)
      /\ tmpS \in 0 .. SEED_NUM /\ tmpBin \in 0 .. SEED_NUM /\ SUCC_NUM \in 0 .. SEED_NUM
      /\ binOf \in [Seeds -> 0 .. SEED_NUM] /\ errSrc \in [Seeds -> 0 .. SEED_NUM]
  BY DEF Init
<1>2. lines \in [Seeds -> [Modes -> {"none", "pass", "fail"}]]
  BY DEF Init
<1>3. LoopInv
  BY DEF Init, LoopInv, Seeds
<1>4. /\ failseed \in BOOLEAN /\ done \in BOOLEAN
      /\ removed \in BOOLEAN /\ aborted \in BOOLEAN
  BY DEF Init
<1> QED
  BY <1>1, <1>2, <1>3, <1>4 DEF Init, TypeInv, TypeOK

\* Every step preserves the types.
LEMMA TypeStep == TypeInv /\ [Next]_vars => TypeOK'
<1> SUFFICES ASSUME TypeInv, [Next]_vars PROVE TypeOK'
  OBVIOUS
<1> USE DEF TypeInv, TypeOK, LoopInv, Seeds, Modes
<1>0. CASE UNCHANGED vars
  BY <1>0 DEF vars
<1>1. ASSUME NEW src \in 0 .. SEED_NUM, ArtFails(src)
      PROVE  TypeOK'
  BY <1>1 DEF ArtFails, DropSeed, Generating
<1>2. CASE VerifyFails
  BY <1>2 DEF VerifyFails, DropSeed, Generating
<1>3. CASE CovFails
  BY <1>3 DEF CovFails, Generating
<1>4. CASE Generated
  BY <1>4 DEF Generated, Generating
<1>5. CASE ExitUntested
  BY <1>5 DEF ExitUntested, RemoveSeedDir
<1>6. CASE MakeFailDir
  BY <1>6 DEF MakeFailDir
<1>7. ASSUME NEW s \in Seeds, ProcessSeed(s)
      PROVE  TypeOK'
  <2>1. place' \in [Seeds -> {"none", "TMP", "test", "DEST", "FAIL_DIR", "SEED_DIR", "deleted"}]
    BY <1>7 DEF ProcessSeed
  <2>2. m' \in 1 .. (LastMode + 1)
    BY <1>7 DEF ProcessSeed
  <2>3. failseed' \in BOOLEAN
    BY <1>7 DEF ProcessSeed
  <2> QED
    BY <1>7, <2>1, <2>2, <2>3 DEF ProcessSeed
<1>8. ASSUME NEW s \in Seeds, NEW res \in {"pass", "fail"}, RunMode(s, res)
      PROVE  TypeOK'
  BY <1>8 DEF RunMode
<1>9. ASSUME NEW s \in Seeds, Dispose(s)
      PROVE  TypeOK'
  BY <1>9 DEF Dispose
<1>10. CASE Abort
  BY <1>10 DEF Abort
<1>11. CASE Processed
  BY <1>11 DEF Processed
<1>12. CASE TestDone
  BY <1>12 DEF TestDone
<1>13. CASE CleanUp
  BY <1>13 DEF CleanUp, RemoveSeedDir
<1>14. CASE WriteDone
  BY <1>14 DEF WriteDone
<1> QED
  BY <1>0, <1>1, <1>2, <1>3, <1>4, <1>5, <1>6, <1>7, <1>8, <1>9, <1>10, <1>11,
     <1>12, <1>13, <1>14
  DEF Next, Generate, Process, Exited

\* Every step keeps the loop's account of the seeds it has seen.
LEMMA LoopStep == TypeInv /\ [Next]_vars => LoopInv'
<1> SUFFICES ASSUME TypeInv, [Next]_vars PROVE LoopInv'
  OBVIOUS
<1> USE DEF TypeInv, TypeOK, LoopInv, Seeds
<1>0. CASE UNCHANGED vars
  BY <1>0 DEF vars
<1>1. ASSUME NEW src \in 0 .. SEED_NUM, ArtFails(src)
      PROVE  LoopInv'
  BY <1>1 DEF ArtFails, DropSeed, Generating
<1>2. CASE VerifyFails
  BY <1>2 DEF VerifyFails, DropSeed, Generating
<1>3. CASE CovFails
  BY <1>3 DEF CovFails, Generating
<1>4. CASE Generated
  BY <1>4 DEF Generated, Generating
<1>5. CASE ExitUntested
  BY <1>5 DEF ExitUntested, RemoveSeedDir
<1>6. CASE MakeFailDir
  BY <1>6 DEF MakeFailDir
<1>7. ASSUME NEW s \in Seeds, ProcessSeed(s)
      PROVE  LoopInv'
  BY <1>7 DEF ProcessSeed
<1>8. ASSUME NEW s \in Seeds, NEW res \in {"pass", "fail"}, RunMode(s, res)
      PROVE  LoopInv'
  BY <1>8 DEF RunMode
<1>9. ASSUME NEW s \in Seeds, Dispose(s)
      PROVE  LoopInv'
  BY <1>9 DEF Dispose
<1>10. CASE Abort
  BY <1>10 DEF Abort
<1>11. CASE Processed
  BY <1>11 DEF Processed
<1>12. CASE TestDone
  BY <1>12 DEF TestDone
<1>13. CASE CleanUp
  BY <1>13 DEF CleanUp, RemoveSeedDir
<1>14. CASE WriteDone
  BY <1>14 DEF WriteDone
<1> QED
  BY <1>0, <1>1, <1>2, <1>3, <1>4, <1>5, <1>6, <1>7, <1>8, <1>9, <1>10, <1>11,
     <1>12, <1>13, <1>14
  DEF Next, Generate, Process, Exited

\* A program has the name it was generated for; tmp_seed.s survives a turn of
\* the loop only with option -r or after a failed coverage run.
NameInv ==
  /\ \A s \in Seeds :
       \/ place[s] = "none" /\ binOf[s] = 0
       \/ place[s] # "none" /\ binOf[s] = s
  /\ opt.REMOVE \/ tmpS = 0 \/ tmpS \in covFailed
  /\ \A s \in Seeds :
       \/ errSrc[s] \in {0, s}
       \/ errSrc[s] \in covFailed

\* Every step preserves it.
LEMMA NameStep == TypeInv /\ NameInv /\ [Next]_vars => NameInv'
<1> SUFFICES ASSUME TypeInv, NameInv, [Next]_vars PROVE NameInv'
  OBVIOUS
<1> USE DEF TypeInv, TypeOK, LoopInv, NameInv, Seeds
<1>0. CASE UNCHANGED vars
  BY <1>0 DEF vars
<1>1. ASSUME NEW src \in 0 .. SEED_NUM, ArtFails(src)
      PROVE  NameInv'
  BY <1>1 DEF ArtFails, DropSeed, Generating
<1>2. CASE VerifyFails
  BY <1>2 DEF VerifyFails, DropSeed, Generating
<1>3. CASE CovFails
  BY <1>3 DEF CovFails, Generating
<1>4. CASE Generated
  BY <1>4 DEF Generated, Generating
<1>5. CASE ExitUntested
  BY <1>5 DEF ExitUntested, RemoveSeedDir
<1>6. CASE MakeFailDir
  BY <1>6 DEF MakeFailDir
<1>7. ASSUME NEW s \in Seeds, ProcessSeed(s)
      PROVE  NameInv'
  BY <1>7 DEF ProcessSeed
<1>8. ASSUME NEW s \in Seeds, NEW res \in {"pass", "fail"}, RunMode(s, res)
      PROVE  NameInv'
  BY <1>8 DEF RunMode
<1>9. ASSUME NEW s \in Seeds, Dispose(s)
      PROVE  NameInv'
  BY <1>9 DEF Dispose
<1>10. CASE Abort
  BY <1>10 DEF Abort
<1>11. CASE Processed
  BY <1>11 DEF Processed
<1>12. CASE TestDone
  BY <1>12 DEF TestDone
<1>13. CASE CleanUp
  BY <1>13 DEF CleanUp, RemoveSeedDir
<1>14. CASE WriteDone
  BY <1>14 DEF WriteDone
<1> QED
  BY <1>0, <1>1, <1>2, <1>3, <1>4, <1>5, <1>6, <1>7, <1>8, <1>9, <1>10, <1>11,
     <1>12, <1>13, <1>14
  DEF Next, Generate, Process, Exited

Reporting == pc \in {"report", "cleanup", "handover"} \/ (pc = "exit" /\ opt.EXE)

\* How far the tests have come.
StageInv ==
  /\ pc \in {"process", "modes", "report", "cleanup", "handover"} => opt.EXE
  /\ done => pc = "exit" /\ opt.EXE
  /\ aborted => Reporting
  /\ \A s \in Seeds : place[s] = "test" => pc = "modes"
  /\ \A s, t \in Seeds : place[s] = "test" /\ place[t] = "test" => s = t
  /\ Reporting /\ ~aborted => \A s \in Seeds : place[s] # "TMP"
  /\ pc = "loop" => \A s \in Seeds : place[s] \in {"none", "TMP"}

\* Every step preserves it.
LEMMA StageStep == TypeInv /\ StageInv /\ [Next]_vars => StageInv'
<1> SUFFICES ASSUME TypeInv, StageInv, [Next]_vars PROVE StageInv'
  OBVIOUS
<1> USE DEF TypeInv, TypeOK, LoopInv, StageInv, Reporting
<1>0. CASE UNCHANGED vars
  BY <1>0 DEF vars
<1>1. ASSUME NEW src \in 0 .. SEED_NUM, ArtFails(src)
      PROVE  StageInv'
  BY <1>1 DEF ArtFails, DropSeed, Generating
<1>2. CASE VerifyFails
  BY <1>2 DEF VerifyFails, DropSeed, Generating
<1>3. CASE CovFails
  BY <1>3 DEF CovFails, Generating
<1>4. CASE Generated
  BY <1>4 DEF Generated, Generating
<1>5. CASE ExitUntested
  BY <1>5 DEF ExitUntested, RemoveSeedDir
<1>6. CASE MakeFailDir
  BY <1>6 DEF MakeFailDir
<1>7. ASSUME NEW s \in Seeds, ProcessSeed(s)
      PROVE  StageInv'
  BY <1>7 DEF ProcessSeed
<1>8. ASSUME NEW s \in Seeds, NEW res \in {"pass", "fail"}, RunMode(s, res)
      PROVE  StageInv'
  BY <1>8 DEF RunMode
<1>9. ASSUME NEW s \in Seeds, Dispose(s)
      PROVE  StageInv'
  BY <1>9 DEF Dispose
<1>10. CASE Abort
  BY <1>10 DEF Abort
<1>11. CASE Processed
  BY <1>11 DEF Processed
<1>12. CASE TestDone
  BY <1>12 DEF TestDone
<1>13. CASE CleanUp
  BY <1>13 DEF CleanUp, RemoveSeedDir
<1>14. CASE WriteDone
  BY <1>14 DEF WriteDone
<1> QED
  BY <1>0, <1>1, <1>2, <1>3, <1>4, <1>5, <1>6, <1>7, <1>8, <1>9, <1>10, <1>11,
     <1>12, <1>13, <1>14
  DEF Next, Generate, Process, Exited

\* What the log says of a seed, by the place of the seed.
LogInv ==
  \A s \in Seeds :
    /\ place[s] = "none" \/ (place[s] = "TMP" /\ ~aborted) =>
         \A k \in Modes : lines[s][k] = "none"
    /\ place[s] = "test" =>
         /\ \A k \in Modes : lines[s][k] = "none" <=> k >= m
         /\ failseed <=> Failing(s)
    /\ place[s] \in {"FAIL_DIR", "SEED_DIR"} => Tested(s) /\ Failing(s)
    /\ place[s] = "FAIL_DIR" => opt.absFail
    /\ place[s] = "SEED_DIR" => ~opt.absFail
    /\ place[s] = "DEST" => Tested(s) /\ ~Failing(s)
    /\ place[s] = "deleted" /\ opt.EXE /\ ~aborted =>
         Tested(s) /\ (opt.absFail => ~Failing(s))

\* Every step preserves it.
LEMMA LogStep == TypeInv /\ StageInv /\ LogInv /\ [Next]_vars => LogInv'
<1> SUFFICES ASSUME TypeInv, StageInv, LogInv, [Next]_vars PROVE LogInv'
  OBVIOUS
<1> USE DEF TypeInv, TypeOK, LoopInv, StageInv, Reporting, LogInv, Tested, Failing
<1>0. CASE UNCHANGED vars
  BY <1>0 DEF vars
<1>1. ASSUME NEW src \in 0 .. SEED_NUM, ArtFails(src)
      PROVE  LogInv'
  BY <1>1 DEF ArtFails, DropSeed, Generating
<1>2. CASE VerifyFails
  BY <1>2 DEF VerifyFails, DropSeed, Generating
<1>3. CASE CovFails
  BY <1>3 DEF CovFails, Generating
<1>4. CASE Generated
  BY <1>4 DEF Generated, Generating
<1>5. CASE ExitUntested
  BY <1>5 DEF ExitUntested, RemoveSeedDir
<1>6. CASE MakeFailDir
  BY <1>6 DEF MakeFailDir
<1>7. ASSUME NEW s \in Seeds, ProcessSeed(s)
      PROVE  LogInv'
  <2>1. /\ place[s] = "TMP" /\ place'[s] = "test" /\ m' = 1
        /\ lines' = lines /\ aborted' = aborted /\ opt' = opt /\ failseed' = FALSE
        /\ \A t \in Seeds \ {s} : place'[t] = place[t] /\ place[t] # "test"
    BY <1>7 DEF ProcessSeed
  <2>2. ~aborted
    BY <1>7 DEF ProcessSeed
  <2>3. \A k \in Modes : lines[s][k] = "none"
    BY <2>1, <2>2
  <2>4. \A k \in Modes : k >= m'
    BY <2>1 DEF Modes
  <2>5. ~Failing(s)
    BY <2>3
  <2> QED
    BY <2>1, <2>2, <2>3, <2>4, <2>5
<1>8. ASSUME NEW s \in Seeds, NEW res \in {"pass", "fail"}, RunMode(s, res)
      PROVE  LogInv'
  <2>1. /\ place[s] = "test" /\ m \in Modes /\ m' = m + 1 /\ place' = place
        /\ opt' = opt /\ aborted' = aborted
        /\ failseed' <=> (failseed \/ res = "fail")
    BY <1>8 DEF RunMode, Modes
  <2>2. /\ lines'[s] = [lines[s] EXCEPT ![m] = res]
        /\ \A t \in Seeds \ {s} : lines'[t] = lines[t] /\ place[t] # "test"
    BY <1>8 DEF RunMode
  <2>3. /\ lines'[s][m] = res
        /\ \A k \in Modes \ {m} : lines'[s][k] = lines[s][k]
    BY <2>1, <2>2
  <2>4. lines[s][m] = "none"
    BY <2>1 DEF Modes
  <2>5. \A k \in Modes : lines'[s][k] = "none" <=> k >= m'
    BY <2>1, <2>3 DEF Modes
  <2>6. failseed' <=> Failing(s)'
    BY <2>1, <2>3, <2>4
  <2> QED
    BY <2>1, <2>2, <2>5, <2>6
<1>9. ASSUME NEW s \in Seeds, Dispose(s)
      PROVE  LogInv'
  <2>1. /\ place[s] = "test" /\ m = LastMode + 1 /\ lines' = lines
        /\ opt' = opt /\ aborted' = aborted
        /\ \A t \in Seeds \ {s} : place'[t] = place[t] /\ place[t] # "test"
        /\ failseed => place'[s] = IF opt.absFail THEN "FAIL_DIR" ELSE "SEED_DIR"
        /\ ~failseed => place'[s] \in {"deleted", "DEST"}
    BY <1>9 DEF Dispose
  <2>2. Tested(s) /\ (failseed <=> Failing(s))
    BY <2>1 DEF Modes
  <2> QED
    BY <2>1, <2>2
<1>10. CASE Abort
  BY <1>10 DEF Abort
<1>11. CASE Processed
  BY <1>11 DEF Processed
<1>12. CASE TestDone
  BY <1>12 DEF TestDone
<1>13. CASE CleanUp
  BY <1>13 DEF CleanUp, RemoveSeedDir
<1>14. CASE WriteDone
  BY <1>14 DEF WriteDone
<1> QED
  BY <1>0, <1>1, <1>2, <1>3, <1>4, <1>5, <1>6, <1>7, <1>8, <1>9, <1>10, <1>11,
     <1>12, <1>13, <1>14
  DEF Next, Generate, Process, Exited

\* The names of the seeds and what rit.log says of them.
IndInv == TypeInv /\ NameInv /\ StageInv /\ LogInv

\* IndInv holds in every reachable state.
LEMMA Inductive == Spec => []IndInv
<1>1. Init => IndInv
  <2> SUFFICES ASSUME Init PROVE NameInv /\ StageInv /\ LogInv
    BY InitType DEF IndInv
  <2>1. NameInv
    BY DEF Init, NameInv
  <2>2. StageInv
    BY DEF Init, StageInv, Reporting
  <2>3. LogInv
    BY DEF Init, LogInv
  <2> QED
    BY <2>1, <2>2, <2>3
<1>2. IndInv /\ [Next]_vars => IndInv'
  BY TypeStep, LoopStep, NameStep, StageStep, LogStep DEF IndInv, TypeInv
<1> QED
  BY <1>1, <1>2, PTL DEF Spec

-----------------------------------------------------------------------------
\* Type correctness of the task.
THEOREM TaskTypes == Spec => []TypeOK
<1>1. IndInv => TypeOK
  BY DEF IndInv, TypeInv
<1> QED
  BY <1>1, Inductive, PTL

\* No failure of art.py, of the verification or of the coverage run makes the
\* task test a program under another seed's name (gen_run_seeds.pl:191-243).
THEOREM TaskNames == Spec => []NamesOwn
<1>1. IndInv => NamesOwn
  BY DEF IndInv, NameInv, NamesOwn
<1> QED
  BY <1>1, Inductive, PTL

\* Where a seed ends up agrees with its lines in rit.log
\* (process_seeds.py:45-141).
THEOREM TaskLogs == Spec => []LogAgrees
<1>1. IndInv => LogAgrees
  BY DEF IndInv, LogInv, LogAgrees
<1> QED
  BY <1>1, Inductive, PTL

\* Done is written only when every generated seed was tested and every
\* failing one is in the directory (gen_run_seeds.pl:264-282).
THEOREM TaskDone == Spec => []DoneComplete
<1>1. IndInv => DoneComplete
  <2> SUFFICES ASSUME IndInv, done, ~aborted, NEW s \in Seeds
               PROVE  /\ binOf[s] # 0 => Tested(s)
                      /\ Failing(s) /\ opt.absFail => place[s] = "FAIL_DIR"
    BY DEF DoneComplete
  <2>1. opt.EXE /\ place[s] \notin {"TMP", "test"}
    BY DEF IndInv, StageInv, Reporting
  <2>2. place[s] \in {"none", "DEST", "FAIL_DIR", "SEED_DIR", "deleted"}
    BY <2>1 DEF IndInv, TypeInv, TypeOK
  <2>3. place[s] = "none" => binOf[s] = 0 /\ ~Failing(s)
    BY DEF IndInv, NameInv, LogInv, Failing
  <2> QED
    BY <2>1, <2>2, <2>3 DEF IndInv, LogInv
<1> QED
  BY <1>1, Inductive, PTL

-----------------------------------------------------------------------------
\* The directory of failing seeds, from the point of view of the task.
DirInv ==
  /\ pc = "loop" => failAt = "none"
  /\ pc \in {"process", "modes", "report", "cleanup", "handover"} => failAt # "none"
  /\ opt.absFail => failAt # "SEED_DIR"
  /\ \A s \in Seeds : place[s] = "FAIL_DIR" => failAt = "FAIL_DIR"

\* Every step preserves it.
LEMMA DirStep == IndInv /\ DirInv /\ [Next]_vars => DirInv'
<1> SUFFICES ASSUME IndInv, DirInv, [Next]_vars PROVE DirInv'
  OBVIOUS
<1> USE DEF IndInv, TypeInv, TypeOK, StageInv, LogInv, DirInv
<1>0. CASE UNCHANGED vars
  BY <1>0 DEF vars
<1>1. ASSUME NEW src \in 0 .. SEED_NUM, ArtFails(src)
      PROVE  DirInv'
  BY <1>1 DEF ArtFails, DropSeed, Generating
<1>2. CASE VerifyFails
  BY <1>2 DEF VerifyFails, DropSeed, Generating
<1>3. CASE CovFails
  BY <1>3 DEF CovFails, Generating
<1>4. CASE Generated
  BY <1>4 DEF Generated, Generating
<1>5. CASE ExitUntested
  BY <1>5 DEF ExitUntested, RemoveSeedDir
<1>6. CASE MakeFailDir
  BY <1>6 DEF MakeFailDir
<1>7. ASSUME NEW s \in Seeds, ProcessSeed(s)
      PROVE  DirInv'
  BY <1>7 DEF ProcessSeed
<1>8. ASSUME NEW s \in Seeds, NEW res \in {"pass", "fail"}, RunMode(s, res)
      PROVE  DirInv'
  BY <1>8 DEF RunMode
<1>9. ASSUME NEW s \in Seeds, Dispose(s)
      PROVE  DirInv'
  BY <1>9 DEF Dispose
<1>10. CASE Abort
  BY <1>10 DEF Abort
<1>11. CASE Processed
  BY <1>11 DEF Processed
<1>12. CASE TestDone
  BY <1>12 DEF TestDone
<1>13. CASE CleanUp
  BY <1>13 DEF CleanUp, RemoveSeedDir
<1>14. CASE WriteDone
  BY <1>14 DEF WriteDone
<1> QED
  BY <1>0, <1>1, <1>2, <1>3, <1>4, <1>5, <1>6, <1>7, <1>8, <1>9, <1>10, <1>11,
     <1>12, <1>13, <1>14
  DEF Next, Generate, Process, Exited

\* The task implements what local_verify.pl assumes of a directory of failing
\* seeds (lines 137-146).
THEOREM TaskFillsDir == Spec => FillsDir
<1>1. Init => FD!Init
  BY DEF Init, FD!Init, dirBar, givenBar
<1>2. Init => DirInv
  BY DEF Init, DirInv
<1>3. IndInv /\ DirInv /\ [Next]_vars => [FD!Next]_<<dirBar, givenBar>>
  <2> SUFFICES ASSUME IndInv, DirInv, [Next]_vars
               PROVE  FD!Next \/ (dirBar' = dirBar /\ givenBar' = givenBar)
    OBVIOUS
  <2> USE DEF IndInv, TypeInv, TypeOK, StageInv, DirInv, dirBar, givenBar
  <2>0. CASE UNCHANGED vars
    BY <2>0 DEF vars
  <2>1. ASSUME NEW src \in 0 .. SEED_NUM, ArtFails(src)
        PROVE  dirBar' = dirBar /\ givenBar' = givenBar
    BY <2>1 DEF ArtFails, DropSeed, Generating
  <2>2. ASSUME VerifyFails
        PROVE  dirBar' = dirBar /\ givenBar' = givenBar
    BY <2>2 DEF VerifyFails, DropSeed, Generating
  <2>3. ASSUME CovFails
        PROVE  dirBar' = dirBar /\ givenBar' = givenBar
    BY <2>3 DEF CovFails, Generating
  <2>4. ASSUME Generated
        PROVE  dirBar' = dirBar /\ givenBar' = givenBar
    BY <2>4 DEF Generated, Generating
  <2>5. ASSUME ExitUntested
        PROVE  dirBar' = dirBar /\ givenBar' = givenBar
    BY <2>5 DEF ExitUntested, RemoveSeedDir
  <2>6. ASSUME MakeFailDir PROVE FD!MakeFailDir \/ (dirBar' = dirBar /\ givenBar' = givenBar)
    BY <2>6 DEF MakeFailDir, FD!MakeFailDir
  <2>7. ASSUME NEW s \in Seeds, ProcessSeed(s)
        PROVE  dirBar' = dirBar /\ givenBar' = givenBar
    BY <2>7 DEF ProcessSeed
  <2>8. ASSUME NEW s \in Seeds, NEW res \in {"pass", "fail"}, RunMode(s, res)
        PROVE  dirBar' = dirBar /\ givenBar' = givenBar
    BY <2>8 DEF RunMode
  <2>9. ASSUME NEW s \in Seeds, Dispose(s) PROVE FD!FailSeed(s) \/ (dirBar' = dirBar /\ givenBar' = givenBar)
    BY <2>9 DEF Dispose, FD!FailSeed
  <2>10. ASSUME Abort
        PROVE  dirBar' = dirBar /\ givenBar' = givenBar
    BY <2>10 DEF Abort
  <2>11. ASSUME Processed
        PROVE  dirBar' = dirBar /\ givenBar' = givenBar
    BY <2>11 DEF Processed
  <2>12. ASSUME TestDone
        PROVE  dirBar' = dirBar /\ givenBar' = givenBar
    BY <2>12 DEF TestDone
  <2>13. ASSUME CleanUp
        PROVE  dirBar' = dirBar /\ givenBar' = givenBar
    BY <2>13 DEF CleanUp, RemoveSeedDir
  <2>14. ASSUME WriteDone PROVE FD!WriteDone \/ (dirBar' = dirBar /\ givenBar' = givenBar)
    BY <2>14 DEF WriteDone, FD!WriteDone
  <2> HIDE DEF IndInv, DirInv, dirBar, givenBar
  <2> QED
    BY <2>0, <2>1, <2>2, <2>3, <2>4, <2>5, <2>6, <2>7, <2>8, <2>9, <2>10, <2>11,
       <2>12, <2>13, <2>14
    DEF Next, Generate, Process, Exited, FD!Next
<1> QED
  BY <1>1, <1>2, <1>3, DirStep, Inductive, PTL DEF Spec, FillsDir, FD!Spec

-----------------------------------------------------------------------------
\* The seeds that were given a program keep it.
LEMMA KeepPlace ==
  IndInv /\ [Next]_vars =>
    \/ /\ \A s \in Seeds : place'[s] = "none" <=> place[s] = "none"
       /\ SUCC_NUM' = SUCC_NUM /\ covFailed' = covFailed
    \/ CovFails
    \/ Generated
<1> DEFINE Kept == /\ \A s \in Seeds : place'[s] = "none" <=> place[s] = "none"
                   /\ SUCC_NUM' = SUCC_NUM /\ covFailed' = covFailed
<1> SUFFICES ASSUME IndInv, [Next]_vars PROVE Kept \/ CovFails \/ Generated
  OBVIOUS
<1> USE DEF IndInv, TypeInv, TypeOK
<1>0. CASE UNCHANGED vars
  BY <1>0 DEF vars
<1>1. ASSUME NEW src \in 0 .. SEED_NUM, ArtFails(src)
      PROVE  Kept
  BY <1>1 DEF ArtFails, DropSeed, Generating
<1>2. CASE VerifyFails
  BY <1>2 DEF VerifyFails, DropSeed, Generating
<1>5. CASE ExitUntested
  BY <1>5 DEF ExitUntested, RemoveSeedDir
<1>6. CASE MakeFailDir
  BY <1>6 DEF MakeFailDir
<1>7. ASSUME NEW s \in Seeds, ProcessSeed(s)
      PROVE  Kept
  BY <1>7 DEF ProcessSeed
<1>8. ASSUME NEW s \in Seeds, NEW res \in {"pass", "fail"}, RunMode(s, res)
      PROVE  Kept
  BY <1>8 DEF RunMode
<1>9. ASSUME NEW s \in Seeds, Dispose(s)
      PROVE  Kept
  BY <1>9 DEF Dispose
<1>10. CASE Abort
  BY <1>10 DEF Abort
<1>11. CASE Processed
  BY <1>11 DEF Processed
<1>12. CASE TestDone
  BY <1>12 DEF TestDone
<1>13. CASE CleanUp
  BY <1>13 DEF CleanUp, RemoveSeedDir
<1>14. CASE WriteDone
  BY <1>14 DEF WriteDone
<1> QED
  BY <1>0, <1>1, <1>2, <1>5, <1>6, <1>7, <1>8, <1>9, <1>10, <1>11,
     <1>12, <1>13, <1>14
  DEF Next, Generate, Process, Exited

\* DONE counts the seeds given to process_seeds.py and those whose coverage
\* run failed, and no other (gen_run_seeds.pl:226-241).
THEOREM TaskAccounts == Spec => []Accounted
<1> DEFINE G == {s \in Seeds : place[s] # "none"}
<1>1. Init => Accounted
  <2> SUFFICES ASSUME Init PROVE Accounted
    OBVIOUS
  <2>1. G = {} /\ covFailed = {} /\ SUCC_NUM = 0
    BY DEF Init
  <2> QED
    BY <2>1, FS_EmptySet DEF Accounted
<1>2. IndInv /\ Accounted /\ [Next]_vars => Accounted'
  <2> SUFFICES ASSUME IndInv, Accounted, [Next]_vars PROVE Accounted'
    OBVIOUS
  <2>0. /\ SUCC_NUM = Cardinality(G) + Cardinality(covFailed)
        /\ Accounted' <=> SUCC_NUM' = Cardinality(G') + Cardinality(covFailed')
    BY DEF Accounted
  <2>1. IsFiniteSet(Seeds)
    BY FS_Interval DEF Seeds
  <2>2. IsFiniteSet(G) /\ IsFiniteSet(covFailed)
    BY <2>1, FS_Subset DEF IndInv, TypeInv, TypeOK
  <2>3. Cardinality(G) \in Nat /\ Cardinality(covFailed) \in Nat
    BY <2>2, FS_CardinalityType
  <2>4. CASE G' = G /\ SUCC_NUM' = SUCC_NUM /\ covFailed' = covFailed
    BY <2>4 DEF Accounted
  <2>5. CASE CovFails
    <3>1. G' = G /\ covFailed' = covFailed \cup {i} /\ SUCC_NUM' = SUCC_NUM + 1
      BY <2>5 DEF CovFails
    <3>2. i \notin covFailed
      BY DEF IndInv, TypeInv, TypeOK, LoopInv
    <3>3. Cardinality(covFailed \cup {i}) = Cardinality(covFailed) + 1
      BY <2>2, <3>2, FS_AddElement
    <3> HIDE DEF G
    <3> QED
      BY <2>0, <2>3, <3>1, <3>3
  <2>6. CASE Generated
    <3>1. G' = G \cup {i} /\ covFailed' = covFailed /\ SUCC_NUM' = SUCC_NUM + 1
      BY <2>6 DEF Generated, Generating, IndInv, TypeInv, TypeOK, Seeds
    <3>2. i \notin G
      BY DEF IndInv, TypeInv, TypeOK, LoopInv
    <3>3. Cardinality(G \cup {i}) = Cardinality(G) + 1
      BY <2>2, <3>2, FS_AddElement
    <3> HIDE DEF G
    <3> QED
      BY <2>0, <2>3, <3>1, <3>3
  <2> QED
    BY <2>4, <2>5, <2>6, KeepPlace
<1> QED
  BY <1>1, <1>2, Inductive, PTL DEF Spec
=============================================================================
