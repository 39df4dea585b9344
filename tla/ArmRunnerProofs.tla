---------------------------- MODULE ArmRunnerProofs ----------------------------
(***************************************************************************)
(* Proofs about ArmRunner, for any units, seeds and number of tests.       *)
(***************************************************************************)
EXTENDS ArmRunner, TLAPS

Testing(u) == pc[u] \in {"push", "shell", "rm", "judge", "fin"}

\* The seed under test is one of the unit that has not been judged.
CurInv ==
  \A u \in Units : Testing(u) =>
    /\ cur[u] \in Seeds
    /\ UnitOf[cur[u]] = u
    /\ place[cur[u]] = "SEED_DIR"

\* Tests done and tests left of the seed under test sum to ERROR_MAX.
CountInv ==
  \A u \in Units : Testing(u) =>
    /\ tries[cur[u]] + ERROR_CNT[u] = ERROR_MAX
    /\ pc[u] # "fin" => ERROR_CNT[u] > 0
    /\ pc[u] = "fin" => /\ tries[cur[u]] > 0
                        /\ ADB_RES[u] = "pass" \/ ERROR_CNT[u] = 0

\* No other seed that is still to be judged has been tested.
IdleInv ==
  \A s \in Seeds :
    place[s] = "SEED_DIR" =>
      \/ tries[s] = 0
      \/ Testing(UnitOf[s]) /\ cur[UnitOf[s]] = s

\* What may be in the file of a unit: the seed under test between its push
\* and its deletion, and anything else only once a deletion was lost.
FileInv ==
  \A u \in Units :
    /\ device[u] # NoSeed =>
         \/ u \in rmLost
         \/ pc[u] \in {"shell", "rm"} /\ device[u] = cur[u]
    /\ pc[u] = "shell" => device[u] = cur[u] \/ cur[u] \in pushLost

\* The answer at hand was printed by the seed under test.
AnswerInv ==
  \A u \in Units :
    /\ pc[u] \in {"rm", "judge", "fin"}
    /\ ADB_RES[u] \in {"pass", "fail"}
    /\ ADB_RES[u] \notin ran[cur[u]]
    => cur[u] \in pushLost /\ u \in rmLost

\* A runner that has returned left no seed.
ExitInv == \A s \in Seeds : place[s] = "SEED_DIR" => pc[UnitOf[s]] # "exit"

IndInv == /\ TypeOK /\ CurInv /\ CountInv /\ IdleInv /\ ExitInv
          /\ FileInv /\ AnswerInv /\ VerdictOwn /\ TriedEnough

-----------------------------------------------------------------------------
\* The initial states satisfy the inductive invariant.
LEMMA InitIndInv == Init => IndInv
BY ConstantsAssumption
DEF Init, IndInv, TypeOK, Testing, CurInv, CountInv, IdleInv, ExitInv, FileInv,
    AnswerInv, VerdictOwn, TriedEnough, Answers

\* Every step of a runner (run_on_ARM.pl:103-136) keeps the types.
LEMMA TypeStep == TypeOK /\ CurInv /\ CountInv /\ [Next]_vars => TypeOK'
<1> SUFFICES ASSUME TypeOK, CurInv, CountInv, [Next]_vars
             PROVE  TypeOK'
  OBVIOUS
<1> USE ConstantsAssumption DEF TypeOK, Testing, CurInv, histVars, Answers
<1>1. CASE UNCHANGED vars
  BY <1>1 DEF vars
<1>2. ASSUME NEW u \in Units, NEW s \in Seeds, TakeSeed(u, s)
      PROVE  TypeOK'
  BY <1>2 DEF TakeSeed
<1>3. ASSUME NEW u \in Units, Push(u) \/ Rm(u)
      PROVE  TypeOK'
  BY <1>3 DEF Push, Rm, CUR_TEST_BIN
<1>4. ASSUME NEW u \in Units, PushLost(u) \/ RmLost(u)
      PROVE  TypeOK'
  BY <1>4 DEF PushLost, RmLost
<1>5. ASSUME NEW u \in Units, NEW res \in Answers, Shell(u, res)
      PROVE  TypeOK'
  BY <1>5 DEF Shell, CUR_TEST_BIN
<1>6. ASSUME NEW u \in Units, Busy(u) \/ Exit(u)
      PROVE  TypeOK'
  BY <1>6 DEF Busy, Exit
<1>7. ASSUME NEW u \in Units, Answered(u)
      PROVE  TypeOK'
  BY <1>7 DEF Answered, CountInv
<1>8. ASSUME NEW u \in Units, Fin(u)
      PROVE  TypeOK'
  BY <1>8 DEF Fin
<1> QED
  BY <1>1, <1>2, <1>3, <1>4, <1>5, <1>6, <1>7, <1>8 DEF Next, Runner, Finished
\* Every step preserves the facts about the seeds under test and the counts.
LEMMA CountStep ==
  TypeOK /\ CurInv /\ CountInv /\ IdleInv /\ ExitInv /\ TriedEnough /\ [Next]_vars
  => CurInv' /\ CountInv' /\ IdleInv' /\ ExitInv' /\ TriedEnough'
<1> DEFINE Inv == CurInv /\ CountInv /\ IdleInv /\ ExitInv /\ TriedEnough
<1> SUFFICES ASSUME TypeOK, Inv, [Next]_vars
             PROVE  Inv'
  OBVIOUS
<1> USE ConstantsAssumption
    DEF TypeOK, Testing, CurInv, CountInv, IdleInv, ExitInv, TriedEnough, histVars, InDir
<1>0. CASE UNCHANGED vars
  BY <1>0 DEF vars
<1>1. ASSUME NEW u \in Units, NEW s \in Seeds, TakeSeed(u, s)
      PROVE  Inv'
  BY <1>1 DEF TakeSeed
<1>2. ASSUME NEW u \in Units, Push(u)
      PROVE  Inv'
  BY <1>2 DEF Push
<1>3. ASSUME NEW u \in Units, PushLost(u)
      PROVE  Inv'
  BY <1>3 DEF PushLost
<1>4. ASSUME NEW u \in Units, NEW res \in Answers, Shell(u, res)
      PROVE  Inv'
  BY <1>4 DEF Shell
<1>5. ASSUME NEW u \in Units, Rm(u)
      PROVE  Inv'
  BY <1>5 DEF Rm
<1>6. ASSUME NEW u \in Units, RmLost(u)
      PROVE  Inv'
  BY <1>6 DEF RmLost
<1>7. ASSUME NEW u \in Units, Busy(u)
      PROVE  Inv'
  BY <1>7 DEF Busy
<1>8. ASSUME NEW u \in Units, Answered(u)
      PROVE  Inv'
  <2>1. /\ cur[u] \in Seeds /\ UnitOf[cur[u]] = u /\ place[cur[u]] = "SEED_DIR"
        /\ ERROR_CNT[u] > 0 /\ tries[cur[u]] + ERROR_CNT[u] = ERROR_MAX
    BY <1>8 DEF Answered
  <2>2. /\ ERROR_CNT'[u] = ERROR_CNT[u] - 1
        /\ tries'[cur[u]] = tries[cur[u]] + 1
        /\ pc'[u] \in {"push", "fin"}
        /\ pc'[u] = "push" => ERROR_CNT'[u] > 0
        /\ pc'[u] = "fin" => ADB_RES'[u] = "pass" \/ ERROR_CNT'[u] = 0
    BY <1>8, <2>1 DEF Answered
  <2>3. \A v \in Units \ {u} : pc'[v] = pc[v] /\ ERROR_CNT'[v] = ERROR_CNT[v]
    BY <1>8 DEF Answered
  <2>4. \A s \in Seeds \ {cur[u]} : tries'[s] = tries[s]
    BY <1>8, <2>1 DEF Answered
  <2>5. cur' = cur /\ place' = place /\ ADB_RES' = ADB_RES
    BY <1>8 DEF Answered
  <2>6. pc[u] = "judge"
    BY <1>8 DEF Answered
  <2>7. CurInv' /\ ExitInv'
    BY <2>1, <2>2, <2>3, <2>5, <2>6
  <2>8. CountInv'
    BY <2>1, <2>2, <2>3, <2>4, <2>5, <2>6
  <2>9. IdleInv'
    BY <2>1, <2>2, <2>3, <2>4, <2>5, <2>6
  <2>10. TriedEnough'
    BY <2>1, <2>2, <2>4, <2>5
  <2> QED
    BY <2>7, <2>8, <2>9, <2>10
<1>9. ASSUME NEW u \in Units, Fin(u)
      PROVE  Inv'
  BY <1>9 DEF Fin
<1>10. ASSUME NEW u \in Units, Exit(u)
      PROVE  Inv'
  BY <1>10 DEF Exit
<1> QED
  BY <1>0, <1>1, <1>2, <1>3, <1>4, <1>5, <1>6, <1>7, <1>8, <1>9, <1>10 DEF Next, Runner, Finished

\* Every step preserves the facts about the file on the device.
LEMMA FileStep ==
  TypeOK /\ CurInv /\ FileInv /\ AnswerInv /\ VerdictOwn /\ [Next]_vars
  => FileInv' /\ AnswerInv' /\ VerdictOwn'
<1> DEFINE Inv == FileInv /\ AnswerInv /\ VerdictOwn
<1> SUFFICES ASSUME TypeOK, CurInv, Inv, [Next]_vars
             PROVE  Inv'
  OBVIOUS
<1> USE ConstantsAssumption
    DEF TypeOK, Testing, CurInv, FileInv, AnswerInv, VerdictOwn, histVars, InDir, Answers
<1>0. CASE UNCHANGED vars
  BY <1>0 DEF vars
<1>1. ASSUME NEW u \in Units, NEW s \in Seeds, TakeSeed(u, s)
      PROVE  Inv'
  BY <1>1 DEF TakeSeed
<1>2. ASSUME NEW u \in Units, Push(u)
      PROVE  Inv'
  BY <1>2 DEF Push, CUR_TEST_BIN
<1>3. ASSUME NEW u \in Units, PushLost(u)
      PROVE  Inv'
  BY <1>3 DEF PushLost
<1>4. ASSUME NEW u \in Units, NEW res \in Answers, Shell(u, res)
      PROVE  Inv'
  BY <1>4 DEF Shell, CUR_TEST_BIN
<1>5. ASSUME NEW u \in Units, Rm(u)
      PROVE  Inv'
  BY <1>5 DEF Rm, CUR_TEST_BIN
<1>6. ASSUME NEW u \in Units, RmLost(u)
      PROVE  Inv'
  BY <1>6 DEF RmLost
<1>7. ASSUME NEW u \in Units, Busy(u)
      PROVE  Inv'
  BY <1>7 DEF Busy
<1>8. ASSUME NEW u \in Units, Answered(u)
      PROVE  Inv'
  BY <1>8 DEF Answered
<1>9. ASSUME NEW u \in Units, Fin(u)
      PROVE  Inv'
  BY <1>9 DEF Fin
<1>10. ASSUME NEW u \in Units, Exit(u)
      PROVE  Inv'
  BY <1>10 DEF Exit
<1> QED
  BY <1>0, <1>1, <1>2, <1>3, <1>4, <1>5, <1>6, <1>7, <1>8, <1>9, <1>10 DEF Next, Runner, Finished

\* IndInv holds in every reachable state.
LEMMA Inductive == Spec => []IndInv
<1>1. IndInv /\ [Next]_vars => IndInv'
  BY TypeStep, CountStep, FileStep DEF IndInv
<1> QED
  BY InitIndInv, <1>1, PTL DEF Spec

-----------------------------------------------------------------------------
\* Type correctness of the runners.
THEOREM RunnerTypes == Spec => []TypeOK
<1>1. IndInv => TypeOK
  BY DEF IndInv
<1> QED
  BY <1>1, Inductive, PTL

\* However many runners share the device, a seed is given another seed's
\* result only if a push of it and a deletion by its runner were both lost
\* (run_on_ARM.pl:109-111).
THEOREM VerdictsOwn == Spec => []VerdictOwn
<1>1. IndInv => VerdictOwn
  BY DEF IndInv
<1> QED
  BY <1>1, Inductive, PTL

\* A seed is given up after exactly ERROR_MAX answered tests
\* (run_on_ARM.pl:104-122).
THEOREM TriesCounted == Spec => []TriedEnough
<1>1. IndInv => TriedEnough
  BY DEF IndInv
<1> QED
  BY <1>1, Inductive, PTL

\* The runners implement the one step per unit that local_verify.pl sees
\* (lines 208-209).
THEOREM RunnersJudgeUnits == Spec => JudgesUnits
<1> USE ConstantsAssumption
<1>1. Init => UV!Init
  BY DEF Init, UV!Init, verdictBar, returnedBar
<1>2. IndInv /\ [Next]_vars => [UV!Next]_<<verdictBar, returnedBar>>
  <2> SUFFICES ASSUME IndInv, [Next]_vars
               PROVE  UV!Next \/ (verdictBar' = verdictBar /\ returnedBar' = returnedBar)
    OBVIOUS
  <2> USE DEF IndInv, TypeOK, CurInv, Testing, histVars, verdictBar, returnedBar
  <2>0. CASE UNCHANGED vars
    BY <2>0 DEF vars
  <2>1. ASSUME NEW u \in Units, NEW s \in Seeds, TakeSeed(u, s)
        PROVE  verdictBar' = verdictBar /\ returnedBar' = returnedBar
    BY <2>1 DEF TakeSeed
  <2>2. ASSUME NEW u \in Units, Push(u) \/ PushLost(u)
        PROVE  verdictBar' = verdictBar /\ returnedBar' = returnedBar
    BY <2>2 DEF Push, PushLost
  <2>3. ASSUME NEW u \in Units, NEW res \in Answers, Shell(u, res)
        PROVE  verdictBar' = verdictBar /\ returnedBar' = returnedBar
    BY <2>3 DEF Shell
  <2>4. ASSUME NEW u \in Units, Rm(u) \/ RmLost(u)
        PROVE  verdictBar' = verdictBar /\ returnedBar' = returnedBar
    BY <2>4 DEF Rm, RmLost
  <2>5. ASSUME NEW u \in Units, Busy(u) \/ Answered(u)
        PROVE  verdictBar' = verdictBar /\ returnedBar' = returnedBar
    BY <2>5 DEF Busy, Answered
  <2>6. ASSUME NEW u \in Units, Fin(u)
        PROVE  verdictBar' = verdictBar /\ returnedBar' = returnedBar
    BY <2>6 DEF Fin
  <2>7. ASSUME NEW u \in Units, Exit(u)
        PROVE  UV!RunOnArm(u)
    <3> DEFINE P == {s \in Seeds : UnitOf[s] = u /\ place[s] = "pass_on_arm"}
    <3>1. P \in SUBSET {s \in Seeds : UnitOf[s] = u}
      OBVIOUS
    <3>2. returnedBar' = returnedBar \cup {u} /\ u \notin returnedBar
      BY <2>7 DEF Exit
    <3>3. verdictBar' = [s \in Seeds |->
                           IF UnitOf[s] # u THEN verdictBar[s]
                           ELSE IF s \in P THEN "armpass" ELSE "armfail"]
      BY <2>7 DEF Exit, InDir
    <3> HIDE DEF P, verdictBar, returnedBar, IndInv, TypeOK, CurInv
    <3> QED
      BY <3>1, <3>2, <3>3 DEF UV!RunOnArm
  <2> QED
    BY <2>0, <2>1, <2>2, <2>3, <2>4, <2>5, <2>6, <2>7 DEF Next, Runner, Finished, UV!Next
<1> QED
  BY <1>1, <1>2, Inductive, PTL DEF Spec, JudgesUnits, UV!Spec

=============================================================================
