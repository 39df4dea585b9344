------------------------------- MODULE ArmRunner -------------------------------
(***************************************************************************)
(* script/run_on_ARM.pl, one process per unit of seeds, all of them on the *)
(* same device through adb.  A test of a seed is three adb calls: push the *)
(* program to a file of the device, run that file, delete it.  The results *)
(* of the first and the third call are not looked at; what the second one  *)
(* prints decides whether the seed is tested again, passed or failed.      *)
(*                                                                         *)
(* Seeds are taken in any order: the code takes them in name order, and    *)
(* names carry no other meaning here.                                      *)
(***************************************************************************)
EXTENDS Naturals

CONSTANTS
  Units,        \* the units, one runner each
  Seeds,
  UnitOf,       \* the unit whose directory holds the seed
  ERROR_MAX,    \* tests of a seed that does not pass (3 in the code)
  REMOVE_FLAG,  \* delete failing seeds instead of moving them (option -r)
  NoSeed        \* no seed: an idle runner, a file that does not exist

ASSUME ConstantsAssumption ==
  /\ UnitOf \in [Seeds -> Units]
  /\ ERROR_MAX \in Nat \ {0}
  /\ REMOVE_FLAG \in BOOLEAN
  /\ NoSeed \notin Seeds

VARIABLES
  pc,         \* per unit: the point of the runner's loop
  cur,        \* per unit: TEST, the seed under test
  ERROR_CNT,  \* per unit: tests left
  ADB_RES,    \* per unit: what the run on the device printed
  device,     \* the program in each file on the device
  place,      \* where each seed is
  devLog,     \* the result in the seed's line of the log, or "none"
  tries,      \* history: tests of a seed that were answered
  ran,        \* history: what the seed itself printed on the device
  pushLost,   \* history: seeds a push of which was lost
  rmLost      \* history: units that lost a deletion

histVars == <<tries, ran, pushLost, rmLost>>
vars == <<pc, cur, ERROR_CNT, ADB_RES, device, place, devLog, histVars>>

Answers == {"empty", "busy", "missing", "pass", "fail"}

InDir(u) == {s \in Seeds : UnitOf[s] = u /\ place[s] = "SEED_DIR"}

\* Mutant: every unit uses the same file, as without option -f.
CUR_TEST_BINDefault(u) == CHOOSE v \in Units : TRUE

\* The file of the device a unit uses, /data/tmp_ver_rit_<unit>.bin.
CUR_TEST_BIN(u) == u

Init ==
  /\ pc = [u \in Units |-> "next"]
  /\ cur = [u \in Units |-> NoSeed]
  /\ ERROR_CNT = [u \in Units |-> 0]
  /\ ADB_RES = [u \in Units |-> "empty"]
  /\ device = [f \in Units |-> NoSeed]
  /\ place = [s \in Seeds |-> "SEED_DIR"]
  /\ devLog = [s \in Seeds |-> "none"]
  /\ tries = [s \in Seeds |-> 0]
  /\ ran = [s \in Seeds |-> {}]
  /\ pushLost = {}
  /\ rmLost = {}

-----------------------------------------------------------------------------
\* Mutant: one test too many.
TakeSeedOneMore(u, s) ==
  /\ pc[u] = "next"
  /\ s \in InDir(u)
  /\ cur' = [cur EXCEPT ![u] = s]
  /\ ERROR_CNT' = [ERROR_CNT EXCEPT ![u] = ERROR_MAX + 1]
  /\ pc' = [pc EXCEPT ![u] = "push"]
  /\ UNCHANGED <<ADB_RES, device, place, devLog, histVars>>

TakeSeed(u, s) ==
  /\ pc[u] = "next"
  /\ s \in InDir(u)
  /\ cur' = [cur EXCEPT ![u] = s]
  /\ ERROR_CNT' = [ERROR_CNT EXCEPT ![u] = ERROR_MAX]
  /\ pc' = [pc EXCEPT ![u] = "push"]
  /\ UNCHANGED <<ADB_RES, device, place, devLog, histVars>>

Push(u) ==
  /\ pc[u] = "push"
  /\ pc' = [pc EXCEPT ![u] = "shell"]
  /\ ADB_RES' = [ADB_RES EXCEPT ![u] = "empty"]
  /\ device' = [device EXCEPT ![CUR_TEST_BIN(u)] = cur[u]]
  /\ UNCHANGED <<cur, ERROR_CNT, place, devLog, histVars>>

PushLost(u) ==
  /\ pc[u] = "push"
  /\ pc' = [pc EXCEPT ![u] = "shell"]
  /\ ADB_RES' = [ADB_RES EXCEPT ![u] = "empty"]
  /\ pushLost' = pushLost \cup {cur[u]}
  /\ UNCHANGED <<cur, ERROR_CNT, device, place, devLog, tries, ran, rmLost>>

\* The device runs whatever program is in the file.  It may also be out of
\* reach or killed by the timeout (nothing is printed), or the file is open
\* for writing ("text busy").
Shell(u, res) ==
  /\ pc[u] = "shell"
  /\ LET prog == device[CUR_TEST_BIN(u)]
     IN /\ res = "missing" => prog = NoSeed
        /\ res \in {"pass", "fail"} => prog \in Seeds
        /\ ran' = IF res \in {"pass", "fail"}
                  THEN [ran EXCEPT ![prog] = @ \cup {res}] ELSE ran
  /\ ADB_RES' = [ADB_RES EXCEPT ![u] = res]
  /\ pc' = [pc EXCEPT ![u] = "rm"]
  /\ UNCHANGED <<cur, ERROR_CNT, device, place, devLog, tries, pushLost, rmLost>>

Rm(u) ==
  /\ pc[u] = "rm"
  /\ pc' = [pc EXCEPT ![u] = "judge"]
  /\ device' = [device EXCEPT ![CUR_TEST_BIN(u)] = NoSeed]
  /\ UNCHANGED <<cur, ERROR_CNT, ADB_RES, place, devLog, histVars>>

RmLost(u) ==
  /\ pc[u] = "rm"
  /\ pc' = [pc EXCEPT ![u] = "judge"]
  /\ rmLost' = rmLost \cup {u}
  /\ UNCHANGED <<cur, ERROR_CNT, ADB_RES, device, place, devLog, tries, ran, pushLost>>

\* "text busy": the same test again, not counted.
Busy(u) ==
  /\ pc[u] = "judge"
  /\ ADB_RES[u] = "busy"
  /\ pc' = [pc EXCEPT ![u] = "push"]
  /\ UNCHANGED <<cur, ERROR_CNT, ADB_RES, device, place, devLog, histVars>>

\* Mutant: a pass is awaited one test too long.
AnsweredOneMore(u) ==
  /\ pc[u] = "judge"
  /\ ADB_RES[u] # "busy"
  /\ ERROR_CNT' = [ERROR_CNT EXCEPT ![u] = IF @ > 0 THEN @ - 1 ELSE 0]
  /\ tries' = [tries EXCEPT ![cur[u]] = @ + 1]
  /\ pc' = [pc EXCEPT ![u] =
              IF ERROR_CNT[u] > 0 /\ ADB_RES[u] # "pass" THEN "push" ELSE "fin"]
  /\ UNCHANGED <<cur, ADB_RES, device, place, devLog, ran, pushLost, rmLost>>

\* Mutant: the test is not counted.
AnsweredUncounted(u) ==
  /\ pc[u] = "judge"
  /\ ADB_RES[u] # "busy"
  /\ pc' = [pc EXCEPT ![u] =
              IF ERROR_CNT[u] - 1 > 0 /\ ADB_RES[u] # "pass" THEN "push" ELSE "fin"]
  /\ UNCHANGED <<cur, ERROR_CNT, ADB_RES, device, place, devLog, histVars>>

\* Nothing printed, or an answer: counted, and tested again while tests are
\* left unless the answer is a pass.
Answered(u) ==
  /\ pc[u] = "judge"
  /\ ADB_RES[u] # "busy"
  /\ ERROR_CNT' = [ERROR_CNT EXCEPT ![u] = @ - 1]
  /\ tries' = [tries EXCEPT ![cur[u]] = @ + 1]
  /\ pc' = [pc EXCEPT ![u] =
              IF ERROR_CNT[u] - 1 > 0 /\ ADB_RES[u] # "pass" THEN "push" ELSE "fin"]
  /\ UNCHANGED <<cur, ADB_RES, device, place, devLog, ran, pushLost, rmLost>>

Fin(u) ==
  /\ pc[u] = "fin"
  /\ devLog' = [devLog EXCEPT ![cur[u]] = ADB_RES[u]]
  /\ place' = [place EXCEPT ![cur[u]] =
                 IF ADB_RES[u] = "pass" THEN "pass_on_arm"
                 ELSE IF REMOVE_FLAG THEN "removed" ELSE "fail_on_arm"]
  /\ pc' = [pc EXCEPT ![u] = "next"]
  /\ UNCHANGED <<cur, ERROR_CNT, ADB_RES, device, histVars>>

\* Mutant: the loop ends after its first seed.
ExitEarly(u) ==
  /\ pc[u] = "next"
  /\ cur[u] # NoSeed
  /\ pc' = [pc EXCEPT ![u] = "exit"]
  /\ UNCHANGED <<cur, ERROR_CNT, ADB_RES, device, place, devLog, histVars>>

Exit(u) ==
  /\ pc[u] = "next"
  /\ InDir(u) = {}
  /\ pc' = [pc EXCEPT ![u] = "exit"]
  /\ UNCHANGED <<cur, ERROR_CNT, ADB_RES, device, place, devLog, histVars>>

Runner(u) ==
  \/ \E s \in Seeds : TakeSeed(u, s)
  \/ Push(u) \/ PushLost(u)
  \/ \E res \in Answers : Shell(u, res)
  \/ Rm(u) \/ RmLost(u)
  \/ Busy(u) \/ Answered(u) \/ Fin(u) \/ Exit(u)

\* Every runner has returned: local_verify.pl goes on.
Finished == (\A u \in Units : pc[u] = "exit") /\ UNCHANGED vars

Next == (\E u \in Units : Runner(u)) \/ Finished

Spec == Init /\ [][Next]_vars

(***************************************************************************)
(* Fairness: a runner keeps running, which takes for granted that adb push *)
(* and adb shell rm return (only the run itself is under a timeout), and   *)
(* the device is not busy for ever.                                        *)
(***************************************************************************)
Fairness ==
  \A u \in Units :
    /\ WF_vars(Runner(u))
    /\ SF_vars(\E res \in Answers \ {"busy"} : Shell(u, res))

FairSpec == Spec /\ Fairness

-----------------------------------------------------------------------------
\* Every variable keeps its type.
TypeOK ==
  /\ pc \in [Units -> {"next", "push", "shell", "rm", "judge", "fin", "exit"}]
  /\ cur \in [Units -> Seeds \cup {NoSeed}]
  /\ ERROR_CNT \in [Units -> 0 .. ERROR_MAX]
  /\ ADB_RES \in [Units -> Answers]
  /\ device \in [Units -> Seeds \cup {NoSeed}]
  /\ place \in [Seeds -> {"SEED_DIR", "pass_on_arm", "fail_on_arm", "removed"}]
  /\ devLog \in [Seeds -> Answers \cup {"none"}]
  /\ tries \in [Seeds -> Nat]
  /\ ran \in [Seeds -> SUBSET {"pass", "fail"}]
  /\ pushLost \subseteq Seeds
  /\ rmLost \subseteq Units

\* A result logged for a seed was printed by that seed, not by another one
\* left over in the file or pushed there by another runner, unless the runner
\* lost both a push of this seed and a deletion (run_on_ARM.pl:109-111): one
\* unchecked adb failure alone never gives a seed another seed's result.
VerdictOwn ==
  \A s \in Seeds :
    devLog[s] \in {"pass", "fail"} /\ devLog[s] \notin ran[s]
      => s \in pushLost /\ UnitOf[s] \in rmLost

\* A seed is given up only after exactly ERROR_MAX answered tests, and none is
\* tested more often, however many "text busy" answers came in between
\* (run_on_ARM.pl:104-122).
TriedEnough ==
  \A s \in Seeds :
    /\ tries[s] <= ERROR_MAX
    /\ place[s] \in {"fail_on_arm", "removed"} => tries[s] = ERROR_MAX
    /\ place[s] = "pass_on_arm" => tries[s] > 0

\* A seed deleted by option -r failed on the device (run_on_ARM.pl:131-134).
RemovedFailed ==
  \A s \in Seeds : place[s] = "removed" => "fail" \in ran[s]

\* What local_verify.pl sees of a unit: nothing before the runner returns.
verdictBar ==
  [s \in Seeds |-> IF pc[UnitOf[s]] # "exit" \/ place[s] = "SEED_DIR" THEN "unit"
                   ELSE IF place[s] = "pass_on_arm" THEN "armpass" ELSE "armfail"]

returnedBar == {u \in Units : pc[u] = "exit"}

UV == INSTANCE UnitVerdict WITH verdict <- verdictBar, returned <- returnedBar

\* A run for a unit ends with every seed judged, in one atomic step as far as
\* local_verify.pl can tell (lines 208-209).
JudgesUnits == UV!Spec

\* Every seed is eventually judged, whatever adb loses.
AllJudged == \A s \in Seeds : <>(place[s] # "SEED_DIR")
=============================================================================
