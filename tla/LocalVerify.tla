------------------------------ MODULE LocalVerify ------------------------------
(***************************************************************************)
(* The local verifier, script/local_verify.pl, together with what it       *)
(* exchanges files with: the seed tasks that fill the directories of       *)
(* failing seeds (gen_run_seeds.pl and process_seeds.py) and the processes *)
(* it forks, one per unit of seeds, which run run_on_ARM.pl and            *)
(* run_on_UBT.pl.                                                          *)
(*                                                                         *)
(* All communication is by files.  A seed is in exactly one place, loc[s]; *)
(* directories and seeds are numbers so that "the next name of a glob" is  *)
(* the least one, the order Perl's glob returns names in.  Every move the  *)
(* scripts make stays below one result directory, so it is a rename.       *)
(***************************************************************************)
EXTENDS Naturals, FiniteSets

CONSTANTS
  Dirs,       \* the directories below SEED_DIR, numbered in name order
  Seeds,      \* the seeds, numbered in name order
  Owner,      \* the directory a seed is put in when it fails
  UNIT_MAX,   \* seeds in a full unit (100 in the code)
  TIME_SPAN,  \* a unit is submitted at the latest after this long (1800)
  SCAN_SPAN,  \* what one round of the main loop sleeps (2)
  LastMode,   \* the last translator mode: 3, or 4 with a rel_tia build
  ADB_MAX,    \* two readings of the adb count may sum to this much (10)
  AdbServer   \* adb processes that run all the time

ASSUME ConstantsAssumption ==
  /\ Dirs \subseteq Nat
  /\ Seeds \subseteq Nat
  /\ IsFiniteSet(Seeds)
  /\ Owner \in [Seeds -> Dirs]
  /\ UNIT_MAX \in Nat \ {0}
  /\ TIME_SPAN \in Nat
  /\ SCAN_SPAN \in Nat \ {0}
  /\ LastMode \in Nat \ {0}
  /\ ADB_MAX \in Nat
  /\ AdbServer \in Nat

VARIABLES
  dirs,       \* what the verifier can see of each directory
  loc,        \* where each seed is
  unitOf,     \* the unit a seed was moved to
  pc,         \* the point of the main loop
  globOn,     \* the scalar-context glob of the scan has a list left over
  globRest,   \* ... and these are the names it has not returned yet
  fdirs,      \* the directories the running scan has not finished
  UNIT_CNT, UNIT_NUM, SPAN_CNT,
  child,      \* the forked process of every unit submitted so far
  tmpRes,     \* the log files in TMP_RES
  resFiles,   \* the log files the running merge has not appended
  merged,     \* lines of a seed in the result log of a mode
  cut         \* history: some scan was left before its glob was exhausted

scanVars     == <<globOn, globRest, fdirs, cut>>
unitVars     == <<UNIT_CNT, UNIT_NUM, SPAN_CNT>>
logVars      == <<tmpRes, resFiles, merged>>
vars == <<dirs, loc, unitOf, pc, scanVars, unitVars, child, logVars>>

(***************************************************************************)
(* Mode 0 is the run on the ARM device, modes 1 .. LastMode the runs of    *)
(* the translator.  Their logs ARM_nat, LOC_cosim, LOC_intrp, LOC_rel_tia  *)
(* and LOC_tia sort by name in the order the modes are run in.             *)
(***************************************************************************)
Modes == 0 .. LastMode

LogFile == [mode : Modes, unit : Nat, lines : [Seeds -> Nat]]

Places == {"generated", "dir", "unit", "armpass", "armfail",
           "PASS", "FAIL", "lost"}

Units == 0 .. (UNIT_NUM - 1)

Child == [pc   : {"adb1", "adb2", "arm", "ubt", "collect", "exit"},
          adb  : Nat,
          mode : 1 .. (LastMode + 1)]

\* The least element of S, as a predicate: Perl's glob sorts its result.
First(x, S) == x \in S /\ \A y \in S : x <= y

InDir(d) == {s \in Seeds : loc[s] = "dir" /\ Owner[s] = d}

InUnit(u, place) == {s \in Seeds : loc[s] = place /\ unitOf[s] = u}

NoLines == [s \in Seeds |-> 0]

\* One more line for every seed of S.
PlusLines(old, S) == [s \in Seeds |-> old[s] + IF s \in S THEN 1 ELSE 0]

\* The logs of a unit are named after the mode and the unit; a log file
\* exists only once a line has been written to it.
Log(m, u, lines) ==
  IF lines = NoLines THEN {} ELSE {[mode |-> m, unit |-> u, lines |-> lines]}

\* TMP_RES after a log was moved there: a file of the same name is replaced.
MoveLog(m, u, lines) ==
  LET old == IF lines = NoLines THEN {} ELSE {f \in tmpRes : f.mode = m /\ f.unit = u}
  IN  (tmpRes \ old) \cup Log(m, u, lines)

Init ==
  /\ dirs = [d \in Dirs |-> "absent"]
  /\ loc = [s \in Seeds |-> "generated"]
  /\ unitOf = [s \in Seeds |-> 0]
  /\ pc = "top"
  /\ globOn = FALSE
  /\ globRest = {}
  /\ fdirs = {}
  /\ UNIT_CNT = 0
  /\ UNIT_NUM = 0
  /\ SPAN_CNT = 0
  /\ child = [u \in Units |-> [pc |-> "exit", adb |-> 0, mode |-> 1]]
  /\ tmpRes = {}
  /\ resFiles = {}
  /\ merged = [m \in Modes |-> [s \in Seeds |-> 0]]
  /\ cut = FALSE

-----------------------------------------------------------------------------
(***************************************************************************)
(* The seed task that fills directory d.  It may stop at any point, and a  *)
(* seed that does not fail is never put in the directory.                  *)
(***************************************************************************)
MakeFailDir(d) ==
  /\ dirs[d] = "absent"
  /\ dirs' = [dirs EXCEPT ![d] = "filling"]
  /\ UNCHANGED <<loc, unitOf, pc, scanVars, unitVars, child, logVars>>

FailSeed(s) ==
  /\ loc[s] = "generated"
  /\ dirs[Owner[s]] = "filling"
  /\ loc' = [loc EXCEPT ![s] = "dir"]
  /\ UNCHANGED <<dirs, unitOf, pc, scanVars, unitVars, child, logVars>>

WriteDone(d) ==
  /\ dirs[d] = "filling"
  /\ dirs' = [dirs EXCEPT ![d] = "Done"]
  /\ UNCHANGED <<loc, unitOf, pc, scanVars, unitVars, child, logVars>>

-----------------------------------------------------------------------------
(***************************************************************************)
(* The main loop, first part: append the logs in TMP_RES to the result     *)
(* logs.  The list of files is read once, before the first is appended.    *)
(***************************************************************************)
\* Mutant: only the log of the device is looked for.
GlobTmpResArmOnly ==
  /\ pc = "top"
  /\ resFiles' = {f \in tmpRes : f.mode = 0}
  /\ pc' = "merge"
  /\ UNCHANGED <<dirs, loc, unitOf, scanVars, unitVars, child, tmpRes, merged>>

GlobTmpRes ==
  /\ pc = "top"
  /\ resFiles' = tmpRes
  /\ pc' = "merge"
  /\ UNCHANGED <<dirs, loc, unitOf, scanVars, unitVars, child, tmpRes, merged>>

\* Mutant: the files are appended in any order.
MergeFileUnsorted(f) ==
  /\ pc = "merge"
  /\ f \in resFiles
  /\ merged' = [merged EXCEPT ![f.mode] =
                  [s \in Seeds |-> @[s] + f.lines[s]]]
  /\ tmpRes' = tmpRes \ {f}
  /\ resFiles' = resFiles \ {f}
  /\ UNCHANGED <<dirs, loc, unitOf, pc, scanVars, unitVars, child>>

\* Mutant: the file is not unlinked after it was appended.
MergeFileKept(f) ==
  /\ pc = "merge"
  /\ f \in resFiles
  /\ \A g \in resFiles : f.mode <= g.mode
  /\ merged' = [merged EXCEPT ![f.mode] =
                  [s \in Seeds |-> @[s] + f.lines[s]]]
  /\ resFiles' = resFiles \ {f}
  /\ UNCHANGED <<dirs, loc, unitOf, pc, scanVars, unitVars, child, tmpRes>>

MergeFile(f) ==
  /\ pc = "merge"
  /\ f \in resFiles
  /\ \A g \in resFiles : f.mode <= g.mode
  /\ merged' = [merged EXCEPT ![f.mode] =
                  [s \in Seeds |-> @[s] + f.lines[s]]]
  /\ tmpRes' = tmpRes \ {f}
  /\ resFiles' = resFiles \ {f}
  /\ UNCHANGED <<dirs, loc, unitOf, pc, scanVars, unitVars, child>>

(***************************************************************************)
(* Second part: move the seeds of every finished directory to the current  *)
(* unit.  "while (glob ...)" is a scalar-context glob: a fresh one reads   *)
(* the directory, later ones return the next name of that list WHATEVER    *)
(* their pattern is, until the list is used up.  The goto that leaves the  *)
(* loop when the unit is full does not reset it.                           *)
(***************************************************************************)
GlobSeedDir ==
  /\ pc = "merge"
  /\ resFiles = {}
  /\ fdirs' = {d \in Dirs : dirs[d] \in {"filling", "Done"}}
  /\ pc' = "scan"
  /\ UNCHANGED <<dirs, loc, unitOf, globOn, globRest, cut, unitVars, child, logVars>>

SkipDir(d) ==
  /\ pc = "scan"
  /\ First(d, fdirs)
  /\ dirs[d] # "Done"
  /\ fdirs' = fdirs \ {d}
  /\ UNCHANGED <<dirs, loc, unitOf, pc, globOn, globRest, cut, unitVars, child, logVars>>

\* Mutant: the Done file is not tested.
ScanningUnfinished(d) == pc = "scan" /\ First(d, fdirs)

\* The scan is at directory d, which passed the test for its Done file.
Scanning(d) == pc = "scan" /\ First(d, fdirs) /\ dirs[d] = "Done"

\* What the glob of the scan returns, one name at a time, in directory d.
GlobList(d) == IF globOn THEN globRest ELSE InDir(d)

TakeSeed(d, s) ==
  /\ Scanning(d)
  /\ First(s, GlobList(d))
  /\ UNIT_CNT < UNIT_MAX
  /\ globOn' = TRUE
  /\ globRest' = GlobList(d) \ {s}
  /\ loc' = [loc EXCEPT ![s] = "unit"]
  /\ unitOf' = [unitOf EXCEPT ![s] = UNIT_NUM]
  /\ UNIT_CNT' = UNIT_CNT + 1
  /\ UNCHANGED <<dirs, pc, fdirs, cut, UNIT_NUM, SPAN_CNT, child, logVars>>

CutScan(d, s) ==
  /\ Scanning(d)
  /\ First(s, GlobList(d))
  /\ UNIT_CNT >= UNIT_MAX
  /\ globOn' = TRUE
  /\ globRest' = GlobList(d) \ {s}
  /\ cut' = TRUE
  /\ fdirs' = {}
  /\ pc' = "submit"
  /\ UNCHANGED <<dirs, loc, unitOf, unitVars, child, logVars>>

\* Mutant: the directory is deleted while its list is still being read.
RemoveDirEarly(d) ==
  /\ Scanning(d)
  /\ globOn' = FALSE
  /\ globRest' = {}
  /\ dirs' = [dirs EXCEPT ![d] = "removed"]
  /\ loc' = [s \in Seeds |-> IF s \in InDir(d) THEN "lost" ELSE loc[s]]
  /\ fdirs' = fdirs \ {d}
  /\ UNCHANGED <<unitOf, pc, cut, unitVars, child, logVars>>

\* Mutant: the directory is not deleted.
RemoveDirNot(d) ==
  /\ Scanning(d)
  /\ GlobList(d) = {}
  /\ globOn' = FALSE
  /\ globRest' = {}
  /\ fdirs' = fdirs \ {d}
  /\ UNCHANGED <<dirs, loc, unitOf, pc, cut, unitVars, child, logVars>>

RemoveDir(d) ==
  /\ Scanning(d)
  /\ GlobList(d) = {}
  /\ globOn' = FALSE
  /\ globRest' = {}
  /\ dirs' = [dirs EXCEPT ![d] = "removed"]
  /\ loc' = [s \in Seeds |-> IF s \in InDir(d) THEN "lost" ELSE loc[s]]
  /\ fdirs' = fdirs \ {d}
  /\ UNCHANGED <<unitOf, pc, cut, unitVars, child, logVars>>

EndScan ==
  /\ pc = "scan"
  /\ fdirs = {}
  /\ pc' = "submit"
  /\ UNCHANGED <<dirs, loc, unitOf, scanVars, unitVars, child, logVars>>

(***************************************************************************)
(* Third part: fork a process for the unit when it is full or old enough.  *)
(***************************************************************************)
Due == SPAN_CNT >= TIME_SPAN \/ UNIT_CNT >= UNIT_MAX

\* Mutant: the time slept is not accounted for.
SleepUncounted ==
  /\ pc = "submit"
  /\ ~Due
  /\ pc' = "top"
  /\ UNCHANGED <<dirs, loc, unitOf, scanVars, unitVars, child, logVars>>

Sleep ==
  /\ pc = "submit"
  /\ ~Due
  /\ SPAN_CNT' = SPAN_CNT + SCAN_SPAN
  /\ pc' = "top"
  /\ UNCHANGED <<dirs, loc, unitOf, scanVars, UNIT_CNT, UNIT_NUM, child, logVars>>

SubmitNothing ==
  /\ pc = "submit"
  /\ Due
  /\ UNIT_CNT <= 0
  /\ SPAN_CNT' = 0
  /\ pc' = "top"
  /\ UNCHANGED <<dirs, loc, unitOf, scanVars, UNIT_CNT, UNIT_NUM, child, logVars>>

\* Mutant: the count is reset although nothing was forked.
ForkFailsReset ==
  /\ pc = "submit"
  /\ Due
  /\ UNIT_CNT > 0
  /\ SPAN_CNT' = 0
  /\ UNIT_CNT' = 0
  /\ pc' = "top"
  /\ UNCHANGED <<dirs, loc, unitOf, scanVars, UNIT_NUM, child, logVars>>

ForkFails ==
  /\ pc = "submit"
  /\ Due
  /\ UNIT_CNT > 0
  /\ SPAN_CNT' = 0
  /\ pc' = "top"
  /\ UNCHANGED <<dirs, loc, unitOf, scanVars, UNIT_CNT, UNIT_NUM, child, logVars>>

Fork ==
  /\ pc = "submit"
  /\ Due
  /\ UNIT_CNT > 0
  /\ child' = [u \in 0 .. UNIT_NUM |->
                 IF u = UNIT_NUM THEN [pc |-> "adb1", adb |-> 0, mode |-> 1]
                                 ELSE child[u]]
  /\ UNIT_CNT' = 0
  /\ UNIT_NUM' = UNIT_NUM + 1
  /\ SPAN_CNT' = SCAN_SPAN
  /\ pc' = "top"
  /\ UNCHANGED <<dirs, loc, unitOf, scanVars, logVars>>

-----------------------------------------------------------------------------
(***************************************************************************)
(* The forked process of unit u.  It first waits until two readings of     *)
(* "pgrep -c adb", a second apart, sum to at most ADB_MAX.                 *)
(***************************************************************************)
AdbCount == AdbServer + Cardinality({v \in Units : child[v].pc = "arm"})

ReadAdb(u) ==
  /\ child[u].pc = "adb1"
  /\ child' = [child EXCEPT ![u].pc = "adb2", ![u].adb = AdbCount]
  /\ UNCHANGED <<dirs, loc, unitOf, pc, scanVars, unitVars, logVars>>

ReadAdbAgain(u) ==
  /\ child[u].pc = "adb2"
  /\ LET ADB_NUM == child[u].adb + AdbCount
     IN child' = [child EXCEPT ![u].pc = IF ADB_NUM <= ADB_MAX THEN "arm" ELSE "adb1",
                               ![u].adb = 0]
  /\ UNCHANGED <<dirs, loc, unitOf, pc, scanVars, unitVars, logVars>>

\* run_on_ARM.pl on the unit: the seeds of P pass on the device, the others
\* fail; then its log, which began with the lines of old, is moved to TMP_RES.
RunOnArm(u, P, old) ==
  /\ child[u].pc = "arm"
  /\ P \subseteq InUnit(u, "unit")
  /\ loc' = [s \in Seeds |-> IF s \notin InUnit(u, "unit") THEN loc[s]
                             ELSE IF s \in P THEN "armpass" ELSE "armfail"]
  /\ tmpRes' = MoveLog(0, u, PlusLines(old, InUnit(u, "unit")))
  /\ child' = [child EXCEPT ![u].pc = "ubt"]
  /\ UNCHANGED <<dirs, unitOf, pc, scanVars, unitVars, resFiles, merged>>

\* Mutant: one mode too many.
RunOnUbtOneMore(u, old) ==
  /\ child[u].pc = "ubt"
  /\ tmpRes' = MoveLog(child[u].mode, u, PlusLines(old, InUnit(u, "armpass")))
  /\ child' = [child EXCEPT ![u] =
                 [pc   |-> IF child[u].mode > LastMode THEN "collect" ELSE "ubt",
                  adb  |-> 0,
                  mode |-> child[u].mode + 1]]
  /\ UNCHANGED <<dirs, loc, unitOf, pc, scanVars, unitVars, resFiles, merged>>

\* run_on_UBT.pl, in the next mode, on the seeds that passed on the device;
\* then its log is moved to TMP_RES.
RunOnUbt(u, old) ==
  /\ child[u].pc = "ubt"
  /\ tmpRes' = MoveLog(child[u].mode, u, PlusLines(old, InUnit(u, "armpass")))
  /\ child' = [child EXCEPT ![u] =
                 [pc   |-> IF child[u].mode = LastMode THEN "collect" ELSE "ubt",
                  adb  |-> 0,
                  mode |-> child[u].mode + 1]]
  /\ UNCHANGED <<dirs, loc, unitOf, pc, scanVars, unitVars, resFiles, merged>>

\* Move the judged seeds to the result directory, delete the unit, exit.
Collect(u) ==
  /\ child[u].pc = "collect"
  /\ loc' = [s \in Seeds |-> IF s \in InUnit(u, "armfail") THEN "FAIL"
                             ELSE IF s \in InUnit(u, "armpass") THEN "PASS"
                             ELSE IF s \in InUnit(u, "unit") THEN "lost"
                             ELSE loc[s]]
  /\ child' = [child EXCEPT ![u].pc = "exit"]
  /\ UNCHANGED <<dirs, unitOf, pc, scanVars, unitVars, logVars>>

-----------------------------------------------------------------------------
Task ==
  \/ \E d \in Dirs : MakeFailDir(d) \/ WriteDone(d)
  \/ \E s \in Seeds : FailSeed(s)

Merge == GlobTmpRes \/ \E f \in resFiles : MergeFile(f)

Scan ==
  \/ GlobSeedDir
  \/ EndScan
  \/ \E d \in fdirs : SkipDir(d) \/ RemoveDir(d)
  \/ \E d \in fdirs, s \in Seeds : TakeSeed(d, s) \/ CutScan(d, s)

Submit == Sleep \/ SubmitNothing \/ ForkFails \/ Fork

Parent == Merge \/ Scan \/ Submit

VerThd(u) ==
  \/ ReadAdb(u)
  \/ ReadAdbAgain(u)
  \/ \E P \in SUBSET InUnit(u, "unit") : RunOnArm(u, P, NoLines)
  \/ RunOnUbt(u, NoLines)
  \/ Collect(u)

Next == Task \/ Parent \/ \E u \in Units : VerThd(u)

Spec == Init /\ [][Next]_vars

(***************************************************************************)
(* Fairness: the main loop and the forked processes keep running (the runs *)
(* of a seed on the device and on the translator are under "timeout -s 9"; *)
(* adb push and adb shell rm, which are not, are taken to return), and     *)
(* fork does not fail for ever.  Nothing is assumed of the tasks that      *)
(* deliver seeds.                                                          *)
(***************************************************************************)
Fairness ==
  /\ WF_vars(Parent)
  /\ SF_vars(Fork)
  /\ \A u \in 0 .. Cardinality(Seeds) :
       WF_vars(u \in Units /\ VerThd(u))

FairSpec == Spec /\ Fairness

-----------------------------------------------------------------------------
(***************************************************************************)
(* Properties.                                                             *)
(***************************************************************************)

\* Every variable keeps its type; in particular the logs below TMP_RES are
\* logs of modes the merge loop of local_verify.pl (lines 126-134) knows.
TypeOK ==
  /\ dirs \in [Dirs -> {"absent", "filling", "Done", "removed"}]
  /\ loc \in [Seeds -> Places]
  /\ unitOf \in [Seeds -> Nat]
  /\ pc \in {"top", "merge", "scan", "submit"}
  /\ globOn \in BOOLEAN
  /\ globRest \subseteq Seeds
  /\ fdirs \subseteq Dirs
  /\ UNIT_CNT \in Nat
  /\ UNIT_NUM \in Nat
  /\ SPAN_CNT \in Nat
  /\ child \in [Units -> Child]
  /\ tmpRes \subseteq LogFile
  /\ resFiles \subseteq LogFile
  /\ merged \in [Modes -> [Seeds -> Nat]]
  /\ cut \in BOOLEAN

\* The Done protocol: the verifier takes or deletes seeds of a directory only
\* after the task wrote Done into it (gen_run_seeds.pl:282), and no task adds
\* a seed to a directory that local_verify.pl:146 deleted.
HandOver ==
  \A s \in Seeds :
    /\ loc[s] = "dir" => dirs[Owner[s]] \in {"filling", "Done"}
    /\ loc[s] \notin {"generated", "dir"} => dirs[Owner[s]] \in {"Done", "removed"}

\* UNIT_CNT counts the seeds in the unit being filled, at most UNIT_MAX, and
\* a seed in any other unit is one its forked process has yet to run: so no
\* process works on a unit the main loop still fills (local_verify.pl:136,
\* 154-157), and its rmtree (line 233) finds no unjudged seed.
UnitPrivate ==
  /\ UNIT_CNT = Cardinality(InUnit(UNIT_NUM, "unit"))
  /\ UNIT_CNT <= UNIT_MAX
  /\ \A s \in Seeds :
       loc[s] = "unit" /\ unitOf[s] # UNIT_NUM
         => /\ unitOf[s] \in Units
            /\ child[unitOf[s]].pc \in {"adb1", "adb2", "arm"}

\* A seed has a line in the result log of a translator mode only when its
\* line is in the result log of the device: show_final_res.pl subtracts the
\* one from the other.  It holds because a process moves its logs to TMP_RES
\* in that order and the merge appends them in the order of their names.
LogsInStep ==
  \A m \in Modes, s \in Seeds : merged[m][s] > 0 => merged[0][s] > 0

\* Every seed whose verification is over has exactly one line per log, either
\* merged or still in TMP_RES: a log of every mode when it passed on the
\* device, the device's log only when it failed there; and no seed ever has
\* two lines in one log.
LinesExact ==
  \A m \in Modes, s \in Seeds :
    LET pending == {f \in tmpRes : f.mode = m /\ f.lines[s] > 0}
        lines   == merged[m][s] + Cardinality(pending)
    IN /\ lines <= 1
       /\ loc[s] = "PASS" => lines = 1
       /\ loc[s] = "FAIL" => lines = IF m = 0 THEN 1 ELSE 0

\* As long as no scan was left early because the unit was full
\* (local_verify.pl:142), rmtree deletes only empty directories.
LossOnlyAfterCut == ~cut => \A s \in Seeds : loc[s] # "lost"

\* Every seed of a directory handed to the verifier is verified, never
\* deleted unseen (local_verify.pl:140-146).
NoSeedLost == \A s \in Seeds : loc[s] # "lost"

\* A seed moved to a unit is eventually judged on the device and stored in
\* the result directory, also when the unit never fills up and when forks
\* fail now and then (local_verify.pl:149-158, 181-239).
UnitVerified ==
  \A s \in Seeds : loc[s] = "unit" ~> loc[s] \in {"PASS", "FAIL"}

\* Every mode's line of a seed that passed on the device eventually reaches
\* the result log of that mode (local_verify.pl:126-134).
ResultsMerged ==
  \A s \in Seeds : loc[s] = "PASS" ~> \A m \in Modes : merged[m][s] = 1

\* A finished directory is eventually emptied and deleted.
DirsDrained ==
  \A d \in Dirs : dirs[d] = "Done" ~> dirs[d] = "removed"
=============================================================================
