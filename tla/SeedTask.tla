------------------------------- MODULE SeedTask -------------------------------
(***************************************************************************)
(* One seed task: gen_run_seeds.pl, which generates SEED_NUM seeds with    *)
(* art.py, and process_seeds.py, which it then runs to test them on the    *)
(* translator.  The task is one sequential process; what makes it hard is  *)
(* what it leaves behind when a step fails: the temporary file of a seed,  *)
(* the working directory, the counts and the files other scripts read      *)
(* (DONE, rit.log, and Done in the directory of failing seeds).            *)
(***************************************************************************)
EXTENDS Naturals, FiniteSets

CONSTANTS
  SEED_NUM,   \* seeds to generate
  LastMode,   \* the translator modes process_seeds.py runs: 1 .. LastMode
  Options     \* the option settings considered

ASSUME ConstantsAssumption ==
  /\ SEED_NUM \in Nat
  /\ LastMode \in Nat \ {0}
  /\ Options \subseteq [VERI : BOOLEAN, COV : BOOLEAN, REMOVE : BOOLEAN,
                        EXE : BOOLEAN, absFail : BOOLEAN]

Seeds == 1 .. SEED_NUM
Modes == 1 .. LastMode

VARIABLES
  opt,        \* the options; absFail: the argument of -f is an absolute path
  pc, i,      \* the point of the script and the seed its loop is at
  cwd,        \* the working directory: "start" or "SEED_DIR"
  tmpS,       \* the seed whose source is in tmp_seed.s, 0 if none
  tmpBin,     \* the seed whose program is in tmp_seed.bin, 0 if none
  binOf,      \* the seed whose program has the name of each seed, 0 if none
  errSrc,     \* ... and whose source has it in ERROR
  SUCC_NUM,
  place,      \* where the program of each name is
  failAt,     \* where SEED_FAIL was made: "none", "FAIL_DIR" or "SEED_DIR"
  m, failseed,\* process_seeds.py: the seed under test is at mode m
  lines,      \* rit.log: a seed's result in each mode
  DONE,       \* the number in the DONE file, once it is written
  removed,    \* SEED_DIR has been deleted
  done,       \* Done is in the directory of failing seeds
  covFailed,  \* history: seeds whose coverage run failed
  aborted     \* history: process_seeds.py ended with an exception

genVars  == <<i, tmpS, tmpBin, binOf, errSrc, SUCC_NUM, covFailed>>
procVars == <<m, failseed, lines, aborted>>
endVars  == <<DONE, removed, done>>
vars == <<opt, pc, cwd, place, failAt, genVars, procVars, endVars>>

Init ==
  /\ opt \in Options
  /\ pc = "loop" /\ i = 1
  /\ cwd = "start"
  /\ tmpS = 0 /\ tmpBin = 0
  /\ binOf = [s \in Seeds |-> 0]
  /\ errSrc = [s \in Seeds |-> 0]
  /\ SUCC_NUM = 0
  /\ place = [s \in Seeds |-> "none"]
  /\ failAt = "none"
  /\ m = 1 /\ failseed = FALSE
  /\ lines = [s \in Seeds |-> [k \in Modes |-> "none"]]
  /\ DONE = {} /\ removed = FALSE /\ done = FALSE
  /\ covFailed = {} /\ aborted = FALSE

-----------------------------------------------------------------------------
(***************************************************************************)
(* The loop over the seeds.  The unlinks at its top name files that do not *)
(* exist (tmp_seeds, tmp_seedbin), so the temporary files stay until they  *)
(* are moved, overwritten or unlinked below.                               *)
(***************************************************************************)
\* Mutant: one seed too many.
GeneratingOneMore == pc = "loop" /\ i <= SEED_NUM + 1

Generating == pc = "loop" /\ i <= SEED_NUM

\* The source of a seed that could not be used goes to ERROR, its program is
\* unlinked.  src: the seed whose source is in tmp_seed.s by then.
DropSeed(src) ==
  /\ errSrc' = IF opt.REMOVE \/ src = 0 THEN errSrc ELSE [errSrc EXCEPT ![i] = src]
  /\ tmpS' = IF opt.REMOVE THEN src ELSE 0
  /\ tmpBin' = 0
  /\ i' = i + 1

\* art.py fails, before it writes the source (then tmp_seed.s is what it was)
\* or after that.
ArtFails(src) ==
  /\ Generating
  /\ src \in {tmpS, i}
  /\ DropSeed(src)
  /\ UNCHANGED <<opt, pc, cwd, place, failAt, binOf, SUCC_NUM, covFailed, procVars, endVars>>

\* The generated program does not pass on QEMU (option -v).
VerifyFails ==
  /\ Generating
  /\ opt.VERI
  /\ DropSeed(i)
  /\ UNCHANGED <<opt, pc, cwd, place, failAt, binOf, SUCC_NUM, covFailed, procVars, endVars>>

\* The coverage run fails (option -c): the seed is counted and left behind,
\* and so is the working directory.
CovFails ==
  /\ Generating
  /\ opt.COV
  /\ SUCC_NUM' = SUCC_NUM + 1
  /\ covFailed' = covFailed \cup {i}
  /\ tmpS' = i
  /\ tmpBin' = i
  /\ cwd' = "SEED_DIR"
  /\ i' = i + 1
  /\ UNCHANGED <<opt, pc, place, failAt, binOf, errSrc, procVars, endVars>>

\* Mutant: the seed is not counted.
GeneratedUncounted ==
  /\ Generating
  /\ binOf' = [binOf EXCEPT ![i] = i]
  /\ place' = [place EXCEPT ![i] = "TMP"]
  /\ tmpBin' = 0
  /\ tmpS' = IF opt.REMOVE THEN i ELSE 0
  /\ i' = i + 1
  /\ UNCHANGED <<opt, pc, cwd, failAt, SUCC_NUM, errSrc, covFailed, procVars, endVars>>

\* Mutant: the source is not moved.
GeneratedSourceLeft ==
  /\ Generating
  /\ SUCC_NUM' = SUCC_NUM + 1
  /\ binOf' = [binOf EXCEPT ![i] = i]
  /\ place' = [place EXCEPT ![i] = "TMP"]
  /\ tmpBin' = 0
  /\ tmpS' = i
  /\ i' = i + 1
  /\ UNCHANGED <<opt, pc, cwd, failAt, errSrc, covFailed, procVars, endVars>>

\* The seed is generated and moved to TMP, its source to ASM.
Generated ==
  /\ Generating
  /\ SUCC_NUM' = SUCC_NUM + 1
  /\ binOf' = [binOf EXCEPT ![i] = i]
  /\ place' = [place EXCEPT ![i] = "TMP"]
  /\ tmpBin' = 0
  /\ tmpS' = IF opt.REMOVE THEN i ELSE 0
  /\ i' = i + 1
  /\ UNCHANGED <<opt, pc, cwd, failAt, errSrc, covFailed, procVars, endVars>>

\* With option -r the seed directory is deleted and what is left in it.
\* Perl's rmtree refuses to delete the directory the script is in.
RemoveSeedDir ==
  /\ removed' = (opt.REMOVE /\ cwd = "start")
  /\ place' = [s \in Seeds |->
                 IF removed' /\ place[s] \in {"TMP", "DEST", "SEED_DIR"}
                 THEN "deleted" ELSE place[s]]

\* Without option -e: report, clean up and exit.
ExitUntested ==
  /\ pc = "loop" /\ i > SEED_NUM
  /\ ~opt.EXE
  /\ DONE' = {SUCC_NUM}
  /\ RemoveSeedDir
  /\ pc' = "exit"
  /\ UNCHANGED <<opt, cwd, failAt, genVars, procVars, done>>

\* Mutant: Done is written before process_seeds.py has run.
MakeFailDirDone ==
  /\ pc = "loop" /\ i > SEED_NUM
  /\ opt.EXE
  /\ failAt' = IF opt.absFail \/ cwd = "start" THEN "FAIL_DIR" ELSE "SEED_DIR"
  /\ done' = TRUE
  /\ pc' = "process"
  /\ UNCHANGED <<opt, cwd, place, genVars, procVars, DONE, removed>>

\* With option -e: make SEED_FAIL, a path relative to the current directory
\* unless the argument of -f was absolute, and start process_seeds.py.
MakeFailDir ==
  /\ pc = "loop" /\ i > SEED_NUM
  /\ opt.EXE
  /\ failAt' = IF opt.absFail \/ cwd = "start" THEN "FAIL_DIR" ELSE "SEED_DIR"
  /\ pc' = "process"
  /\ UNCHANGED <<opt, cwd, place, genVars, procVars, endVars>>

-----------------------------------------------------------------------------
(***************************************************************************)
(* process_seeds.py, which runs in SEED_DIR.  A seed under test is the one *)
(* in place "test": its program is still in TMP.                           *)
(***************************************************************************)
ProcessSeed(s) ==
  /\ pc = "process"
  /\ place[s] = "TMP"
  /\ place' = [place EXCEPT ![s] = "test"]
  /\ m' = 1
  /\ failseed' = FALSE
  /\ pc' = "modes"
  /\ UNCHANGED <<opt, cwd, failAt, genVars, lines, aborted, endVars>>

\* Mutant: the last mode alone decides.
RunModeLast(s, res) ==
  /\ pc = "modes"
  /\ place[s] = "test"
  /\ m <= LastMode
  /\ lines' = [lines EXCEPT ![s][m] = res]
  /\ failseed' = (res = "fail")
  /\ m' = m + 1
  /\ UNCHANGED <<opt, pc, cwd, place, failAt, genVars, aborted, endVars>>

RunMode(s, res) ==
  /\ pc = "modes"
  /\ place[s] = "test"
  /\ m <= LastMode
  /\ lines' = [lines EXCEPT ![s][m] = res]
  /\ failseed' = (failseed \/ res = "fail")
  /\ m' = m + 1
  /\ UNCHANGED <<opt, pc, cwd, place, failAt, genVars, aborted, endVars>>

\* A failing seed is moved to the directory of failing seeds, which is below
\* SEED_DIR when the path is relative; a passing one is kept or deleted.
Dispose(s) ==
  /\ pc = "modes"
  /\ place[s] = "test"
  /\ m > LastMode
  /\ place' = [place EXCEPT ![s] =
                 IF failseed THEN IF opt.absFail THEN "FAIL_DIR" ELSE "SEED_DIR"
                 ELSE IF opt.REMOVE THEN "deleted" ELSE "DEST"]
  /\ pc' = "process"
  /\ UNCHANGED <<opt, cwd, failAt, genVars, procVars, endVars>>

\* An exception ends process_seeds.py; its exit status is not looked at.
Abort ==
  /\ pc \in {"process", "modes"}
  /\ aborted' = TRUE
  /\ place' = [s \in Seeds |-> IF place[s] = "test" THEN "TMP" ELSE place[s]]
  /\ pc' = "report"
  /\ UNCHANGED <<opt, cwd, failAt, genVars, m, failseed, lines, endVars>>

\* Mutant: one seed is left over.
ProcessedEarly ==
  /\ pc = "process"
  /\ pc' = "report"
  /\ UNCHANGED <<opt, cwd, place, failAt, genVars, procVars, endVars>>

Processed ==
  /\ pc = "process"
  /\ \A s \in Seeds : place[s] # "TMP"
  /\ pc' = "report"
  /\ UNCHANGED <<opt, cwd, place, failAt, genVars, procVars, endVars>>

-----------------------------------------------------------------------------
TestDone ==
  /\ pc = "report"
  /\ DONE' = {SUCC_NUM}
  /\ pc' = "cleanup"
  /\ UNCHANGED <<opt, cwd, place, failAt, genVars, procVars, removed, done>>

CleanUp ==
  /\ pc = "cleanup"
  /\ RemoveSeedDir
  /\ pc' = "handover"
  /\ UNCHANGED <<opt, cwd, failAt, genVars, procVars, DONE, done>>

WriteDone ==
  /\ pc = "handover"
  /\ done' = TRUE
  /\ pc' = "exit"
  /\ UNCHANGED <<opt, cwd, place, failAt, genVars, procVars, DONE, removed>>

Exited == pc = "exit" /\ UNCHANGED vars

Generate ==
  \/ \E src \in 0 .. SEED_NUM : ArtFails(src)
  \/ VerifyFails
  \/ CovFails
  \/ Generated

Process ==
  \/ \E s \in Seeds : ProcessSeed(s) \/ Dispose(s)
  \/ \E s \in Seeds, res \in {"pass", "fail"} : RunMode(s, res)
  \/ Abort
  \/ Processed

Next ==
  \/ Generate \/ ExitUntested \/ MakeFailDir
  \/ Process
  \/ TestDone \/ CleanUp \/ WriteDone \/ Exited

Spec == Init /\ [][Next]_vars

-----------------------------------------------------------------------------
\* Every variable keeps its type.
TypeOK ==
  /\ opt \in Options
  /\ pc \in {"loop", "process", "modes", "report", "cleanup", "handover", "exit"}
  /\ i \in 1 .. (SEED_NUM + 1)
  /\ cwd \in {"start", "SEED_DIR"}
  /\ tmpS \in 0 .. SEED_NUM
  /\ tmpBin \in 0 .. SEED_NUM
  /\ binOf \in [Seeds -> 0 .. SEED_NUM]
  /\ errSrc \in [Seeds -> 0 .. SEED_NUM]
  /\ SUCC_NUM \in 0 .. SEED_NUM
  /\ place \in [Seeds -> {"none", "TMP", "test", "DEST", "FAIL_DIR", "SEED_DIR", "deleted"}]
  /\ failAt \in {"none", "FAIL_DIR", "SEED_DIR"}
  /\ m \in 1 .. (LastMode + 1)
  /\ failseed \in BOOLEAN
  /\ lines \in [Seeds -> [Modes -> {"none", "pass", "fail"}]]
  /\ DONE \subseteq 0 .. SEED_NUM
  /\ removed \in BOOLEAN
  /\ done \in BOOLEAN
  /\ covFailed \subseteq Seeds
  /\ aborted \in BOOLEAN

Failing(s) == \E k \in Modes : lines[s][k] = "fail"
Tested(s) == \A k \in Modes : lines[s][k] # "none"

\* The number in DONE, which collect_NB_res.pl adds up, is the number of seeds
\* given to process_seeds.py plus those whose coverage run failed
\* (gen_run_seeds.pl:226-241).
Accounted ==
  SUCC_NUM = Cardinality({s \in Seeds : place[s] # "none"}) + Cardinality(covFailed)

\* A program is tested under the name it was generated for, and a source kept
\* in ERROR under the name of another seed is one left over by a failed
\* coverage run (gen_run_seeds.pl:203-211, 232-242).
NamesOwn ==
  \A s \in Seeds :
    /\ place[s] # "none" => binOf[s] = s
    /\ errSrc[s] \notin {0, s} => errSrc[s] \in covFailed

\* The two directories agree with rit.log: a seed is in the directory of
\* failing seeds only if some mode failed, and kept in DEST only if every mode
\* passed (process_seeds.py:45-141).  That no failing seed was deleted is part
\* of DoneComplete.
LogAgrees ==
  \A s \in Seeds :
    /\ place[s] = "FAIL_DIR" => Tested(s) /\ Failing(s)
    /\ place[s] = "DEST" => Tested(s) /\ ~Failing(s)

\* When Done is written (gen_run_seeds.pl:282) every failing seed is in the
\* directory, unless process_seeds.py ended early or the argument of -f was a
\* relative path; and every generated seed has been tested in every mode.
DoneComplete ==
  done /\ ~aborted =>
    \A s \in Seeds :
      /\ binOf[s] # 0 => Tested(s)
      /\ Failing(s) /\ opt.absFail => place[s] = "FAIL_DIR"

\* The directory the verifier reads, as local_verify.pl sees it.
dirBar == IF failAt # "FAIL_DIR" THEN "absent" ELSE IF done THEN "Done" ELSE "filling"

givenBar == {s \in Seeds : place[s] = "FAIL_DIR"}

FD == INSTANCE FailDir WITH dir <- dirBar, given <- givenBar

\* The task keeps the protocol local_verify.pl relies on (lines 137-146).
FillsDir == FD!Spec

\* A failing seed ends up in the directory given with option -f.
FailedKept ==
  pc = "exit" /\ ~aborted => \A s \in Seeds : Failing(s) => place[s] = "FAIL_DIR"
=============================================================================
