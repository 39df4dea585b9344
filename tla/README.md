# A verification project for RIT

RIT ("random instruction test") generates random ARM and Thumb programs, the
*seeds*, runs each of them on a binary translator in several modes, on QEMU and
on an ARM device, and reports which seeds the translator gets wrong.  A
campaign is thousands of seed tasks on a batch system (NetBatch); one machine
with an ARM device attached, the local verifier, picks up the seeds that failed
and repeats them.  Everything communicates through files.

The TLA+ modules here model the scripts that move, judge and count seeds, the
build of the shared library, the part of the generator that lays out the
control flow of a seed, down to the execution of the generated program, and the
random instruction generator that fills its basic blocks (the Python block
generators and the C library below them).  TLC checks them on small instances;
TLAPS proves the main results for all values of the constants.  Paths below are
relative to `src/rit/`.

## 1. Inventory

| component | state it keeps | operations | modelled in |
|---|---|---|---|
| local verifier, `script/local_verify.pl` | directories below `SEED_DIR`, the unit being filled (`UNIT_CNT`, `UNIT_NUM`, `SPAN_CNT`), the iterator of a scalar `glob`, logs in `TMP_RES` and result logs | merge logs, scan directories, submit a unit (fork), forked `VerThd`; stop and restart | `LocalVerify`, `VerifyRestart` |
| device runner, `script/run_on_ARM.pl` | program file on the device, remaining tests `ERROR_CNT`, last answer `ADB_RES` | push, shell, rm, repeat, pass/fail/remove | `ArmRunner`, abstract `UnitVerdict` |
| translator runner, `script/run_on_UBT.pl` | one log per mode and unit | run all seeds of a unit in one mode | action `RunOnUbt` of `LocalVerify` |
| seed task, `script/gen_run_seeds.pl`, `script/process_seeds.py` | `tmp_seeds.s`, `tmp_seedbin`, `SUCC_NUM`, the working directory, `rit.log`, `DONE`, the directory of failing seeds | generate, verify on QEMU, measure coverage, test in all modes, sort, clean up, hand over | `SeedTask`, abstract `FailDir` |
| library build, `src/Makefile`, `run_on_NB.pl`, `gen_run_seeds.pl` | `src/librit.so`, `bin/librit.so` | unlink, make, test, rename | `LibBuild` |
| control-flow generator, `art/randomblock.py`, `art/code.py`, part of `art/instrgen.py`, `art/options.py`, `art/art.py` | the context (`nest`, instruction set, basic blocks with their limits), the program text; in the program: `cfgdata`, `excladdr`, `exclcnt`, `exclflag` | `makeRandomBlock` of every block type, `genTest` | `RandomBlock`, `SeedProgram` |
| block generators and wrapper, `art/instrgen.py`, `art/rit.py`, `art/arminfo.py` | lines and failures of the block being filled, the hexcode of the last word | `genMemInstrs`, `genInstrs`, `genMulShiftInstrs`, `genALUwritePC`, the retries of `gen_single_inst_*`, `parseRIT` | `RitLib` |
| C library, `src/*.c` | options that outlive a call (`isa`, `cond_val`), `instr_buf`, tries left | `py_gen_instr`, `py_gen_instr_with_op`, `main`, `gen_instr`, `preprocess_instr`, every generator function, the code that fixes a base | `InstrStatus`, `InstrForms`, `MemAccess`, `RitLib` |
| campaign start, `script/run_on_NB.pl` | result pool, task list | delete the pool, split seed numbers, submit | its build: `LibBuild`; rest not modelled |
| result reports, coverage, self-check, second C library `new_src/`, VFP and NEON generators, drivers, QEMU | | | not modelled, see section 8 |

**Interactions.**  A campaign (`run_on_NB.pl`) builds `librit.so` and submits
tasks.  A task (`gen_run_seeds.pl`) may build it again, calls `art.py` for every
seed, then `process_seeds.py` for all of them; failing seeds are moved to a
directory of their own, and a file `Done` in it tells the local verifier that
the task is finished with it.  The verifier moves seeds of finished directories
to a unit directory, forks a process when the unit is full or old enough, and
that process calls `run_on_ARM.pl` and `run_on_UBT.pl` and moves their logs to
`TMP_RES`, where the verifier's main loop finds and merges them.  Inside
`art.py` the block generators ask the wrapper `rit.py` for one instruction after
the other; the wrapper calls `librit.so` until it returns a usable word, and the
library keeps the options of one call for the next.

**What is hard.**  Nothing is locked: the verifier scans directories that tasks
are filling, merges logs that processes are moving, several runners share one
device, several scripts build and rename one library.  Almost no exit status is
looked at.  A `glob` iterator outlives the loop it was written for.  The
generator keeps one mutable context for a recursive traversal, and the programs
it writes keep loop counters and return addresses in a few words of memory that
nested blocks must not share; a mistake there shows only as a seed that hangs
or crashes.  Three nested retry loops, each with its own counter, stand between
a block and a word of the C library, which after its last try prints whatever
that one left; and a word that accesses memory is safe only with the lines in
front of it, which the wrapper sometimes drops.  `PROJECT.json` lists these
hazards with their lines.

**What makes the components correct.**

* Verifier: no seed is taken before its directory is handed over, none is lost,
  no unit is worked on while it is filled, every log line reaches the result
  exactly once and not before the one it is compared with, every seed is
  eventually judged; a stop at any point and a restart lose neither seeds nor
  results, and repeat results a bounded number of times.
* Device runner: a verdict is the seed's own; a seed is given up only after all
  its tests; a unit's verdicts appear at once.
* Seed task: counts, names, places and logs of seeds agree; what is handed over
  is complete; after `Done` the directory does not change.
* Library build: whoever gets past the build finds a complete library.
* Generator: the context is put back, data words are kept apart, calls return,
  every instruction runs in the instruction set it was assembled for, limits
  are never contradictory, every program ends.
* Instruction generator: the buffer is never overrun, a random instruction never
  writes `pc` unless its target was checked, a memory access stays in the data
  area, an instruction is what was asked for, every block is filled in the end.

## 2. Plan

Order of work, most important behaviour first.

1. *(done)* `LocalVerify`, then `ArmRunner` with `UnitVerdict`, `SeedTask` with
   `FailDir`, `LibBuild`; then `RandomBlock` and, on top of it, `SeedProgram`.
2. *(done)* The instruction generator: `InstrStatus` (the verdicts of the
   generator functions), `InstrForms` (forms, operands, effects), `MemAccess`
   (the code before a memory access), `RitLib` (the calls and their state).
3. *(done)* `VerifyRestart`, the stop and restart of `local_verify.pl`.
4. *(done, proofs)* `UnitPrivate`, `LogsInStep` and `LinesExact` of the verifier
   and `ResultsKept` and `RepeatsBounded` of its restart; `LimitsInOrder` of
   the generator (the `KeyError` of `genBranch` is unreachable); `TypeOK`,
   `IsaMatches`, `ReturnsToCaller` and `ExclFresh` of the programs it writes;
   `AccessInData` of the instructions in them.  With these every safety
   property the runs check is proved.
5. *(left, models)* The register and flag FSMs of a basic block
   (`instrgen.py:143-159`), IT blocks (272-346).

**Composition.**  `LocalVerify` contains tasks and device runs as atomic steps.
Two abstract specifications state exactly what those steps are: `FailDir` (its
actions `MakeFailDir`, `FailSeed`, `WriteDone`) and `UnitVerdict` (`RunOnArm`).
`SeedTask` is shown to implement the first and `ArmRunner` the second, with
refinement mappings, both by TLC and by proof.  `SeedProgram` extends
`RandomBlock` and runs the program it produced.  `RitLib` extends `MemAccess`,
`InstrForms` and `InstrStatus`; `VerifyRestart` extends `LocalVerify` and adds
one action.  The instruction `basic` of `RandomBlock` stands for what `RitLib`
generates: `NoPcWrite` is what justifies that it continues with the next one,
`TwinsAlike` that `genALUwritePC` goes where it was checked to go.

## 3. Modules and code

**`LocalVerify`** - the main loop has the points `top` (list `TMP_RES`), `merge`
(append one file, unlink it, lines 126-134), `scan` (136-147) and `submit`
(149-163).  `globOn` and `globRest` are the state of the `glob` in scalar
context at line 140: it returns the remaining names of its list whatever
directory is being scanned, because it looks at its pattern again only when it
is exhausted, and the `goto` of line 142 leaves it unexhausted (`CutScan`).
`TakeSeed` is one turn of that loop, `RemoveDir` its end with the `rmtree`.
`Fork`, `ForkFails`, `SubmitNothing` and `Sleep` are the four ways through
`SBM_TASK`.  `VerThd` is the forked process: two readings of the number of adb
processes, the device run, one `RunOnUbt` per mode, `Collect`.  Places of seeds
(`loc`) are directories; moves are renames.  `unitOf`, `cut` are history.

**`ArmRunner`** - one `run_on_ARM.pl` per unit, all on one device.  Every `adb`
call is a step; push and rm may be lost, as their status is ignored.  The file
on the device is named after the unit (`local_verify.pl:186`, `CUR_TEST_BIN`).
A shell call answers with the result of the program that is in the file,
or with `missing`, `busy` or nothing (`empty`).

**`SeedTask`** - the seed loop (190-243) has one action per way through an
iteration: `ArtFails`, `VerifyFails`, `CovFails`, `Generated`.  Then
`MakeFailDir`, the calls of `process_seeds.py` (`ProcessSeed`, `RunMode` per
mode, `Dispose`, `Processed`, or `Abort` for an exception), `TestDone`,
`CleanUp`, `WriteDone`.  `opt` holds the options, among them whether the
argument of `-f` is an absolute path; `cwd` is the working directory.

**`LibBuild`** - two kinds of processes, campaigns (`Starters`) and tasks.  The
steps are unlinking, the search for the library, the parts of `make` and the
link, the test and the rename.  The linker creates a new file, which a rename
may move before it is complete.

**`RandomBlock`** - `stack` holds the activations of the recursive
`makeRandomBlock`, each with the kinds of its parts (drawn before any is made),
what it drew for itself, and the text of the parts made so far; `nest` and
`arm` are the shared context.  `StartBlock` is the code before the first part,
`EndBlock` the code after the last, `BasicRBlock` a leaf.  The operators
`ByPassBlock` ... `ALUwritePCBlock` lay out a block as the classes of these
names do; `genLoop`, `genCall` and the others stand for the instructions the
functions of these names return.  `limited`, `MinInstrs` and `MaxInstrs` are
the table of limits `genBranch` writes and `getBlockLimit` reads.  An exception
of `art.py` is a value of `phase`.

**`SeedProgram`** - executes the text, one action per kind of instruction group.
Memory is what the control flow depends on: the sixteen words of `cfgdata`,
`excladdr`, `exclcnt` and the conditions the flags saved in `exclflag` decide.
Conditions and random instructions have every outcome; `lr` is clobbered or
kept wherever the code picks registers at random.  The processor, assembler and
linker are external.

**`InstrStatus`, `InstrForms`** - a *form* stands for the opcodes that take the
same path through a generator function; a word is a record of its operands.
`gen_status` dispatches to the verdict of each function (`GenARMInstr.c`,
`GenThumbInstr.c`, `GenThumb32Instr.c`): VALID, UNSUPPORTED (tried again), or one
of the other results, which callers do not tell apart.  `Operands` are the words
of a form, `preprocess_instr` writes the registers asked for into a word,
`Writes`, `Loads`, `Base` are what the processor does with it (external).

**`MemAccess`** - the lines `GenHelper.c` inserts before an access (`Prefix`:
`fix` for the base, `offset` for an offset register), and an abstract execution
of lines (`After`) in which a register is the set of bits known to be one and
the set known to be zero.  The masks are those of the code, with their shifts.

**`RitLib`** - one action per step of a call: a block begins (`Block`), asks for
a word (`AskMem` ... `AskMain`), the library takes the call (`py_gen_instr`,
`py_gen_instr_with_op`), each turn of its loop is `gen_instr`, the wrapper
accepts the lines (`Accept`), calls again (`Again`) or returns nothing (`Fail`),
and the block generator appends them (`Deliver`).  `isa` and `cond_val` are the
options that no call resets; `word` is the hexcode that is kept from try to try
and, in `gen_single_inst_with_opcode`, from call to call; `twin` is the word
`genALUwritePC` passes from its first call to the second.
Of the block generators, the shipped program reaches `genMemInstrs` and
`genALUwritePC`: `art.py:19` calls `genCodeBlocksWithLoadInsts` only, and
`genCodeBlocks`, the way to `genInstrs` (`AskAny`) and `genMulShiftInstrs`
(`AskMulShift`), is commented out at `art.py:18`.  The two are modelled all the
same, so that the results also hold when that line is put back; they make the
library do more than the shipped program asks of it, never less.  `AskAny` asks
for any registers, a superset of the classes the register FSM would pass
(`instrgen.py:242-270`).

**`VerifyRestart`** - `Restart` stops the main loop and all forked processes at
any point.  The runs on device and translator and the merge, atomic in
`LocalVerify`, are cut in the middle there: a set of seeds that have their log
line, a subset that were moved, lines of the merged file that were appended.
What is on disk stays, counters and iterator begin anew; `left` are logs in unit
directories, to which the runners of a reused unit number append.

`MC*` modules define constants for TLC; `*Proofs` modules hold the proofs.

## 4. Runs

| run | states | checks |
|---|---|---|
| `local_verify` | 721,749 | `TypeOK`, `HandOver`, `UnitPrivate`, `LogsInStep`, `LinesExact`, `LossOnlyAfterCut` |
| `local_verify_live` | 118,999 | `UnitVerified`, `ResultsMerged`, `DirsDrained` |
| `local_verify_lost` | violation | `NoSeedLost`, finding 1 |
| `arm_runner` | 1,591,200 | `TypeOK`, `VerdictOwn`, `TriedEnough`, `JudgesUnits` (refinement of `UnitVerdict`) |
| `arm_runner_live` | 93,636 | `AllJudged` |
| `arm_runner_remove` | violation | `RemovedFailed`, finding 2 |
| `seed_task` | 139,816 | `TypeOK`, `Accounted`, `NamesOwn`, `LogAgrees`, `DoneComplete`, `FillsDir` (refinement of `FailDir`) |
| `seed_task_relative` | violation | `FailedKept`, finding 3 |
| `lib_build` | 148,682 | `TypeOK`, `LibLoads` |
| `seed_program` | 99,730 | `TypeOK`, `ContextKept`, `SlotsNest`, `LimitsInOrder`, `IsaMatches`, `ReturnsToCaller`, `ExclFresh`, `Exits` |
| `rit_lib` | 1,297,057 | `TypeOK`, `BufferFits`, `NoPcWrite`, `AccessInData`, `AsAsked`, `TwinsAlike`, `Dwindles` |
| `verify_restart` | 2,198,274 | `ResultsKept`, `RepeatsBounded`, `RestartLosesNothing` |

**Bounds.**

* `local_verify`: two directories with two seeds each, units of two, three
  translator modes.  A unit can therefore be full at the end of a directory,
  in the middle of one, and be filled from two; two units can be verified at
  once.  A time span of one round makes units be submitted both by time and by
  number.  `ADB_MAX = 2` with one permanent adb process makes the wait for a
  free device happen.  The liveness instance has three seeds and two modes, and
  a span of two rounds so that a unit waits.
* `arm_runner`: two runners, one with one seed and one with two (a program left
  on the device can be mistaken for the next one), two tests per seed.  The two
  seeds of one unit are interchangeable.  The liveness run has two seeds, no
  symmetry, and `-r`.
* `seed_task`: three seeds, so that what a failed seed leaves behind can meet
  two later ones; two modes; all 32 combinations of options.
* `lib_build`: two campaigns and three tasks, interchangeable.
* `seed_program`: at most two blocks with parts (`BlockMax`), on two levels
  (`Nest = 2`, so that blocks of basic parts, for which `cbz` is considered, and
  blocks with a block inside both occur), loop steps and limits 1 and 2, two
  tries of an exclusive store.  About 3,000 programs result, every pair of kinds
  in every position among them.  Two blocks are enough for one block to disturb
  the words of another around it.  A program stops at its exit code, so
  deadlock is not checked there.
* `rit_lib`: blocks follow one another without bound, so that options left by
  one call meet every other kind of call.  A block has three lines, the library
  and the wrapper two tries each (eight in the code).  Every form is drawn with
  registers that stand for the cases the verdicts tell apart: a low and a high
  register, `sp`, `lr`, `pc`, and one register of each class a caller asks for;
  lists over r0, r5, `sp`, `pc`; three shifts (short, longer than the offset,
  rotate through carry).  Condition and S bit asked for are always and TRUE,
  which differ from what the library does by itself.
* `verify_restart`: two directories, three seeds, units of two, two modes, two
  stops, so that a unit number is used three times and a stop can meet what the
  stop before left.

**Fairness.**  Verifier: the main loop and each forked process keep running
(weak fairness) - runs of seeds are under `timeout -s 9`; `adb push` and
`adb shell rm` are not, and are taken to return - and fork, which may fail any
number of times, does not fail for ever (strong fairness of `Fork`).  Nothing
is assumed of tasks.  Device runner: each runner keeps running, and the device
does not answer "text busy" for ever (strong fairness of the other answers).
Seed program: the generator and the processor take their next step while there
is one; no fairness is assumed of conditions or stores, so `Exits` holds for
the most unfavourable outcomes.  `SeedTask`, `LibBuild` and `VerifyRestart`
have no liveness properties.  That blocks of instructions end is stated without
fairness, as the action property `Dwindles`: a tuple of counters decreases with
every step inside a block.

## 5. What the properties say

`HandOver` - seeds leave a directory only after `Done`, none arrives after the
deletion.  `UnitPrivate` - `UNIT_CNT` is the number of seeds in the unit being
filled, and seeds of other units are waiting for their own process; this is
what a failing fork could break.  `LogsInStep`, `LinesExact` - relate merged
lines, pending logs and the places of seeds, while processes move logs into the
directory being merged.  `LossOnlyAfterCut` - the only way to lose a seed is
the interrupted scan of finding 1.

`VerdictOwn` - a seed is never given another one's result by a single lost adb
call.  `TriedEnough` - tests are counted right through "busy" answers.

`Accounted`, `NamesOwn`, `LogAgrees`, `DoneComplete` - hold although any step of
any seed may fail and files of failed seeds stay around.

`LibLoads` - with any interleaving of builds, once someone is past the build a
complete library is in place, except while it is linked or rebuilt.  The
exception is real: a task of an earlier campaign that loads the library while a
new campaign rebuilds it may find none or an incomplete one, and nothing in the
scripts prevents that.

`ContextKept` - the shared context is as deep as the recursion and in the
instruction set of the innermost block.  `SlotsNest` - the words of `cfgdata`
used inside a block belong to deeper levels than its own.  `LimitsInOrder` -
`art.py` does not die in `genBranch` or `getBlockLimit`.  (With `-m 165` or
more it could: a program of five basic blocks then needs at least 33
instructions in a block limited to 32.)  `IsaMatches`, `ReturnsToCaller`,
`ExclFresh` and `Exits` are about the execution.  `SlotsNest` and
`ReturnsToCaller` need `Nest <= 8`, which `NestAssumption` states: `cfgdata` has
64 bytes, and option `-n` is not checked.  What happens with `-n 9` or more is
excluded by that assumption, not checked.

`BufferFits` - `insert_instr` does not look at the size of `instr_buf`; the
longest sequence fills it exactly.  `NoPcWrite` and `TwinsAlike` - hold although
an UNSUPPORTED word is accepted for `genALUwritePC` and although the library may
have been left in Thumb mode, where it does not write the S bit (the mask of
`genALUwritePC` makes up for it).  `AccessInData` - executes the lines the
wrapper kept, not those the library wrote: when the wrapper drops the lines that
fix a base (`allow_fix` off), the base rests on registers loaded at the start of
the block, and may be off by one writeback per line delivered.  It includes
alignment and the 12 bits of an offset.  `AsAsked` - an offset rotated through
carry changes the condition, in an option the next try reads.  `Dwindles` - also
when a word stays UNSUPPORTED however often it is tried.  (It covers `MUL_OP`
too, which `arminfo.py:35` names and the library does not know; only
`genMulShiftInstrs` asks for it, which the shipped `art.py` does not reach, see
section 3.)

`ResultsKept`, `RepeatsBounded`, `RestartLosesNothing` - relate result logs,
logs not yet merged, logs in units and places of seeds after up to two stops.
The bound of `RepeatsBounded` is reached with one stop (two lines of the device,
three of a translator) and, for the device, with two (four); it grows with the
square of the number of stops and not exponentially, because a log that is
merged again does not itself grow.  Seeds a stop leaves in `verifying_k` are
verified only when unit number k is reached again, so no property says that they
are eventually.

Each property has a mutant: a variant of one definition with a plausible bug
(dropped reset, wrong order, off by one) under which TLC finds it violated.

## 6. Findings

1. `local_verify_lost` - when a unit becomes full in the middle of a directory,
   the next scan continues the old list of names in whichever finished
   directory comes first, and then deletes that directory unread
   (`local_verify.pl:140-146`).
2. `arm_runner_remove` - with `-r` a seed that never ran on the device is
   deleted as one that failed there (`run_on_ARM.pl:112-134`).
3. `seed_task_relative` - a relative `-f` is used before and after a change of
   the working directory; failing seeds do not reach the directory that gets
   `Done` (`gen_run_seeds.pl:264-282`).

Two races that the properties allow for explicitly: a task may die with "Not
find librit.so" because another build has just moved the file it tests for
(`gen_run_seeds.pl:170`; the exception in `LibLoads`), and the number in `DONE`
counts seeds whose coverage run failed and that were not tested
(`gen_run_seeds.pl:226-235`; `Accounted` states what the number is).

## 7. Proofs

All theorems are about any values of the constants that satisfy the named
assumptions of the modules.  Every proof has the same shape: an inductive
invariant, one step per action, one step below it per conjunct the action can
disturb.

* `LocalVerifyProofs` - `TypeCorrect`, `HandOverHolds`, `LossNeedsCut`.
  `HandOver` alone is not inductive: that the directory being scanned is `Done`
  and that the names left in the iterator belong to finished directories are
  needed too.  `LossOnlyAfterCut` needs that, before any cut, a list in progress
  contains all remaining seeds of the directory (`GlobInv`), and that the
  units being deleted hold no unjudged seed (`UnitInv`).  `UnitsPrivate`,
  `LogsKeepStep` and `LinesCounted` are about one seed while the others move:
  how far the process of its unit has come decides where the seed can be
  (`ThreadInv`) and which logs of the unit are in `TMP_RES`, one per mode
  (`FileInv`); every run of the seed left one line, merged or in such a log
  (`LineInv`).  That a translator line is never merged before the device line
  needs that the device's log comes first in the list being merged, or was
  merged before (`OrderInv`).
* `ArmRunnerProofs` - `RunnerTypes`, `VerdictsOwn`, `TriesCounted`,
  `RunnersJudgeUnits`.  The invariant relates, for every runner, the current
  seed, the file on the device, the last answer and the number of tests so far
  (`CurInv`, `CountInv`, `IdleInv`, `ExitInv`, `FileInv`, `AnswerInv`).  The
  last theorem is the refinement of `UnitVerdict`: a runner's steps stutter
  until its exit, which is the atomic step.
* `SeedTaskProofs` - `TaskTypes`, `TaskNames`, `TaskLogs`, `TaskDone`,
  `TaskAccounts`, and the refinement of `FailDir`, `TaskFillsDir`.  The
  invariant says what the temporary files contain in every stage (`NameInv`),
  where seeds can be in every stage (`StageInv`) and which lines exist in every
  stage (`LogInv`); `DirInv` adds where the failure directory is.
* `LibBuildProofs` - `BuildTypes`, `BuildLeavesLib`.  The invariant adds which
  files can be incomplete (`FileInv`) and that a process on its way to the
  rename leaves something for the others (`WayInv`).
* `SeedProgramProofs` - `GeneratorTypes`, `ContextRestored`, `SlotsApart`, for
  every nesting level up to 8 and any number of blocks.  `StackOK` says of every
  activation that its text uses only words of deeper levels (`Below`) and that
  its instruction set follows from the one below it; what a block lays out is
  shown to stay within the levels of its parts and its own.  `LimitsKept`:
  `genBranch` finds its block in the table, and limits are in order, when a seed
  has less than 165 instructions (`-m`, 100 by default).  A program with a
  limited block has at least five basic blocks (`Five`), and the smallest number
  of instructions of a block is that of the seed divided by the number of
  blocks; with 165 and five blocks it exceeds the limit of 32, so the bound is
  exact.
* `SeedRunProofs` - `RunTypes`, `IsaKept`, `CallsReturn`, `ExclStartsFresh`: the
  programs as they run, for every nesting up to level 8, all options, any size
  and every outcome of conditions, random code and exclusive stores.  A program
  is typed as assembler code is: a position is annotated with what holds when
  the processor reaches it - the instruction set, the callees under way with the
  words that keep their return addresses (all different), whether the newest
  return address is still in `lr`, how far an exclusive sequence has come - and
  with the instruction set of the text (`Ann`, `Flow`).  A jump must find one
  label with a matching annotation (`Closed`, `Single`); labels are paths in the
  tree of blocks, so those of different parts differ.  Text is typed for *every*
  context of callees (`WellTyped`), because the generator makes a part before
  the block around it, so typings are put together as `makeRandomBlock` puts
  together text (one lemma per kind of block, `TypedInv`).  `RunInv` then says
  that the processor is in the state annotated where it is: each word of a
  callee under way holds the position after its call (`Back`), and counter and
  address of an exclusive sequence agree with its stage (`ExclOK`).  Where the
  argument runs along the text it takes the least position that contradicts it
  (`Least`).
* `VerifyRestartProofs` - `RestartKeepsSeeds`, `RestartHandOver`,
  `RestartKeepsResults`, `RestartRepeats`, for any number of stops.  The
  invariant of `LocalVerifyProofs` carries over: its lemmas about steps are
  stated for any log lines found, so that the processes of a reused unit are
  covered, and `RestartEffect` says what a restart leaves.
  `RestartKeepsResults` adds that a process never replaces a log that is still
  pending from before the stop (`FreshLogs`: the first round after a start merges
  all of `TMP_RES` before anything is forked), and what is on disk of a seed whose
  unit was stopped half way: its line is merged, pending, or in the log left in
  the unit that has not been run again (`KeptInv`).  `RestartRepeats` needs where
  the lines of a seed are: logs of a directory have different names, a seed has
  lines only in logs of its own unit, and what is being merged is in `TMP_RES`
  (`FilesInv`).  After n stops the log of its unit has at most n lines of it in a
  mode, one per interrupted run, and the log in `TMP_RES` at most n + 1, so that
  an interrupted merge repeats no more than that; a seed a translator has yet to
  run (`Pending`) has one line less than the bound, and one the device has yet to
  judge has lines in its unit only (`SeedBound`).
* `RitLibProofs` - `LibTypes`, `LinesFitBuffer`, `PcNotWritten`, `InstrAsAsked`,
  `TwinsAgree`, `BlocksEnd`, for every number of tries and lines, all registers,
  lists, shifts and conditions.  None of the properties is inductive, as they
  speak of the moment the lines are appended.  The invariant follows a call:
  what was asked (`Asked`), that the opcode is one of those (`Chosen`), that
  a word kept from an earlier try is one of this opcode (`Fits`), what is known
  once the library has decided (`Decided`), the lines (`Written`), and the two
  calls of `genALUwritePC` (`Twins`: the word passed on writes `lr` and carries
  the condition asked for, so that the second call changes only the
  destination).  Two results about the operators come first.  `ValidKeepsPc`: for
  every form and all sixteen registers in every place, a VALID word does not
  write `pc` (one lemma per generator function).  `OffsetSmall`: for every shift,
  the masks leave 12 bits.  Further lemmas bound the lines of a prefix by seven
  and say that preprocessing keeps a word within its form.
  `AccessesInData` is about the registers when an access runs.  With the code
  that fixes the base kept, no register was moved, the lines of the buffer are
  those the helpers put before this word (`Coded`, `Fetched`), and running them
  leaves the right address and offset (`FixEffect`, and one lemma per helper).
  With that code dropped, the block set the bases at its start and every word
  delivered since used one of them and overwrote none (`LoadPlaced`, `Requested`),
  so that each is still an address of the data, off by one writeback per word at
  most (`Known`); these four parts are `DInv`.  What running lines does is a
  recursive function of their number: where a fact is about all lines, the proof
  takes the least number for which it fails.

Only model-checked: the liveness properties (`UnitVerified`, `ResultsMerged`,
`DirsDrained`, `AllJudged`, `Exits`), which rest on fairness and are beyond the
prover.

## 8. Not modelled

* Most of the repository's C code is QEMU, vendored below `qemu/` (about 1.27 of
  1.29 million lines).  It is a tool the scripts start and appears as what it
  returns.  Measured against all C files the models therefore cover well under
  one percent; of RIT's own C library, which is what runs, they cover the
  options, the choice of opcodes, the generator functions and the helpers.
* In the C library: jumps (`JMP_OP`, which no block generator asks for), biased
  operand values (options no caller sets), the bits of encodings, listing and
  printing.  The word 0, which the library takes for "no word", is left out.
* What an earlier, killed run of `run_on_ARM.pl` left on the device: `ArmRunner`
  starts with an empty one.
* In the block generators: IT blocks (`instrgen.py:272-346`), the blocks of the register and flag FSMs,
  the VFP and NEON callback.  The VFP and NEON generators choose operands from
  tables without state.
* A push that transfers part of a file; the process table (forked processes are
  never waited for), for which a fork that fails stands.  A stop of
  `local_verify.pl` stops its forked processes too, as from a terminal; a kill
  of the script alone is not modelled.
* Set-up of translator directories (`gen_run_seeds.pl:174-187`) and the merge of
  coverage files; the rest of the campaign start, the reports and the coverage
  scripts: sequential text processing of finished files.  The self-check
  (`processtest.py`) is one run of the emulator and formatting.
* `ThumbTBRBlock` is never constructed.  Branch ranges, literal pools and
  alignment of code are left to the assembler, which rejects a program that
  breaks them.
* The seed number: the generator makes every choice nondeterministically.
* `new_src/` is a second version of the C library no script loads.
