---------------------------- MODULE VerifyRestart ----------------------------
(***************************************************************************)
(* local_verify.pl never ends by itself: it is stopped from the terminal,  *)
(* which also stops the processes it forked and the commands they run, and *)
(* started again later.  What is on disk stays; the counters, the iterator *)
(* and the list of files to merge begin anew, so that the directories      *)
(* verifying_0, verifying_1, ... are used a second time.                   *)
(*                                                                         *)
(* The runs on the device and on the translator and the merge of a log are *)
(* atomic steps of LocalVerify; a stop in the middle of one is part of the *)
(* action Restart.                                                         *)
(***************************************************************************)
EXTENDS LocalVerify

CONSTANT StopMax   \* bound: how often the script is stopped

ASSUME StopAssumption == StopMax \in Nat

VARIABLES
  left,    \* the logs that are still in the directories of their units
  stops    \* history: how often the script was stopped

allVars == <<vars, left, stops>>

RInit == Init /\ left = {} /\ stops = 0

-----------------------------------------------------------------------------
LeftFile(m, u) == {f \in left : f.mode = m /\ f.unit = u}

\* run_on_ARM.pl and run_on_UBT.pl append to the log they find.
LeftLines(m, u) ==
  IF LeftFile(m, u) = {} THEN NoLines ELSE (CHOOSE f \in LeftFile(m, u) : TRUE).lines

RunOnArmAgain(u) ==
  /\ \E P \in SUBSET InUnit(u, "unit") : RunOnArm(u, P, LeftLines(0, u))
  /\ left' = left \ LeftFile(0, u)
  /\ UNCHANGED stops

\* Mutant: the log is copied to TMP_RES and stays in the unit.
RunOnUbtCopied(u) ==
  /\ RunOnUbt(u, LeftLines(child[u].mode, u))
  /\ left' = LET m == child[u].mode
             IN  (left \ LeftFile(m, u))
                   \cup Log(m, u, PlusLines(LeftLines(m, u), InUnit(u, "armpass")))
  /\ UNCHANGED stops

RunOnUbtAgain(u) ==
  /\ RunOnUbt(u, LeftLines(child[u].mode, u))
  /\ left' = left \ LeftFile(child[u].mode, u)
  /\ UNCHANGED stops

\* The unit is deleted with whatever is in it.
CollectAgain(u) ==
  /\ Collect(u)
  /\ left' = {f \in left : f.unit # u}
  /\ UNCHANGED stops

-----------------------------------------------------------------------------
\* The seeds of units whose process is at point p.
At(p, place) ==
  {s \in Seeds : loc[s] = place /\ unitOf[s] \in Units /\ child[unitOf[s]].pc = p}

\* run_on_ARM.pl stopped: the seeds of L have their line in the log, and all
\* of them but the last one of each unit are certain to be moved.
ArmStopped(L, J) ==
  /\ L \subseteq At("arm", "unit")
  /\ J \subseteq L
  /\ \A s, t \in L \ J : unitOf[s] = unitOf[t] => s = t

\* The child process stopped while it moved the judged seeds of its unit to
\* the result directory: failing seeds go first.
CollectStopped(C) ==
  /\ C \subseteq At("collect", "armfail") \cup At("collect", "armpass")
  /\ \A s \in C, t \in At("collect", "armfail") \ C :
       unitOf[s] = unitOf[t] => loc[s] = "armfail"

\* The main loop stopped in the merge: of the file it was at, the lines of A
\* were appended and the file was not deleted.
MergeStopped(f, A) ==
  /\ pc = "merge" /\ f \in resFiles
  /\ \A g \in resFiles : f.mode <= g.mode
  /\ merged' = [merged EXCEPT ![f.mode] =
                  [s \in Seeds |-> @[s] + IF s \in A THEN f.lines[s] ELSE 0]]

\* The log of mode m in the directory of unit u when the lines of S are added.
LeftAfter(m, u, S) == Log(m, u, PlusLines(LeftLines(m, u), {s \in S : unitOf[s] = u}))

\* Mutant: the logs of the units are deleted at the start.
LeftLogsCleared(L, U) == {}

\* The logs left in the units.
LeftLogs(L, U) ==
  LET arm == {u \in Units : child[u].pc = "arm"}
      ubt == {u \in Units : child[u].pc = "ubt"}
  IN  {f \in left : ~(f.mode = 0 /\ f.unit \in arm) /\ ~(f.unit \in ubt /\ f.mode = child[f.unit].mode)}
        \cup (UNION {LeftAfter(0, u, L) : u \in arm})
        \cup (UNION {LeftAfter(child[u].mode, u, U) : u \in ubt})

\* Mutant: the directories of units that are found are deleted at the start.
StartClean(place) ==
  /\ pc' = "top" /\ globOn' = FALSE /\ globRest' = {} /\ fdirs' = {} /\ resFiles' = {}
  /\ UNIT_CNT' = 0 /\ UNIT_NUM' = 0 /\ SPAN_CNT' = 0
  /\ child' = [u \in {} |-> [pc |-> "exit", adb |-> 0, mode |-> 1]]
  /\ loc' = [s \in Seeds |-> IF place[s] \in {"unit", "armpass", "armfail"} THEN "lost" ELSE place[s]]

\* A new process finds the seeds where they were left.
Start(place) ==
  /\ pc' = "top" /\ globOn' = FALSE /\ globRest' = {} /\ fdirs' = {} /\ resFiles' = {}
  /\ UNIT_CNT' = 0 /\ UNIT_NUM' = 0 /\ SPAN_CNT' = 0
  /\ child' = [u \in {} |-> [pc |-> "exit", adb |-> 0, mode |-> 1]]
  /\ loc' = place

Restart ==
  /\ stops < StopMax
  /\ stops' = stops + 1
  /\ \E L \in SUBSET At("arm", "unit"), U \in SUBSET At("ubt", "armpass") :
       \E J \in SUBSET L : \E P \in SUBSET J :
       \E C \in SUBSET (At("collect", "armfail") \cup At("collect", "armpass")) :
         /\ ArmStopped(L, J)
         /\ CollectStopped(C)
         /\ left' = LeftLogs(L, U)
         /\ Start([s \in Seeds |-> IF s \in P THEN "armpass"
                                   ELSE IF s \in J THEN "armfail"
                                   ELSE IF s \in C /\ loc[s] = "armpass" THEN "PASS"
                                   ELSE IF s \in C THEN "FAIL"
                                   ELSE loc[s]])
  /\ \/ UNCHANGED merged
     \/ \E f \in resFiles : \E A \in SUBSET {s \in Seeds : f.lines[s] > 0} : A # {} /\ MergeStopped(f, A)
  /\ UNCHANGED <<dirs, unitOf, tmpRes, cut>>

RNext ==
  \/ (Task \/ Parent) /\ UNCHANGED <<left, stops>>
  \/ \E u \in Units :
       \/ (ReadAdb(u) \/ ReadAdbAgain(u)) /\ UNCHANGED <<left, stops>>
       \/ RunOnArmAgain(u)
       \/ RunOnUbtAgain(u)
       \/ CollectAgain(u)
  \/ Restart

RSpec == RInit /\ [][RNext]_allVars

-----------------------------------------------------------------------------
\* A log of F holds a line of the seed in mode m.
HasLine(F, m, s) == \E f \in F : f.mode = m /\ f.lines[s] > 0

\* Stopping the script loses no result: a seed in a result directory has a
\* line in the result log of every mode it was tested in, or in a log that
\* is still to be merged, and a seed the device judged has its line at least
\* in the log of its unit - although the units of the run before are filled,
\* tested and deleted again (local_verify.pl:66, 136, 208-233).
ResultsKept ==
  \A s \in Seeds, m \in Modes :
    /\ loc[s] = "PASS" \/ (loc[s] = "FAIL" /\ m = 0) =>
         merged[m][s] > 0 \/ HasLine(tmpRes, m, s)
    /\ loc[s] \in {"armpass", "armfail"} =>
         merged[0][s] > 0 \/ HasLine(tmpRes, 0, s) \/ HasLine(left, 0, s)

\* At most one log of F holds lines of the seed in mode m ...
OneLog(F, m, s) ==
  \A f, g \in F : /\ f.mode = m /\ f.lines[s] > 0
                  /\ g.mode = m /\ g.lines[s] > 0
                  => f = g

\* ... and these are the lines.
LinesIn(F, m, s) ==
  IF HasLine(F, m, s) THEN (CHOOSE f \in F : f.mode = m /\ f.lines[s] > 0).lines[s] ELSE 0

\* Without a stop no line is repeated.  The n-th stop adds at most n lines of
\* a seed to the device's log and n + 1 to a translator's: the merge that it
\* interrupts is done again, with the lines earlier stops left in the file,
\* and so is the unit, which the device judges only once
\* (local_verify.pl:126-133, run_on_ARM.pl:125, run_on_UBT.pl:88).
RepeatsBounded ==
  \A s \in Seeds, m \in Modes :
    /\ OneLog(tmpRes, m, s) /\ OneLog(left, m, s)
    /\ 2 * (merged[m][s] + LinesIn(tmpRes, m, s) + LinesIn(left, m, s))
         <= 2 + stops * (stops + 1) + (IF m = 0 THEN 0 ELSE 2 * stops)

\* Stopping and starting the script deletes no seed that was not judged: as
\* without stops, only an interrupted scan leads to that
\* (local_verify.pl:142-146, 233).
RestartLosesNothing == ~cut => \A s \in Seeds : loc[s] # "lost"
=============================================================================
