-------------------------------- MODULE FailDir --------------------------------
(***************************************************************************)
(* What local_verify.pl assumes of a directory of failing seeds (lines     *)
(* 137-146): seeds appear in it one at a time until its Done file appears, *)
(* and none after that.  These are the steps MakeFailDir, FailSeed and     *)
(* WriteDone of module LocalVerify; SeedTask implements them.              *)
(***************************************************************************)
CONSTANT Seeds

VARIABLES dir,    \* "absent", "filling" or "Done"
          given   \* the seeds put in the directory

Init == dir = "absent" /\ given = {}

MakeFailDir == dir = "absent" /\ dir' = "filling" /\ UNCHANGED given

FailSeed(s) ==
  /\ dir = "filling"
  /\ s \notin given
  /\ given' = given \cup {s}
  /\ UNCHANGED dir

WriteDone == dir = "filling" /\ dir' = "Done" /\ UNCHANGED given

Next == MakeFailDir \/ WriteDone \/ \E s \in Seeds : FailSeed(s)

Spec == Init /\ [][Next]_<<dir, given>>
=============================================================================
