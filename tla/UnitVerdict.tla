------------------------------ MODULE UnitVerdict ------------------------------
(***************************************************************************)
(* What local_verify.pl relies on when it calls run_on_ARM.pl for a unit   *)
(* (lines 208-209): when the call returns, every seed of the unit has been *)
(* judged, and until then none of its verdicts is acted upon.  It is the   *)
(* step RunOnArm of module LocalVerify, which ArmRunner implements.        *)
(***************************************************************************)
CONSTANTS Units, Seeds, UnitOf

VARIABLES verdict,   \* "unit" until judged, then "armpass" or "armfail"
          returned   \* the units whose call has returned

Init == verdict = [s \in Seeds |-> "unit"] /\ returned = {}

RunOnArm(u) ==
  /\ u \notin returned
  /\ returned' = returned \cup {u}
  /\ \E P \in SUBSET {s \in Seeds : UnitOf[s] = u} :
       verdict' = [s \in Seeds |-> IF UnitOf[s] # u THEN verdict[s]
                                   ELSE IF s \in P THEN "armpass" ELSE "armfail"]

Next == \E u \in Units : RunOnArm(u)

Spec == Init /\ [][Next]_<<verdict, returned>>
=============================================================================
