----------------------------- MODULE MCArmRunner -----------------------------
(* Instances of ArmRunner for TLC. *)
EXTENDS ArmRunner, TLC

CONSTANTS u1, u2, s1, s2, s3

\* The first unit has one seed, the second one the others.
MCUnitOf == [s \in Seeds |-> IF s = s1 THEN u1 ELSE u2]

\* The seeds of the second unit are interchangeable.
MCSymmetry == Permutations(Seeds \ {s1})
=============================================================================
