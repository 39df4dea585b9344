--------------------------- MODULE MCVerifyRestart ---------------------------
(* An instance of VerifyRestart for TLC. *)
EXTENDS VerifyRestart

\* Two directories; the first seed alone in the first one.
MCOwner == [s \in Seeds |-> IF s <= 1 THEN 1 ELSE 2]
=============================================================================
