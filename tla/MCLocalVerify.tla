---------------------------- MODULE MCLocalVerify ----------------------------
(* Instances of LocalVerify for TLC. *)
EXTENDS LocalVerify

\* Two directories; the later one holds every seed but the first two.
MCOwner == [s \in Seeds |-> IF s <= 2 THEN 1 ELSE 2]

\* Two directories; the first seed alone in the first one.
MCOwnerLive == [s \in Seeds |-> IF s <= 1 THEN 1 ELSE 2]
=============================================================================
