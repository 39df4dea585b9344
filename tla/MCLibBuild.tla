------------------------------ MODULE MCLibBuild ------------------------------
(* Instances of LibBuild for TLC. *)
EXTENDS LibBuild, TLC

\* Campaigns are interchangeable, and so are tasks.
MCSymmetry == Permutations(Starters) \cup Permutations(Tasks)
=============================================================================
