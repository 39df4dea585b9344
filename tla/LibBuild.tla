------------------------------- MODULE LibBuild -------------------------------
(***************************************************************************)
(* How bin/librit.so, the instruction generator that every seed task       *)
(* loads, is built: run_on_NB.pl always deletes and rebuilds it, and       *)
(* gen_run_seeds.pl builds it when it is missing.  Both run make in the    *)
(* shared src directory and then rename src/librit.so to bin/librit.so,    *)
(* with no lock.  Old tasks may start while a new campaign rebuilds it.    *)
(*                                                                         *)
(* A file is named by the process whose linker wrote it; it is in "whole"  *)
(* once the linker is finished, wherever it was renamed to by then.        *)
(***************************************************************************)
CONSTANTS
  Starters,  \* processes running run_on_NB.pl
  Tasks,     \* processes running gen_run_seeds.pl
  NoFile,    \* the file does not exist
  OldLib     \* a library built before

ASSUME ConstantsAssumption ==
  /\ Starters \cap Tasks = {}
  /\ NoFile # OldLib
  /\ {NoFile, OldLib} \cap (Starters \cup Tasks) = {}

Procs == Starters \cup Tasks

VARIABLES
  pc,      \* the point each process is at
  src,     \* src/librit.so
  bin,     \* bin/librit.so
  whole,   \* the files that are complete
  broken   \* history: some make failed

vars == <<pc, src, bin, whole, broken>>

Files == Procs \cup {OldLib}

Init ==
  /\ pc = [p \in Procs |-> "begin"]
  /\ src = NoFile
  /\ bin \in {NoFile, OldLib}
  /\ whole = {OldLib}
  /\ broken = FALSE

Goto(p, label) == pc' = [pc EXCEPT ![p] = label]

-----------------------------------------------------------------------------
\* Mutant: run_on_NB.pl runs make before it deletes the old library.
UnlinkLate(p) ==
  /\ p \in Starters
  /\ \/ pc[p] = "begin" /\ Goto(p, "make") /\ UNCHANGED <<src, bin, whole, broken>>
     \/ pc[p] = "test" /\ bin # NoFile /\ bin' = NoFile /\ UNCHANGED <<pc, src, whole, broken>>

\* run_on_NB.pl deletes the library.
Unlink(p) ==
  /\ p \in Starters
  /\ pc[p] = "begin"
  /\ bin' = NoFile
  /\ Goto(p, "make")
  /\ UNCHANGED <<src, whole, broken>>

\* gen_run_seeds.pl looks whether the library is there.
FindLib(p) ==
  /\ p \in Tasks
  /\ pc[p] = "begin"
  /\ Goto(p, IF bin # NoFile THEN "ready" ELSE "make")
  /\ UNCHANGED <<src, bin, whole, broken>>

\* make finds src/librit.so newer than the object files and does nothing;
\* it does not notice that another make is still writing it.
MakeUpToDate(p) ==
  /\ pc[p] = "make"
  /\ src # NoFile
  /\ Goto(p, "test")
  /\ UNCHANGED <<src, bin, whole, broken>>

\* Otherwise make compiles what is out of date: it does so when the file is
\* missing, and also when another make has just renewed an object file.
MakeCompile(p) ==
  /\ pc[p] = "make"
  /\ Goto(p, "compile")
  /\ UNCHANGED <<src, bin, whole, broken>>

\* The linker replaces whatever src/librit.so is there by then with a new file,
\* which it fills.
MakeLink(p) ==
  /\ pc[p] = "compile"
  /\ src' = p
  /\ Goto(p, "link")
  /\ UNCHANGED <<bin, whole, broken>>

\* Mutant: the linker completes whatever file is in src by then.
LinkEndsInSrc(p) ==
  /\ pc[p] = "link"
  /\ whole' = whole \cup {src}
  /\ Goto(p, "test")
  /\ UNCHANGED <<src, bin, broken>>

LinkEnds(p) ==
  /\ pc[p] = "link"
  /\ whole' = whole \cup {p}
  /\ Goto(p, "test")
  /\ UNCHANGED <<src, bin, broken>>

\* The compiler fails, or the linker does on an object file half written by
\* another make; the status of make is not looked at.
MakeFails(p) ==
  /\ pc[p] = "compile"
  /\ broken' = TRUE
  /\ Goto(p, "test")
  /\ UNCHANGED <<src, bin, whole>>

\* Both scripts test for src/librit.so and end with an error if it is gone.
TestSrc(p) ==
  /\ pc[p] = "test"
  /\ Goto(p, IF src # NoFile THEN "move" ELSE "died")
  /\ UNCHANGED <<src, bin, whole, broken>>

\* The result of the rename is not looked at.
Move(p) ==
  /\ pc[p] = "move"
  /\ IF src # NoFile THEN bin' = src /\ src' = NoFile ELSE UNCHANGED <<src, bin>>
  /\ Goto(p, "ready")
  /\ UNCHANGED <<whole, broken>>

Finished == (\A p \in Procs : pc[p] \in {"ready", "died"}) /\ UNCHANGED vars

Step(p) ==
  \/ Unlink(p) \/ FindLib(p)
  \/ MakeUpToDate(p) \/ MakeCompile(p) \/ MakeLink(p) \/ LinkEnds(p) \/ MakeFails(p)
  \/ TestSrc(p) \/ Move(p)

Next == (\E p \in Procs : Step(p)) \/ Finished

Spec == Init /\ [][Next]_vars

-----------------------------------------------------------------------------
\* Every variable keeps its type.
TypeOK ==
  /\ pc \in [Procs -> {"begin", "make", "compile", "link", "test", "move", "ready", "died"}]
  /\ src \in Files \cup {NoFile}
  /\ bin \in Files \cup {NoFile}
  /\ whole \subseteq Files
  /\ broken \in BOOLEAN

Over(p) == pc[p] \in {"ready", "died"}

\* The library that interleaved builds leave behind: once one script is past
\* this point and no make failed, bin/librit.so exists and is complete, except
\* while a linker is still filling it or a new campaign is rebuilding it; and so
\* when all scripts are past it, although they delete, rename and share each
\* other's files (run_on_NB.pl:162-174, gen_run_seeds.pl:162-172).
LibLoads ==
  \A p \in Procs :
    Over(p) /\ bin \notin whole /\ ~broken =>
      \E q \in Procs : pc[q] = "link" \/ (q \in Starters /\ ~Over(q))
=============================================================================
