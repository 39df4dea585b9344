---------------------------- MODULE LibBuildProofs ----------------------------
(***************************************************************************)
(* Whatever the number of campaigns and tasks that build librit.so at the  *)
(* same time, the library they leave behind is complete.                   *)
(***************************************************************************)
EXTENDS LibBuild, TLAPS

\* A file in place that is not complete is still being written.
FileInv ==
  /\ OldLib \in whole
  /\ \A f \in {src, bin} : f # NoFile => \/ f \in whole
                                         \/ f \in Procs /\ pc[f] = "link"

\* The process will put a library in place, unless another one does it first.
Active(p) ==
  \/ pc[p] \in {"make", "compile"}
  \/ /\ src # NoFile
     /\ pc[p] \in {"link", "test", "move"}

\* A library that is not there is on its way: the campaign that deleted it last
\* is still building, or none was ever there and nobody is past the build.
WayInv ==
  bin = NoFile /\ ~broken =>
    \/ \E q \in Starters : Active(q)
    \/ \A p \in Procs : pc[p] = "begin" \/ Active(p)

IndInv == TypeOK /\ FileInv /\ WayInv

-----------------------------------------------------------------------------
\* The initial states satisfy the inductive invariant.
LEMMA InitIndInv == Init => IndInv
BY DEF Init, IndInv, TypeOK, FileInv, WayInv, Files

\* Every step of run_on_NB.pl:161-174 and gen_run_seeds.pl:162-172 keeps the types.
LEMMA TypeStep == TypeOK /\ [Next]_vars => TypeOK'
<1> SUFFICES ASSUME TypeOK, [Next]_vars PROVE TypeOK'
  OBVIOUS
<1> USE DEF TypeOK, Files, Goto
<1>1. ASSUME NEW p \in Procs, Step(p) PROVE TypeOK'
  <2>1. CASE Unlink(p)
    BY <2>1 DEF Unlink
  <2>2. CASE FindLib(p)
    BY <2>2 DEF FindLib
  <2>3. CASE MakeUpToDate(p)
    BY <2>3 DEF MakeUpToDate
  <2>4. CASE MakeCompile(p)
    BY <2>4 DEF MakeCompile
  <2>9. CASE MakeLink(p)
    BY <2>9 DEF MakeLink
  <2>5. CASE LinkEnds(p)
    BY <2>5 DEF LinkEnds
  <2>6. CASE MakeFails(p)
    BY <2>6 DEF MakeFails
  <2>7. CASE TestSrc(p)
    BY <2>7 DEF TestSrc
  <2>8. CASE Move(p)
    BY <2>8 DEF Move
  <2> QED BY <1>1, <2>1, <2>2, <2>3, <2>4, <2>5, <2>6, <2>7, <2>8, <2>9 DEF Step
<1>2. CASE Finished \/ UNCHANGED vars
  BY <1>2 DEF Finished, vars
<1> QED BY <1>1, <1>2 DEF Next

\* A linker ends by completing the file it writes, wherever that is by then.
LEMMA FileStep == TypeOK /\ FileInv /\ [Next]_vars => FileInv'
<1> SUFFICES ASSUME TypeOK, FileInv, [Next]_vars PROVE FileInv'
  OBVIOUS
<1> USE ConstantsAssumption DEF TypeOK, FileInv, Files, Goto, Procs
<1>1. ASSUME NEW p \in Procs, Step(p) PROVE FileInv'
  <2>1. CASE Unlink(p)
    BY <2>1 DEF Unlink
  <2>2. CASE FindLib(p)
    BY <2>2 DEF FindLib
  <2>3. CASE MakeUpToDate(p)
    BY <2>3 DEF MakeUpToDate
  <2>4. CASE MakeCompile(p)
    BY <2>4 DEF MakeCompile
  <2>9. CASE MakeLink(p)
    BY <2>9 DEF MakeLink
  <2>5. CASE LinkEnds(p)
    BY <2>5 DEF LinkEnds
  <2>6. CASE MakeFails(p)
    BY <2>6 DEF MakeFails
  <2>7. CASE TestSrc(p)
    BY <2>7 DEF TestSrc
  <2>8. CASE Move(p)
    BY <2>8 DEF Move
  <2> QED BY <1>1, <2>1, <2>2, <2>3, <2>4, <2>5, <2>6, <2>7, <2>8, <2>9 DEF Step
<1>2. CASE Finished \/ UNCHANGED vars
  BY <1>2 DEF Finished, vars
<1> QED BY <1>1, <1>2 DEF Next

\* A campaign that deletes the library becomes the one that restores it; only
\* a rename takes src/librit.so away, and it puts it into bin.
LEMMA WayStep == TypeOK /\ WayInv /\ [Next]_vars => WayInv'
<1> SUFFICES ASSUME TypeOK, WayInv, [Next]_vars PROVE WayInv'
  OBVIOUS
<1> USE ConstantsAssumption DEF TypeOK, WayInv, Files, Goto, Procs, Active
<1>1. ASSUME NEW p \in Procs, Step(p) PROVE WayInv'
  <2>1. CASE Unlink(p)
    BY <2>1 DEF Unlink
  <2>2. CASE FindLib(p)
    BY <2>2 DEF FindLib
  <2>3. CASE MakeUpToDate(p)
    BY <2>3 DEF MakeUpToDate
  <2>4. CASE MakeCompile(p)
    BY <2>4 DEF MakeCompile
  <2>9. CASE MakeLink(p)
    BY <2>9 DEF MakeLink
  <2>5. CASE LinkEnds(p)
    BY <2>5 DEF LinkEnds
  <2>6. CASE MakeFails(p)
    BY <2>6 DEF MakeFails
  <2>7. CASE TestSrc(p)
    BY <2>7 DEF TestSrc
  <2>8. CASE Move(p)
    BY <2>8 DEF Move
  <2> QED BY <1>1, <2>1, <2>2, <2>3, <2>4, <2>5, <2>6, <2>7, <2>8, <2>9 DEF Step
<1>2. CASE Finished \/ UNCHANGED vars
  BY <1>2 DEF Finished, vars
<1> QED BY <1>1, <1>2 DEF Next

\* The inductive invariant holds in every reachable state.
LEMMA Inductive == Spec => []IndInv
<1>1. IndInv /\ [Next]_vars => IndInv'
  BY TypeStep, FileStep, WayStep DEF IndInv
<1> QED BY InitIndInv, <1>1, PTL DEF Spec

-----------------------------------------------------------------------------
\* The types of the build of librit.so hold for any number of processes.
THEOREM BuildTypes == Spec => []TypeOK
BY Inductive, PTL DEF IndInv

\* For any number of campaigns and tasks: a script past the build of librit.so
\* finds it complete unless it is being linked or rebuilt
\* (run_on_NB.pl:162-174, gen_run_seeds.pl:162-172).
THEOREM BuildLeavesLib == Spec => []LibLoads
<1>1. IndInv => LibLoads
  BY ConstantsAssumption DEF IndInv, TypeOK, FileInv, WayInv, Active, LibLoads, Over, Procs, Files
<1> QED BY Inductive, <1>1, PTL
=============================================================================
