------------------------------ MODULE MCSeedTask ------------------------------
(* Instances of SeedTask for TLC. *)
EXTENDS SeedTask

\* Every combination of the options.
MCOptions == [VERI : BOOLEAN, COV : BOOLEAN, REMOVE : BOOLEAN,
              EXE : BOOLEAN, absFail : BOOLEAN]

\* A test run by hand: options -e and -f with a relative path.
MCByHand == [VERI : {FALSE}, COV : {FALSE}, REMOVE : BOOLEAN,
             EXE : {TRUE}, absFail : {FALSE}]
=============================================================================
