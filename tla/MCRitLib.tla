------------------------------- MODULE MCRitLib -------------------------------
EXTENDS RitLib

MCShifts == {<<0, 2>>, <<2, 21>>, <<3, 0>>}
=============================================================================
