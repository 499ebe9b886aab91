----------------------------- MODULE MCCaseWork -----------------------------
EXTENDS CaseWork, TLC

\* Staff members are interchangeable: no definition names one.
StaffSymmetry == Permutations(Staff)
=============================================================================
