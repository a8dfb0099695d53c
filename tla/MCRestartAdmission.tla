------------------------- MODULE MCRestartAdmission -------------------------
EXTENDS RestartAdmission

CONSTANTS o1, o2, o3, s1, s2
=============================================================================
