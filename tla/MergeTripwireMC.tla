-------------------------- MODULE MergeTripwireMC --------------------------
EXTENDS MergeTripwire

CONSTANTS p1, p2
=============================================================================
