--------------------------- MODULE StrandedWorkMC ---------------------------
EXTENDS StrandedWork
=============================================================================
