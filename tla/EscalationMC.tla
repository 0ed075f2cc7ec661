---------------------------- MODULE EscalationMC ----------------------------
EXTENDS Escalation
=============================================================================
