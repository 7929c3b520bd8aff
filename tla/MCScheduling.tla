---------------------------- MODULE MCScheduling ----------------------------
EXTENDS Scheduling

CONSTANT daily
=============================================================================
