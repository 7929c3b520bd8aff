----------------------------- MODULE MCApprovals -----------------------------
EXTENDS Approvals

CONSTANTS packages, command
=============================================================================
