---------------------------- MODULE MCContainers ----------------------------
EXTENDS Containers

CONSTANT s1
=============================================================================
