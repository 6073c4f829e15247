-------------------------- MODULE MCSessionMemory --------------------------
EXTENDS SessionMemory
=============================================================================
