-------------------------- MODULE MCMemoryGateway --------------------------
EXTENDS MemoryGateway
=============================================================================
