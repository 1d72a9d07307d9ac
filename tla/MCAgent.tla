------------------------------ MODULE MCAgent ------------------------------
EXTENDS Agent

AllFaults == FaultKinds
=============================================================================
