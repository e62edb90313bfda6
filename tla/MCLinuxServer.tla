--------------------------- MODULE MCLinuxServer ---------------------------
EXTENDS LinuxServer

EveryFault == AllFaults
=============================================================================
