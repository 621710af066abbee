---------------------------- MODULE MCOfflineClock ----------------------------
EXTENDS OfflineClock, TLC
=============================================================================
