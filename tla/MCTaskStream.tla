---------------------------- MODULE MCTaskStream ----------------------------
EXTENDS TaskStream
=============================================================================
