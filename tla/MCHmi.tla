------------------------------- MODULE MCHmi -------------------------------
EXTENDS Hmi
============================================================================
