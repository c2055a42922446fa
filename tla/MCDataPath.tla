----------------------------- MODULE MCDataPath -----------------------------
EXTENDS DataPath
============================================================================
