-------------------------- MODULE MCMetaDataPlane --------------------------
EXTENDS MetaDataPlane
============================================================================
