-------------------------- MODULE MCReleaseManager --------------------------
EXTENDS ReleaseManager
CONSTANT u
=============================================================================
