------------------------------- MODULE MCClaude -------------------------------
EXTENDS Claude
=============================================================================
