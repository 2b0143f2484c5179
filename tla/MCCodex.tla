------------------------------- MODULE MCCodex -------------------------------
EXTENDS Codex
=============================================================================
