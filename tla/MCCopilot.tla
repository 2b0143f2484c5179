------------------------------ MODULE MCCopilot ------------------------------
EXTENDS Copilot
=============================================================================
