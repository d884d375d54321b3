----------------------------- MODULE MC_CreamJob -----------------------------
EXTENDS CreamJob
=============================================================================
