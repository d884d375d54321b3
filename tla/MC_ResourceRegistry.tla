-------------------------- MODULE MC_ResourceRegistry --------------------------
EXTENDS ResourceRegistry
CONSTANTS r1, r2, r3
================================================================================
