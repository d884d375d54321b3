------------------------------ MODULE MC_SshComm ------------------------------
EXTENDS SshComm, TLC
CONSTANTS t1, t2

\* A job directory d with the wrapper file w, a subdirectory s of the job's
\* outputs and a file o in it.
MCParent == ("d" :> "~") @@ ("d/w" :> "d") @@ ("d/s" :> "d") @@ ("d/s/o" :> "d/s")
=============================================================================
