------------------------------- MODULE Drivers -------------------------------
(***************************************************************************)
(* The resource drivers of src/drm4g/managers (pbs.py, slurm_res.py,       *)
(* cream.py) as pure operators: each driver's native-state table, the      *)
(* canonical state its jobStatus() returns for what the LRMS prints, and   *)
(* whether jobCancel() returns or raises.                                  *)
(*                                                                         *)
(* The remote job is described by an abstract Phase (the truth at the      *)
(* LRMS); NativeStates says which native words the LRMS can print for it.  *)
(* A query of the LRMS either prints normally ("ok") or also writes to     *)
(* stderr ("stderr": a transient error of the LRMS command, a failed proxy *)
(* renewal, ...). Exceptions raised by the communicator are handled by the *)
(* caller (EmMad).                                                         *)
(***************************************************************************)
EXTENDS Naturals, TLC

Canonical      == {"PENDING", "ACTIVE", "SUSPENDED", "DONE", "FAILED", "UNKNOWN"}
TerminalStates == {"DONE", "FAILED"}

DriverKinds    == {"pbs", "slurm", "cream"}

\* Where the remote job really is. NONE: not submitted; GONE: purged by the
\* LRMS after it finished, so the status command no longer knows it.
Phases         == {"NONE", "QUEUED", "HELD", "RUNNING",
                   "SUCCEEDED", "ABORTED", "CANCELLED", "GONE"}
FinishedPhases == {"SUCCEEDED", "ABORTED", "CANCELLED", "GONE"}
LivePhases     == {"QUEUED", "HELD", "RUNNING"}

QueryOutcomes  == {"ok", "stderr"}

\* The LRMS life cycle of a job (environment, not DRM4G code).
PhaseNext(p) ==
    CASE p = "QUEUED"  -> {"RUNNING", "HELD"}
      [] p = "HELD"    -> {"QUEUED"}
      [] p = "RUNNING" -> {"SUCCEEDED", "ABORTED"}
      [] p \in {"SUCCEEDED", "ABORTED", "CANCELLED"} -> {"GONE"}
      [] OTHER         -> {}

(***************************************************************************)
(* The native words each LRMS prints for a phase (environment). GONE and   *)
(* NONE print no state line.                                               *)
(***************************************************************************)
NoLine == "-"

NativeStates(d, p) ==
    LET pbs   == ("QUEUED" :> {"Q", "T", "W"}) @@ ("HELD" :> {"H", "S"})
                 @@ ("RUNNING" :> {"R", "E"}) @@ ("SUCCEEDED" :> {"C"})
                 @@ ("ABORTED" :> {"C"}) @@ ("CANCELLED" :> {"C"})
        slurm == ("QUEUED" :> {"PENDING"}) @@ ("HELD" :> {"SUSPENDED"})
                 @@ ("RUNNING" :> {"RUNNING", "COMPLETING"})
                 @@ ("SUCCEEDED" :> {"COMPLETED"})
                 @@ ("ABORTED" :> {"FAILED", "NODE_FAIL", "TIMEOUT"})
                 @@ ("CANCELLED" :> {"CANCELLED"})
        cream == ("QUEUED" :> {"REGISTERED", "PENDING", "IDLE"})
                 @@ ("HELD" :> {"HELD"})
                 @@ ("RUNNING" :> {"RUNNING", "REALLY-RUNNING"})
                 @@ ("SUCCEEDED" :> {"DONE-OK"})
                 @@ ("ABORTED" :> {"DONE-FAILED", "ABORTED"})
                 @@ ("CANCELLED" :> {"CANCELLED"})
        tbl   == ("pbs" :> pbs) @@ ("slurm" :> slurm) @@ ("cream" :> cream)
    IN  IF p \in DOMAIN tbl[d] THEN tbl[d][p] ELSE {NoLine}

----------------------------------------------------------------------------
(* Native-state tables, as written in the drivers.                         *)

states_pbs ==
    ("E" :> "ACTIVE") @@ ("H" :> "SUSPENDED") @@ ("Q" :> "PENDING")
    @@ ("R" :> "ACTIVE") @@ ("T" :> "PENDING") @@ ("W" :> "PENDING")
    @@ ("S" :> "SUSPENDED") @@ ("C" :> "DONE")

states_altamira ==
    ("CANCELLED" :> "DONE") @@ ("COMPLETED" :> "DONE")
    @@ ("COMPLETING" :> "ACTIVE") @@ ("RUNNING" :> "ACTIVE")
    @@ ("NODE_FAIL" :> "FAILED") @@ ("FAILED" :> "FAILED")
    @@ ("PENDING" :> "PENDING") @@ ("SUSPENDED" :> "SUSPENDED")
    @@ ("TIMEOUT" :> "FAILED")

cream_states ==
    ("REGISTERED" :> "PENDING") @@ ("PENDING" :> "PENDING")
    @@ ("IDLE" :> "PENDING") @@ ("RUNNING" :> "ACTIVE")
    @@ ("REALLY-RUNNING" :> "ACTIVE") @@ ("HELD" :> "PENDING")
    @@ ("CANCELLED" :> "DONE") @@ ("DONE-OK" :> "DONE")
    @@ ("DONE-FAILED" :> "FAILED") @@ ("ABORTED" :> "FAILED")

\* table.setdefault(state, 'UNKNOWN'): unmapped native states are UNKNOWN.
Lookup(table, s) == IF s \in DOMAIN table THEN table[s] ELSE "UNKNOWN"

----------------------------------------------------------------------------
(* jobStatus() of each driver: phase p, printed native word n, outcome q.  *)

\* Seeded fault: qstat's stderr read as a finished job, as slurm does.
PbsJobStatus_stderrDone(p, n, q) ==
    IF p = "GONE" \/ q = "stderr" THEN "DONE" ELSE Lookup(states_pbs, n)

\* pbs: 'Unknown Job Id' on stderr means the job is gone: DONE; any other
\* stderr: UNKNOWN; otherwise the table.
PbsJobStatus(p, n, q) ==
    IF p = "GONE" THEN "DONE"
    ELSE IF q = "stderr" THEN "UNKNOWN"
    ELSE Lookup(states_pbs, n)

\* slurm (mnq): any stderr, or no output, is taken as DONE.
SlurmJobStatus(p, n, q) ==
    IF q = "stderr" \/ p = "GONE" THEN "DONE"
    ELSE Lookup(states_altamira, n)

\* cream: a failed proxy renewal or "ERROR" on stderr (the job purged, or a
\* transient failure of glite-ce-job-status) is FAILED.
CreamJobStatus(p, n, q) ==
    IF q = "stderr" \/ p = "GONE" THEN "FAILED"
    ELSE Lookup(cream_states, n)

JobStatus(d, p, n, q) ==
    CASE d = "pbs"   -> PbsJobStatus(p, n, q)
      [] d = "slurm" -> SlurmJobStatus(p, n, q)
      [] d = "cream" -> CreamJobStatus(p, n, q)

----------------------------------------------------------------------------
(* jobSubmit() of each driver. The submission command either queues the    *)
(* job and prints its id ("ok"), queues it and also writes a warning to    *)
(* stderr ("warn"), or refuses it and prints an error ("refused").         *)
SubmitOutcomes == {"ok", "warn", "refused"}

\* The LRMS holds the job after the command.
Queues(q) == q \in {"ok", "warn"}

\* pbs: qsub's stderr, whatever it says, raises JobException; otherwise
\* stdout is the job id.
PbsSubmitReturns(q) == q = "ok"

\* slurm: the id is taken from "Submitted batch job N" on stdout; stderr is
\* read only for the message of the exception when the id is missing.
SlurmSubmitReturns(q) == Queues(q)

\* cream: the id is the text from "https://" on stdout; stderr is ignored.
CreamSubmitReturns(q) == Queues(q)

\* jobSubmit returns the LRMS job id (otherwise it raises JobException).
SubmitReturns(d, q) ==
    CASE d = "pbs"   -> PbsSubmitReturns(q)
      [] d = "slurm" -> SlurmSubmitReturns(q)
      [] d = "cream" -> CreamSubmitReturns(q)

\* jobCancel(): qdel / mncancel / glite-ce-job-cancel print an error, and
\* the driver raises JobException, unless the job is still live at the LRMS
\* and the command did not fail.
CancelSucceeds(p, q) == p \in LivePhases /\ q = "ok"

=============================================================================
