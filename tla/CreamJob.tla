------------------------------ MODULE CreamJob ------------------------------
(***************************************************************************)
(* The CREAM driver's job operations, src/drm4g/managers/cream.py class    *)
(* Job: jobSubmit, jobStatus (with _getOutputURL and _getOutputFiles),     *)
(* jobCancel, and the VOMS proxy renewal _renew_voms_proxy they share.     *)
(*                                                                         *)
(* Every step is one remote command run through the communicator. What a  *)
(* command prints depends on the user's VOMS proxy on the frontend, which  *)
(* expires on its own, on the CE's view of the job, and on transient       *)
(* failures. A command's output is abstracted to what the driver tests in  *)
(* it: "ok" (the success text), "expired" (The proxy has EXPIRED / is not  *)
(* accessible) or "error" (ERROR or error on stderr, or no success text).  *)
(*                                                                         *)
(* The operations of one Job object are modelled one at a time. In the    *)
(* execution MAD a worker's CANCEL can overlap the callback's jobStatus of *)
(* the same job; that overlap is not modelled here.                        *)
(* jobPurge is never called and is left out.                               *)
(*                                                                         *)
(* default_output_files is a class attribute: one list for every CREAM Job *)
(* of the process. jobTemplate, which do_SUBMIT calls before jobSubmit,    *)
(* extends it in place with the job's output sandbox, and _getOutputFiles  *)
(* copies every file of it. The list is abstracted to whose file each      *)
(* entry is: a default file, this job's, or another job's.                 *)
(***************************************************************************)
EXTENDS Naturals, Sequences, Drivers

CONSTANTS
    NFiles,       \* len(default_output_files)
    MaxCalls,     \* bound: operations called
    MaxExpiries,  \* bound: expiries of the proxy
    MaxFaults,    \* bound: transient command failures
    MaxOthers     \* bound: other jobs' jobTemplate calls

ASSUME {NFiles, MaxCalls, MaxExpiries, MaxFaults, MaxOthers} \subseteq Nat

Ops  == {"submit", "status", "cancel"}
Pcs  == {"idle", "deleg", "submit", "pxrenew", "status", "fetch", "cancel", "renew"}
Results == {"none", "handle", "ok", "raise"} \cup Canonical
FileOwners == {"default", "own", "other"}

VARIABLES
    phase,     \* the job at the CE (Drivers!Phases)
    proxy,     \* the VOMS proxy x509up.<vo> on the frontend
    myproxy,   \* voms-proxy-init can renew it from the MyProxy server
    expiries,  \* expiries so far
    faults,    \* transient failures so far
    calls,     \* operations called so far
    op,        \* the operation running, or the last one
    pc,        \* the command it runs next
    again,     \* the command at pc is the retry after a renewal
    back,      \* the command to rerun after the renewal
    cont,      \* _renew_voms_proxy's cont argument
    st,        \* the state jobStatus found, returned after the outputs
    fetched,   \* output files copied by this jobStatus
    result,    \* what the last operation returned (raise: JobException)
    seen,      \* the CE's phase when the operation last ran a command
    blame,     \* a command of this operation failed for another reason than the proxy
    outList,   \* Job.default_output_files, by owner of each entry
    others     \* other jobs' jobTemplate calls so far

shared == <<outList, others>>
vars == <<phase, proxy, myproxy, expiries, faults, calls, op, pc, again,
          back, cont, st, fetched, result, seen, blame, shared>>

TypeOK ==
    /\ phase \in Phases /\ proxy \in {"valid", "expired"} /\ myproxy \in BOOLEAN
    /\ expiries \in 0..MaxExpiries /\ faults \in 0..MaxFaults
    /\ calls \in 0..MaxCalls /\ op \in Ops /\ pc \in Pcs
    /\ again \in BOOLEAN /\ back \in Pcs /\ cont \in 0..3
    /\ st \in Canonical /\ fetched \in 0..Len(outList)
    /\ result \in Results /\ seen \in Phases /\ blame \in BOOLEAN
    /\ outList \in Seq(FileOwners) /\ Len(outList) <= NFiles + MaxCalls + MaxOthers
    /\ others \in 0..MaxOthers

Init ==
    /\ phase = "NONE" /\ proxy = "valid" /\ myproxy \in BOOLEAN
    /\ expiries = 0 /\ faults = 0 /\ calls = 0
    /\ op = "status" /\ pc = "idle" /\ again = FALSE /\ back = "idle"
    /\ cont = 0 /\ st = "UNKNOWN" /\ fetched = 0
    /\ result = "none" /\ seen = "NONE" /\ blame = FALSE
    /\ outList = [i \in 1..NFiles |-> "default"] /\ others = 0

\* What a command prints: with an expired proxy it says so; otherwise it
\* succeeds or (a transient failure) reports an error.
Outcomes ==
    IF proxy = "expired" THEN {"expired"}
    ELSE {"ok"} \cup (IF faults < MaxFaults THEN {"error"} ELSE {})

\* A transient failure is counted, and blamed on the command.
Ran(o) ==
    /\ faults' = IF o = "error" THEN faults + 1 ELSE faults
    /\ blame'  = (blame \/ o = "error")
    /\ seen'   = phase

\* Seeded fault: jobSubmit's second command is not checked for expiry.
ExpirySignal_noSubmit == {"deleg", "status", "cancel"}

\* The commands whose output the driver tests for an expired proxy, and
\* renews and reruns once: the delegation, the submission, the status
\* query and the cancel. glite-ce-proxy-renew and globus-url-copy are not.
ExpirySignal == {"deleg", "submit", "status", "cancel"}

\* if 'The proxy has EXPIRED' in out: self._renew_voms_proxy(), then the
\* same command again.
Renews(c, o) == o = "expired" /\ c \in ExpirySignal /\ ~again

StartRenew(c) ==
    /\ pc' = "renew" /\ back' = c /\ cont' = 0 /\ again' = TRUE
    /\ UNCHANGED <<result, st, fetched>>

Goto(p) == pc' = p /\ again' = FALSE /\ UNCHANGED <<back, cont, result>>

Return(r) == pc' = "idle" /\ result' = r /\ UNCHANGED <<again, back, cont>>

\* sandbox_files(env_file): the job's GW_OUTPUT_FILES that are not gsiftp://
\* or lfn:// URLs; here none or one.
OwnSandboxes == {<<>>, <<"own">>}

\* jobTemplate: self.default_output_files.extend(output_sandbox), on the
\* class's list.
Extend(sb) == outList' = outList \o sb

----------------------------------------------------------------------------
(* The operations.                                                         *)

\* The execution MAD calls an operation: do_SUBMIT runs jobTemplate and
\* then jobSubmit on a new Job object; jobStatus or jobCancel on a
\* submitted one.
Call(o) ==
    /\ pc = "idle" /\ calls < MaxCalls
    /\ (o = "submit") = (phase = "NONE")
    /\ calls' = calls + 1 /\ op' = o
    /\ pc' = CASE o = "submit" -> "deleg"
               [] o = "status" -> "pxrenew"
               [] o = "cancel" -> "cancel"
    /\ again' = FALSE /\ fetched' = 0 /\ blame' = FALSE /\ result' = "none"
    /\ st' = "UNKNOWN"
    /\ IF o = "submit" THEN \E sb \in OwnSandboxes : Extend(sb) ELSE UNCHANGED outList
    /\ UNCHANGED <<phase, proxy, myproxy, expiries, faults, back, cont, seen, others>>

\* jobSubmit, glite-ce-delegate-proxy: unless the output says succesfully
\* delegated (or already exists), raise JobException.
Deleg ==
    /\ pc = "deleg"
    /\ \E o \in Outcomes :
         /\ Ran(o)
         /\ IF Renews("deleg", o) THEN StartRenew("deleg")
            ELSE /\ IF o = "ok" THEN Goto("submit") ELSE Return("raise")
                 /\ UNCHANGED <<st, fetched>>
    /\ UNCHANGED <<phase, proxy, myproxy, expiries, calls, op, shared>>

\* jobSubmit, glite-ce-job-submit: the CREAM id (https://...) is returned;
\* without one, raise JobException.
SubmitCmd ==
    /\ pc = "submit"
    /\ \E o \in Outcomes :
         /\ Ran(o)
         /\ IF Renews("submit", o) THEN StartRenew("submit") /\ UNCHANGED phase
            ELSE /\ IF o = "ok" THEN phase' = "QUEUED" /\ Return("handle")
                    ELSE Return("raise") /\ UNCHANGED phase
                 /\ UNCHANGED <<st, fetched>>
    /\ UNCHANGED <<proxy, myproxy, expiries, calls, op, shared>>

\* jobStatus, glite-ce-proxy-renew: unless the output says succesfully
\* renewed, return 'FAILED'. An expired proxy is not renewed here.
PxRenew ==
    /\ pc = "pxrenew"
    /\ \E o \in Outcomes :
         /\ Ran(o)
         /\ IF o = "ok" THEN Goto("status") ELSE Return("FAILED")
    /\ UNCHANGED <<phase, proxy, myproxy, expiries, calls, op, st, fetched, shared>>


\* if job_status == 'DONE' or job_status == 'FAILED': get the outputs.
Fetches(s) == s \in TerminalStates

\* jobStatus, glite-ce-job-status: ERROR on stderr (a transient failure, or
\* a job the CE has purged) returns 'FAILED'; an output still saying the
\* proxy expired has no status line ('UNKNOWN'), or ERROR too; otherwise
\* the Current Status word through cream_states (setdefault 'UNKNOWN').
StatusCmd ==
    /\ pc = "status"
    /\ \E o \in Outcomes :
         /\ Ran(o)
         /\ \/ Renews("status", o) /\ StartRenew("status")
            \/ /\ ~Renews("status", o) /\ o = "expired"
               /\ \E r \in {"FAILED", "UNKNOWN"} : Return(r)
               /\ UNCHANGED <<st, fetched>>
            \/ /\ o = "error" \/ (o = "ok" /\ phase = "GONE")
               /\ Return("FAILED") /\ UNCHANGED <<st, fetched>>
            \/ /\ o = "ok" /\ phase # "GONE"
               /\ \E n \in NativeStates("cream", phase) :
                    LET s == Lookup(cream_states, n) IN
                    /\ st' = s
                    /\ IF Fetches(s) THEN Goto("fetch") ELSE Return(s)
               /\ UNCHANGED fetched
    /\ UNCHANGED <<phase, proxy, myproxy, expiries, calls, op, shared>>

\* _getOutputURL finds the CREAM OSB URI in the status output, and
\* _getOutputFiles copies the files of default_output_files one by one with
\* globus-url-copy; 'error' on stderr (an expired proxy, outputs the CE has
\* purged, a transient failure, a file this job did not produce) raises
\* JobException. The for loop reads the list by index, so entries appended
\* meanwhile are copied too. After the last file jobStatus returns the state.
Fetch ==
    /\ pc = "fetch"
    /\ \E o \in Outcomes :
         /\ Ran(o)
         /\ IF o = "ok" /\ phase # "GONE" /\ outList[fetched + 1] # "other"
            THEN /\ fetched' = fetched + 1
                 /\ IF fetched + 1 = Len(outList) THEN Return(st)
                    ELSE UNCHANGED <<pc, again, back, cont, result>>
            ELSE Return("raise") /\ UNCHANGED fetched
    /\ UNCHANGED <<phase, proxy, myproxy, expiries, calls, op, st, shared>>

\* jobCancel, glite-ce-job-cancel: ERROR on stderr raises JobException
\* (Drivers!CancelSucceeds); a retry still told the proxy expired may or
\* may not print ERROR.
CancelCmd ==
    /\ pc = "cancel"
    /\ \E o \in Outcomes :
         /\ Ran(o)
         /\ IF Renews("cancel", o) THEN StartRenew("cancel") /\ UNCHANGED phase
            ELSE IF o = "expired"
            THEN \E r \in {"raise", "ok"} : Return(r) /\ UNCHANGED phase
            ELSE IF CancelSucceeds(phase, IF o = "ok" THEN "ok" ELSE "stderr")
            THEN phase' = "CANCELLED" /\ Return("ok")
            ELSE Return("raise") /\ UNCHANGED phase
         /\ UNCHANGED <<st, fetched>>
    /\ UNCHANGED <<proxy, myproxy, expiries, calls, op, shared>>

\* Seeded fault: one attempt too many.
RenewAgain_offByOne(c) == c <= 3

\* if cont < 3: sleep, self._renew_voms_proxy(cont + 1).
RenewAgain(c) == c < 3

\* _renew_voms_proxy: voms-proxy-init from the MyProxy credential. With
\* nothing on stderr the proxy is new; otherwise it tries again, and after
\* the last attempt returns without telling the caller, which reruns its
\* command anyway.
Renew ==
    /\ pc = "renew"
    /\ \/ /\ myproxy /\ proxy' = "valid"
          /\ pc' = back /\ UNCHANGED <<cont, faults, blame>>
       \/ /\ myproxy => faults < MaxFaults
          /\ faults' = IF myproxy THEN faults + 1 ELSE faults
          /\ blame' = (blame \/ myproxy)
          /\ IF RenewAgain(cont) THEN cont' = cont + 1 /\ UNCHANGED pc
             ELSE pc' = back /\ UNCHANGED cont
          /\ UNCHANGED proxy
    /\ UNCHANGED <<phase, myproxy, expiries, calls, op, again, back, st,
                   fetched, result, seen, shared>>

----------------------------------------------------------------------------
(* The environment.                                                        *)

\* The proxy's lifetime runs out.
Expire ==
    /\ proxy = "valid" /\ expiries < MaxExpiries
    /\ proxy' = "expired" /\ expiries' = expiries + 1
    /\ UNCHANGED <<phase, myproxy, faults, calls, op, pc, again, back, cont,
                   st, fetched, result, seen, blame, shared>>

\* Another job's SUBMIT in the same execution MAD runs its jobTemplate (on
\* the intake thread, while a worker or the callback thread may be in this
\* job's jobStatus): its output sandbox, names this job does not produce,
\* is appended to the class's list.
OtherTemplate ==
    /\ others < MaxOthers /\ others' = others + 1
    /\ Extend(<<"other">>)
    /\ UNCHANGED <<phase, proxy, myproxy, expiries, faults, calls, op, pc, again,
                   back, cont, st, fetched, result, seen, blame>>

\* The CE runs, finishes or purges the job.
RemoteStep ==
    /\ \E p \in PhaseNext(phase) : phase' = p
    /\ UNCHANGED <<proxy, myproxy, expiries, faults, calls, op, pc, again,
                   back, cont, st, fetched, result, seen, blame, shared>>

\* The execution MAD has made its last call.
Done == pc = "idle" /\ calls = MaxCalls /\ UNCHANGED vars

Next ==
    \/ \E o \in Ops : Call(o)
    \/ Deleg \/ SubmitCmd \/ PxRenew \/ StatusCmd \/ Fetch \/ CancelCmd
    \/ Renew \/ Expire \/ OtherTemplate \/ RemoteStep \/ Done

Spec == Init /\ [][Next]_vars

----------------------------------------------------------------------------
(* Properties.                                                             *)

\* Renewal and one rerun cover a proxy that expires at any point of
\* jobSubmit (before the delegation or between it and the submission) or of
\* jobCancel: when the MyProxy credential can renew the proxy, no command
\* failed for another reason and the job was live, they do not raise.
ExpiryRecovered ==
    (/\ pc = "idle" /\ op \in {"submit", "cancel"} /\ result # "none"
     /\ myproxy /\ ~blame /\ (op = "cancel" => seen \in LivePhases))
        => result \in {"handle", "ok"}

\* jobStatus returns FAILED or raises only for a job the CE aborted or no
\* longer knows, unless a command failed transiently or the proxy cannot be
\* renewed: an expired proxy alone does not fail a job (spec 4.2), nor do
\* the jobs submitted after it.
StatusFaithful ==
    (/\ pc = "idle" /\ op = "status" /\ result \in {"FAILED", "raise"}
     /\ myproxy /\ ~blame)
        => seen \in {"ABORTED", "GONE"}

=============================================================================
