------------------------------- MODULE EmMad --------------------------------
(***************************************************************************)
(* The execution-manager MAD of src/drm4g/core/em_mad.py (class GwEmMad)   *)
(* with the job registry of utils/list.py (List) and one resource whose    *)
(* driver is Driver.                                                       *)
(*                                                                         *)
(* Three kinds of thread share the registry and the job objects:          *)
(*  - the intake thread (processLine) reads request lines from GridWay and *)
(*    runs INIT, SUBMIT, RECOVER and FINALIZE itself, handing POLL and     *)
(*    CANCEL to                                                            *)
(*    the ThreadPool;                                                      *)
(*  - the pool's worker threads run do_POLL and do_CANCEL;                 *)
(*  - the daemon thread do_CALLBACK wakes up, takes a copy of the registry *)
(*    and refreshes every job, writing CALLBACK lines.                     *)
(* Every List method runs under the List's lock, so each is one step; a    *)
(* read or write of a job's attribute is one step under the interpreter    *)
(* lock. A job object is identified with its JID: a JID is submitted at    *)
(* most once.                                                              *)
(*                                                                         *)
(* The process can be killed and started again (Crash): the registry and  *)
(* the threads are lost, the LRMS keeps the jobs, and GridWay sends        *)
(* RECOVER for the jobs it was told are submitted and not yet finished.    *)
(***************************************************************************)
EXTENDS Naturals, Sequences, FiniteSets, Drivers

CONSTANTS
    Jobs,         \* job identifiers chosen by GridWay
    Workers,      \* threads of the ThreadPool (at most _max_thread)
    Driver,       \* lrms of the resource: "pbs", "slurm" or "cream"
    MaxRequests,  \* bound: request lines GridWay writes
    MaxQueue,     \* bound: tasks waiting in the ThreadPool queue
    MaxFaults,    \* bound: transient LRMS errors and raised exceptions
    MaxCrashes,   \* bound: kills and restarts of the MAD process
    NoJob         \* model value: no job (an idle thread's task)

ASSUME Driver \in DriverKinds
ASSUME Jobs # {} /\ Workers # {} /\ NoJob \notin Jobs
ASSUME {MaxRequests, MaxQueue, MaxFaults, MaxCrashes} \subseteq Nat

\* job.status of a Job object that was never refreshed.
NoStatus == "NOSTATUS"
\* No SUCCESS line about the job written yet.
NoReport == "NOREPORT"

VARIABLES
    alive,      \* the process has not run do_FINALIZE
    nreq,       \* request lines read by processLine
    mainPc,     \* intake thread: "idle", "submit_reply" or "recover_reply"
    mainJob,    \* the job whose SUBMIT or RECOVER the intake thread is answering
    sent,       \* jobs GridWay has written a SUBMIT line for
    acked,      \* jobs whose "SUBMIT j SUCCESS" line is written
    reg,        \* the keys of GwEmMad._job_list
    mine,       \* jobs this process has put in _job_list
    status,     \* job.status of each job object
    phase,      \* the remote job at the LRMS
    queue,      \* ThreadPool queue of <<operation, JID>> tasks
    wpc,        \* worker thread program counter
    wjob,       \* JID of the task a worker runs
    wval,       \* status a POLL worker has read and not yet written
    cbPc,       \* do_CALLBACK: "sleep", "iter", "delete" or "print"
    cbSnap,     \* jobs of _job_list.items() not yet visited this iteration
    cbJob,      \* job whose CALLBACK line is being produced
    cbNew,      \* its newStatus
    reported,   \* last state written in a SUCCESS POLL or CALLBACK line
    cbLast,     \* last state written in a SUCCESS CALLBACK or RECOVER line
    termCb,     \* jobs a terminal CALLBACK line was written for
    faults,     \* transient errors and exceptions so far
    crashes     \* restarts of the process so far

mad   == <<alive, nreq, mainPc, mainJob, sent, acked>>
regv  == <<reg, mine, status, phase, queue>>
pool  == <<wpc, wjob, wval>>
cb    == <<cbPc, cbSnap, cbJob, cbNew>>
hist  == <<reported, cbLast, termCb, faults, crashes>>
vars  == <<mad, regv, pool, cb, hist>>

Status    == Canonical \cup {NoStatus}
Reports   == Status \cup {NoReport}
Ops       == {"POLL", "CANCEL"}
WorkerPcs == {"idle", "poll_get", "poll_reply", "cancel"}

\* The registry, utils/list.py: every method holds List._lock, so each is
\* one step. A job object is named by its JID, None by NoJob.
\* List(): an empty dictionary.
EmptyList == {}
\* put(key, value).
Put(j) == reg' = reg \cup {j}
\* get(key): the job, or None.
Get(j) == IF j \in reg THEN j ELSE NoJob
\* delete(key): a KeyError is passed over.
Delete(j) == reg' = reg \ {j}
\* has_key(key).
HasKey(j) == j \in reg
\* items(): a list of the entries, copied under the lock.
Items == reg

TypeOK ==
    /\ alive \in BOOLEAN
    /\ nreq \in 0..MaxRequests
    /\ mainPc \in {"idle", "submit_reply", "recover_reply"}
    /\ mainJob \in Jobs \cup {NoJob}
    /\ sent \subseteq Jobs /\ acked \subseteq sent
    /\ reg \subseteq mine /\ mine \subseteq sent
    /\ status \in [Jobs -> Status]
    /\ phase \in [Jobs -> Phases]
    /\ queue \in Seq(Ops \X Jobs) /\ Len(queue) <= MaxQueue
    /\ wpc \in [Workers -> WorkerPcs] /\ wjob \in [Workers -> Jobs \cup {NoJob}]
    /\ wval \in [Workers -> Status]
    /\ cbPc \in {"sleep", "iter", "delete", "print"}
    /\ cbSnap \subseteq Jobs /\ cbJob \in Jobs \cup {NoJob} /\ cbNew \in Status
    /\ reported \in [Jobs -> Reports] /\ cbLast \in [Jobs -> Reports]
    /\ termCb \subseteq Jobs
    /\ faults \in 0..MaxFaults /\ crashes \in 0..MaxCrashes

Init ==
    /\ alive = TRUE /\ nreq = 0
    /\ mainPc = "idle" /\ mainJob = NoJob
    /\ sent = {} /\ acked = {}
    /\ reg = EmptyList /\ mine = {}
    /\ status = [j \in Jobs |-> NoStatus]
    /\ phase = [j \in Jobs |-> "NONE"]
    /\ queue = <<>>
    /\ wpc = [w \in Workers |-> "idle"]
    /\ wjob = [w \in Workers |-> NoJob] /\ wval = [w \in Workers |-> NoStatus]
    /\ cbPc = "sleep" /\ cbSnap = {} /\ cbJob = NoJob /\ cbNew = NoStatus
    /\ reported = [j \in Jobs |-> NoReport]
    /\ cbLast = [j \in Jobs |-> NoStatus]
    /\ termCb = {}
    /\ faults = 0 /\ crashes = 0

\* A fault (transient LRMS error or raised exception) may still happen.
CanFault == faults < MaxFaults
Fault    == faults' = faults + 1

----------------------------------------------------------------------------
(* Intake thread: processLine reads one line while it is not busy.         *)

CanRead == alive /\ mainPc = "idle" /\ nreq < MaxRequests

\* INIT - - -: writes INIT - SUCCESS -.
ReadInit ==
    /\ CanRead
    /\ nreq' = nreq + 1
    /\ UNCHANGED <<alive, mainPc, mainJob, sent, acked, regv, pool, cb, hist>>

\* A line with a field count other than 4 or an unknown operation: WRONG
\* COMMAND, and the loop goes on.
ReadWrong ==
    /\ CanRead
    /\ nreq' = nreq + 1
    /\ UNCHANGED <<alive, mainPc, mainJob, sent, acked, regv, pool, cb, hist>>

\* POLL j - - / CANCEL j - -: pool.add_task(do_POLL / do_CANCEL).
ReadPooled(op, j) ==
    /\ CanRead
    /\ j \in sent
    /\ Len(queue) < MaxQueue
    /\ nreq' = nreq + 1
    /\ queue' = Append(queue, <<op, j>>)
    /\ UNCHANGED <<alive, mainPc, mainJob, sent, acked, reg, mine, status, phase,
                   pool, cb, hist>>

\* do_SUBMIT up to _job_list.put: _update_resource, the wrapper is written
\* and copied and jobSubmit runs; the job is put in the registry only if
\* jobSubmit returns its id. An exception before jobSubmit, or a refused
\* submission, queues nothing; a submission the LRMS queued can still raise
\* (a warning on qsub's stderr). Either way the reply is SUBMIT j FAILURE.
Submit(j) ==
    /\ CanRead
    /\ j \notin sent
    /\ nreq' = nreq + 1
    /\ sent' = sent \cup {j}
    /\ \E q \in SubmitOutcomes :
         /\ q = "warn" => CanFault
         /\ IF q = "warn" THEN Fault ELSE UNCHANGED faults
         /\ phase' = IF Queues(q) THEN [phase EXCEPT ![j] = "QUEUED"] ELSE phase
         /\ IF SubmitReturns(Driver, q)
            THEN /\ status' = [status EXCEPT ![j] = NoStatus]
                 /\ Put(j) /\ mine' = mine \cup {j}
                 /\ mainPc' = "submit_reply" /\ mainJob' = j
            ELSE UNCHANGED <<status, reg, mine, mainPc, mainJob>>
    /\ UNCHANGED <<alive, acked, queue, pool, cb, reported, cbLast, termCb,
                   crashes>>

\* do_SUBMIT writes SUBMIT j SUCCESS host:JobId after the put.
SubmitReply ==
    /\ alive /\ mainPc = "submit_reply"
    /\ acked' = acked \cup {mainJob}
    /\ mainPc' = "idle"
    /\ mainJob' = NoJob
    /\ UNCHANGED <<alive, nreq, sent, regv, pool, cb, hist>>

\* do_RECOVER up to _job_list.put: a new Job object for the remote id,
\* refreshJobStatus() (the driver's jobStatus), and the put. GridWay
\* recovers, in a process it started again, the jobs it was told are
\* submitted and not yet finished; this process never held them. A raised exception (the communicator, a
\* transient error that raises) makes the reply RECOVER j FAILURE.
RecoverPut(j) ==
    /\ CanRead
    /\ j \in acked /\ j \notin mine /\ reported[j] \notin TerminalStates
    /\ nreq' = nreq + 1
    /\ \/ /\ CanFault /\ Fault
          /\ UNCHANGED <<reg, mine, status, mainPc, mainJob>>
       \/ \E n \in NativeStates(Driver, phase[j]), q \in QueryOutcomes :
            /\ q = "stderr" => CanFault
            /\ IF q = "stderr" THEN Fault ELSE UNCHANGED faults
            /\ status' = [status EXCEPT ![j] = JobStatus(Driver, phase[j], n, q)]
            /\ Put(j) /\ mine' = mine \cup {j}
            /\ mainPc' = "recover_reply" /\ mainJob' = j
    /\ UNCHANGED <<alive, sent, acked, phase, queue, pool, cb, reported,
                   cbLast, termCb, crashes>>

\* do_RECOVER writes RECOVER j SUCCESS job.getStatus(), read after the put.
RecoverReply ==
    /\ alive /\ mainPc = "recover_reply"
    /\ reported' = [reported EXCEPT ![mainJob] = status[mainJob]]
    /\ cbLast' = [cbLast EXCEPT ![mainJob] = status[mainJob]]
    /\ mainPc' = "idle" /\ mainJob' = NoJob
    /\ UNCHANGED <<alive, nreq, sent, acked, regv, pool, cb, termCb, faults,
                   crashes>>

\* The MAD process is killed and GridWay starts a new one: the registry,
\* the pool's queue and the threads' progress are lost, the LRMS and
\* GridWay keep theirs.
Crash ==
    /\ alive /\ crashes < MaxCrashes
    /\ crashes' = crashes + 1
    /\ mainPc' = "idle" /\ mainJob' = NoJob
    /\ reg' = EmptyList /\ mine' = {} /\ queue' = <<>>
    /\ status' = [j \in Jobs |-> NoStatus]
    /\ wpc' = [w \in Workers |-> "idle"]
    /\ wjob' = [w \in Workers |-> NoJob] /\ wval' = [w \in Workers |-> NoStatus]
    /\ cbPc' = "sleep" /\ cbSnap' = {} /\ cbJob' = NoJob /\ cbNew' = NoStatus
    /\ UNCHANGED <<alive, nreq, sent, acked, phase, reported, cbLast, termCb,
                   faults>>

\* do_FINALIZE: FINALIZE - SUCCESS -, sys.exit(0); the daemon threads die.
Finalize ==
    /\ CanRead
    /\ nreq' = nreq + 1
    /\ alive' = FALSE
    /\ UNCHANGED <<mainPc, mainJob, sent, acked, regv, pool, cb, hist>>

----------------------------------------------------------------------------
(* Worker threads of the ThreadPool.                                        *)

\* A worker takes the next task and runs _job_list.has_key(JID); for an
\* unknown JID it writes "POLL/CANCEL j FAILURE Job not submitted".
PoolTake(w) ==
    LET op == Head(queue)[1]
        j  == Head(queue)[2]
    IN
    /\ alive /\ wpc[w] = "idle" /\ queue # <<>>
    /\ queue' = Tail(queue)
    /\ wjob' = [wjob EXCEPT ![w] = IF HasKey(j) THEN j ELSE NoJob]
    /\ wpc' = [wpc EXCEPT ![w] =
                 IF ~HasKey(j) THEN "idle"
                 ELSE IF op = "POLL" THEN "poll_get" ELSE "cancel"]
    /\ UNCHANGED <<mad, reg, mine, status, phase, wval, cb, hist>>

\* do_POLL: job = _job_list.get(JID); status = job.getStatus(). A job
\* deleted since has_key gives None, and None.getStatus() raises: POLL j
\* FAILURE.
PollGet(w) ==
    LET j == wjob[w] IN
    /\ alive /\ wpc[w] = "poll_get"
    /\ IF Get(j) # NoJob
       THEN /\ wval' = [wval EXCEPT ![w] = status[j]]
            /\ wpc' = [wpc EXCEPT ![w] = "poll_reply"]
       ELSE /\ wpc' = [wpc EXCEPT ![w] = "idle"]
            /\ UNCHANGED wval
    /\ wjob' = [wjob EXCEPT ![w] = Get(j)]
    /\ UNCHANGED <<mad, regv, cb, hist>>

\* do_POLL writes POLL j SUCCESS status.
PollReply(w) ==
    LET j == wjob[w] IN
    /\ alive /\ wpc[w] = "poll_reply"
    /\ reported' = [reported EXCEPT ![j] = wval[w]]
    /\ wpc' = [wpc EXCEPT ![w] = "idle"]
    /\ wjob' = [wjob EXCEPT ![w] = NoJob]
    /\ wval' = [wval EXCEPT ![w] = NoStatus]
    /\ UNCHANGED <<mad, regv, cb, cbLast, termCb, faults, crashes>>

\* do_CANCEL: _job_list.get(JID).jobCancel() and the reply. The LRMS
\* cancels a live job unless its command fails; a failure or a job deleted
\* since has_key gives CANCEL j FAILURE.
CancelRun(w) ==
    LET j == wjob[w] IN
    /\ alive /\ wpc[w] = "cancel"
    /\ wpc' = [wpc EXCEPT ![w] = "idle"]
    /\ wjob' = [wjob EXCEPT ![w] = NoJob]
    /\ \/ /\ Get(j) = NoJob
          /\ UNCHANGED <<phase, faults>>
       \/ /\ Get(j) # NoJob
          /\ \E q \in QueryOutcomes :
               /\ q = "stderr" => CanFault
               /\ IF q = "stderr" THEN Fault ELSE UNCHANGED faults
               /\ phase' = IF CancelSucceeds(phase[j], q)
                           THEN [phase EXCEPT ![j] = "CANCELLED"]
                           ELSE phase
    /\ UNCHANGED <<mad, reg, mine, status, queue, wval, cb,
                   reported, cbLast, termCb, crashes>>

----------------------------------------------------------------------------
(* The do_CALLBACK daemon thread.                                          *)

\* time.sleep(_callback_interval), then _job_list.items().
CbWake ==
    /\ alive /\ cbPc = "sleep"
    /\ cbSnap' = Items
    /\ cbPc' = "iter"
    /\ UNCHANGED <<mad, regv, pool, cbJob, cbNew, hist>>

\* Seeded faults: plausible slips in do_CALLBACK that the properties below
\* must reject.
CbRaise_endsLoop(j) ==
    /\ CanFault /\ Fault
    /\ cbPc' = "dead"
    /\ UNCHANGED <<reg, status, cbJob, cbNew>>
Announce(old, new) == new # old \/ new \in TerminalStates

\* if newStatus is DONE or FAILED: _job_list.delete(JID) first.
Evict(new) == new \in TerminalStates

\* except Exception: CALLBACK j FAILURE err. The communicator, or for cream
\* the output-file retrieval, raised; job.status is left as it was.
CbRaise(j) ==
    /\ CanFault /\ Fault
    /\ UNCHANGED <<reg, status, cbPc, cbJob, cbNew>>

\* oldStatus = job.getStatus(); job.refreshJobStatus() runs the driver's
\* jobStatus(); newStatus = job.getStatus().
CbRefresh(j) ==
    \E n \in NativeStates(Driver, phase[j]), q \in QueryOutcomes :
        LET new == JobStatus(Driver, phase[j], n, q) IN
        /\ q = "stderr" => CanFault
        /\ IF q = "stderr" THEN Fault ELSE UNCHANGED faults
        /\ status' = [status EXCEPT ![j] = new]
        /\ IF Announce(status[j], new)
           THEN /\ cbJob' = j /\ cbNew' = new
                /\ cbPc' = IF Evict(new) THEN "delete" ELSE "print"
           ELSE UNCHANGED <<cbPc, cbJob, cbNew>>
        /\ UNCHANGED reg

\* One job of the copy taken by items().
CbCheck(j) ==
    /\ alive /\ cbPc = "iter" /\ j \in cbSnap
    /\ cbSnap' = cbSnap \ {j}
    /\ CbRaise(j) \/ CbRefresh(j)
    /\ UNCHANGED <<mad, phase, queue, pool, reported, cbLast, termCb, mine, crashes>>

\* Seeded fault: the terminal job is never deleted from the registry.
CbDelete_keep ==
    /\ alive /\ cbPc = "delete"
    /\ cbPc' = "print"
    /\ UNCHANGED <<mad, regv, pool, cbSnap, cbJob, cbNew, hist>>

\* _job_list.delete(JID) for a terminal job.
CbDelete ==
    /\ alive /\ cbPc = "delete"
    /\ Delete(cbJob)
    /\ cbPc' = "print"
    /\ UNCHANGED <<mad, status, phase, mine, queue, pool, cbSnap, cbJob, cbNew, hist>>

\* CALLBACK j SUCCESS newStatus.
CbPrint ==
    /\ alive /\ cbPc = "print"
    /\ reported' = [reported EXCEPT ![cbJob] = cbNew]
    /\ cbLast' = [cbLast EXCEPT ![cbJob] = cbNew]
    /\ termCb' = IF cbNew \in TerminalStates THEN termCb \cup {cbJob}
                 ELSE termCb
    /\ cbPc' = "iter"
    /\ cbJob' = NoJob /\ cbNew' = NoStatus
    /\ UNCHANGED <<mad, regv, pool, cbSnap, faults, crashes>>

\* The for loop is over: back to sleep.
CbEnd ==
    /\ alive /\ cbPc = "iter" /\ cbSnap = {}
    /\ cbPc' = "sleep"
    /\ UNCHANGED <<mad, regv, pool, cbSnap, cbJob, cbNew, hist>>

----------------------------------------------------------------------------
(* The LRMS runs the job on its own.                                       *)

RemoteStep(j) ==
    /\ alive
    /\ \E p \in PhaseNext(phase[j]) : phase' = [phase EXCEPT ![j] = p]
    /\ UNCHANGED <<mad, reg, mine, status, queue, pool, cb, hist>>

\* After FINALIZE the process has exited.
Exited == ~alive /\ UNCHANGED vars

Next ==
    \/ ReadInit \/ ReadWrong \/ Finalize \/ SubmitReply \/ RecoverReply \/ Crash
    \/ \E j \in Jobs : RecoverPut(j)
    \/ \E op \in Ops, j \in Jobs : ReadPooled(op, j)
    \/ \E j \in Jobs : Submit(j)
    \/ \E w \in Workers : PoolTake(w) \/ PollGet(w) \/ PollReply(w) \/ CancelRun(w)
    \/ CbWake \/ CbDelete \/ CbPrint \/ CbEnd
    \/ \E j \in Jobs : CbCheck(j)
    \/ \E j \in Jobs : RemoteStep(j)
    \/ Exited

\* Threads are scheduled fairly; GridWay and the LRMS need not act.
Fairness ==
    /\ WF_vars(SubmitReply \/ RecoverReply)
    /\ \A w \in Workers : WF_vars(PoolTake(w) \/ PollGet(w) \/ PollReply(w)
                                   \/ CancelRun(w))
    /\ WF_vars(CbWake \/ CbDelete \/ CbPrint \/ CbEnd \/ \E j \in Jobs : CbCheck(j))

Spec     == Init /\ [][Next]_vars
FairSpec == Spec /\ Fairness

----------------------------------------------------------------------------
(* Properties.                                                             *)

\* A job is told DONE or FAILED (by CALLBACK or POLL) only when it has
\* finished at the LRMS: a transient error of the status command must not
\* make the MAD drop a job that is still queued or running (jobStatus of
\* the driver, do_CALLBACK deleting terminal jobs).
NoPrematureTerminal ==
    \A j \in Jobs : reported[j] \in TerminalStates => phase[j] \in FinishedPhases

\* DONE and FAILED are absorbing in what GridWay is told: after a SUCCESS
\* line with a terminal state, no SUCCESS line about the job names a
\* non-terminal state (do_POLL racing do_CALLBACK on the same job).
TerminalReportFinal ==
    [][\A j \in Jobs : reported[j] \in TerminalStates
                        => reported'[j] \notin Canonical \ TerminalStates]_reported

\* Every job DRM4G has queued at the LRMS is one GridWay knows of: its
\* SUBMIT j SUCCESS line is written, or the intake thread is about to write
\* it (do_SUBMIT runs jobSubmit, then _job_list.put, then the reply). A job
\* queued behind GridWay's back runs with nobody to poll or cancel it, and
\* GridWay submits the work again.
NoOrphan ==
    \A j \in Jobs : phase[j] # "NONE" =>
        j \in acked \/ (mainPc = "submit_reply" /\ mainJob = j)

\* EmMad implements JobTracking: a job is tracked while it is registered or
\* its CALLBACK line is being produced, the MAD's state of it is
\* job.status, GridWay's is the last CALLBACK or RECOVER line, the line owed
\* is the one do_CALLBACK has decided on and not yet written, and the job
\* adopted is the one whose RECOVER reply the intake thread still writes.
owedJobs == IF cbPc \in {"delete", "print"} THEN {cbJob} ELSE {}

Tracking == INSTANCE JobTracking WITH
    States <- Canonical, Terminal <- TerminalStates, Unknown <- NoStatus,
    tracked <- reg \cup owedJobs, known <- status, told <- cbLast,
    owed <- owedJobs,
    adopting <- IF mainPc = "recover_reply" THEN {mainJob} ELSE {}

\* Every behaviour of the three threads and the registry is one of
\* JobTracking: each refresh by do_CALLBACK that changes job.status or finds
\* it terminal is followed by its CALLBACK line with that status and
\* nothing else about the job in between, the registry loses a job only by
\* its terminal line (or the death of the process), and the RECOVER reply
\* carries the status the MAD holds when it writes it.
ImplementsJobTracking == Tracking!ASpec

=============================================================================
