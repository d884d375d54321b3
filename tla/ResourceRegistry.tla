-------------------------- MODULE ResourceRegistry --------------------------
(***************************************************************************)
(* Resource resolution of the execution MAD, GwEmMad._update_resource in   *)
(* src/drm4g/core/em_mad.py: the (Job, Communicator) pair for the HOST of  *)
(* a SUBMIT or RECOVER line. Both run on the intake thread, one after the  *)
(* other, so each resolution is one step (it also holds self._lock).       *)
(*                                                                         *)
(* The configuration file is the environment: the user edits it while the *)
(* MAD runs, and an edit may leave errors that check() reports. Each edit  *)
(* is a new version of the file; a resource's parameters are the version   *)
(* that last changed them. Configuration (load, check, check_update,       *)
(* make_resources, make_communicators) is not under src/ and is modelled   *)
(* from its interface in the spec: check_update() tells whether the file   *)
(* changed since the last load().                                          *)
(***************************************************************************)
EXTENDS Naturals

CONSTANTS
    Res,        \* resource names of the configuration file
    CloudRes,   \* those with a cloud_provider key
    Stranger,   \* model value: a HOST naming no resource
    NoVer,      \* model value: nothing loaded / no communicator cached
    MaxEdits,   \* bound: edits of the file
    MaxCalls    \* bound: resolutions

ASSUME CloudRes \subseteq Res /\ Stranger \notin Res /\ {MaxEdits, MaxCalls} \subseteq Nat

Vers == 0..MaxEdits
\* The resource a request's HOST names (bare, or before '::' in name::host).
HostArgs == Res \cup {Stranger}
\* What the configuration says: the resources it defines and their parameters.
Configs == [has : SUBSET Res, param : [Res -> Vers]]
\* The outcome of the last resolution.
NoCall  == [result |-> "none"]
Outcomes ==
    {NoCall}
    \cup [result : {"raise", "notfound"}]
    \cup [result : {"ok"}, res : Res, job : Vers, comm : Vers, file : Vers, valid : BOOLEAN]

VARIABLES
    fileVer,    \* version of the file on disk
    fileValid,  \* check() finds no error in it
    file,       \* its contents
    loaded,     \* version self._configure last loaded (NoVer: never)
    conf,       \* self._configure.resources as loaded
    comm,       \* self._communicators: parameters each cached communicator was built from
    calls,      \* resolutions so far
    last        \* the last resolution's outcome

vars == <<fileVer, fileValid, file, loaded, conf, comm, calls, last>>

TypeOK ==
    /\ fileVer \in Vers /\ fileValid \in BOOLEAN /\ file \in Configs
    /\ loaded \in Vers \cup {NoVer}
    /\ conf \in Configs /\ comm \in [Res -> Vers \cup {NoVer}]
    /\ calls \in 0..MaxCalls /\ last \in Outcomes

\* GwEmMad.processLine: self._configure = Configuration(), nothing loaded
\* yet; self._communicators = dict().
Init ==
    /\ fileVer = 0 /\ fileValid \in BOOLEAN
    /\ file \in [has : SUBSET Res \ {{}}, param : {[r \in Res |-> 0]}]
    /\ loaded = NoVer /\ conf = [has |-> {}, param |-> [r \in Res |-> 0]]
    /\ comm = [r \in Res |-> NoVer]
    /\ calls = 0 /\ last = NoCall

\* Configuration.check_update(): the file changed since the last load().
CheckUpdate == loaded # fileVer

\* The test of line 272: reload when check_update() is false or nothing
\* is loaded.
MustLoad == ~CheckUpdate \/ conf.has = {}

\* The loop over self._configure.resources: cloud resources are skipped,
\* and the resource is the one named by HOST, or by its part before '::'.
Matches(cf, h) == {r \in cf.has \ CloudRes : r = h}

\* _update_resource(HOST) under self._lock: load() and check() (errors
\* raise), then the first matching resource's communicator, built by
\* make_communicators() only if none is cached, and a new Job from
\* make_resources(). With no match the method returns None and the
\* caller's unpacking fails.
Resolve(h) ==
    /\ calls < MaxCalls /\ calls' = calls + 1
    /\ LET cf == IF MustLoad THEN file ELSE conf IN
       /\ conf' = cf
       /\ loaded' = IF MustLoad THEN fileVer ELSE loaded
       /\ IF MustLoad /\ ~fileValid
          THEN last' = [result |-> "raise"] /\ UNCHANGED comm
          ELSE IF Matches(cf, h) = {}
          THEN last' = [result |-> "notfound"] /\ UNCHANGED comm
          ELSE \E r \in Matches(cf, h) :
                 LET c == IF comm[r] = NoVer THEN cf.param[r] ELSE comm[r] IN
                 /\ comm' = [comm EXCEPT ![r] = c]
                 /\ last' = [result |-> "ok", res |-> r, job |-> cf.param[r],
                             comm |-> c, file |-> file.param[r],
                             valid |-> fileValid]
    /\ UNCHANGED <<fileVer, fileValid, file>>

\* The user edits the file: resources added or removed, parameters of
\* some changed, errors introduced or fixed.
Edit ==
    /\ fileVer < MaxEdits /\ fileVer' = fileVer + 1
    /\ fileValid' \in BOOLEAN
    /\ \E has \in SUBSET Res \ {{}}, changed \in SUBSET Res :
         file' = [has |-> has,
                  param |-> [r \in Res |-> IF r \in changed THEN fileVer + 1
                                           ELSE file.param[r]]]
    /\ UNCHANGED <<loaded, conf, comm, calls, last>>

\* GridWay has sent its last request.
Done == calls = MaxCalls /\ UNCHANGED vars

Next == (\E h \in HostArgs : Resolve(h)) \/ Edit \/ Done

Spec == Init /\ [][Next]_vars

----------------------------------------------------------------------------
(* Properties.                                                             *)

\* A resolution that succeeds builds the job, and hands out a communicator,
\* from the configuration file as it is: an edit is picked up by the next
\* SUBMIT or RECOVER (spec 4.3: reload when the configuration is stale or
\* empty; spec 2: the pair is rebuilt when the configuration changes), so
\* neither the check_update() test of _update_resource nor the
\* self._communicators cache may hand out parameters of an older file.
ResolvedCurrent ==
    (last.result = "ok" /\ last.valid) => last.job = last.file /\ last.comm = last.file

=============================================================================
