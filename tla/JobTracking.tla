----------------------------- MODULE JobTracking -----------------------------
(***************************************************************************)
(* What the execution MAD promises GridWay about the jobs it tracks (spec  *)
(* 4.1, the background task): a tracked job's state is refreshed from the  *)
(* LRMS, every refresh that changes the state, or finds it terminal, owes  *)
(* GridWay a CALLBACK line with that state, and a job stops being tracked  *)
(* only by the CALLBACK line that reports it terminal, or when the process *)
(* dies. RECOVER adopts a job with a refreshed state and answers it.       *)
(*                                                                         *)
(* Each promise is one atomic step here; EmMad implements it with the      *)
(* three threads and the registry, and MC_EmMad checks that every EmMad    *)
(* behaviour is a behaviour of this module under a refinement mapping.     *)
(***************************************************************************)
EXTENDS Naturals

CONSTANTS
    Jobs,       \* job identifiers chosen by GridWay
    States,     \* canonical states a refresh can yield
    Terminal,   \* DONE and FAILED
    Unknown     \* the state of a job never refreshed, or never reported

VARIABLES
    tracked,    \* jobs the MAD is tracking
    known,      \* the state the MAD holds for each job
    told,       \* the last state GridWay was told by CALLBACK or RECOVER
    owed,       \* tracked jobs whose CALLBACK line is owed
    adopting    \* jobs adopted by RECOVER and not yet answered

avars == <<tracked, known, told, owed, adopting>>

ATypeOK ==
    /\ tracked \subseteq Jobs /\ owed \subseteq tracked
    /\ adopting \subseteq Jobs
    /\ known \in [Jobs -> States \cup {Unknown}]
    /\ told \in [Jobs -> States \cup {Unknown}]

AInit ==
    /\ tracked = {} /\ owed = {} /\ adopting = {}
    /\ known = [j \in Jobs |-> Unknown]
    /\ told = [j \in Jobs |-> Unknown]

\* SUBMIT: the job is tracked, never refreshed.
Register(j) ==
    /\ j \notin tracked
    /\ tracked' = tracked \cup {j}
    /\ known' = [known EXCEPT ![j] = Unknown]
    /\ UNCHANGED <<told, owed, adopting>>

\* RECOVER: the job is refreshed and tracked; its answer is still to come.
Adopt(j, s) ==
    /\ j \notin tracked
    /\ tracked' = tracked \cup {j} /\ adopting' = adopting \cup {j}
    /\ known' = [known EXCEPT ![j] = s]
    /\ UNCHANGED <<told, owed>>

\* The RECOVER answer carries the state the MAD holds when it is written.
Answer(j) ==
    /\ j \in adopting
    /\ adopting' = adopting \ {j}
    /\ told' = [told EXCEPT ![j] = known[j]]
    /\ UNCHANGED <<tracked, known, owed>>

\* A refresh of a tracked job with no line owed; a new or terminal state
\* owes a CALLBACK line.
Refresh(j, s) ==
    /\ j \in tracked \ owed
    /\ known' = [known EXCEPT ![j] = s]
    /\ owed' = IF s # known[j] \/ s \in Terminal THEN owed \cup {j} ELSE owed
    /\ UNCHANGED <<tracked, told, adopting>>

\* The owed CALLBACK line is written; a terminal one ends the tracking.
Report(j) ==
    /\ j \in owed
    /\ told' = [told EXCEPT ![j] = known[j]]
    /\ owed' = owed \ {j}
    /\ tracked' = IF known[j] \in Terminal THEN tracked \ {j} ELSE tracked
    /\ UNCHANGED <<known, adopting>>

\* The process dies: everything it held is lost, GridWay keeps what it was
\* told.
Die ==
    /\ tracked' = {} /\ owed' = {} /\ adopting' = {}
    /\ known' = [j \in Jobs |-> Unknown]
    /\ UNCHANGED told

ANext ==
    \/ \E j \in Jobs : Register(j) \/ Answer(j) \/ Report(j)
    \/ \E j \in Jobs, s \in States : Adopt(j, s) \/ Refresh(j, s)
    \/ Die

ASpec == AInit /\ [][ANext]_avars

=============================================================================
