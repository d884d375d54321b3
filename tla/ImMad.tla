-------------------------------- MODULE ImMad --------------------------------
(***************************************************************************)
(* The information MAD of src/drm4g/core/im_mad.py (class GwImMad). One    *)
(* thread reads INIT, DISCOVER, MONITOR and FINALIZE lines from GridWay    *)
(* and answers each before reading the next.                               *)
(*                                                                         *)
(* DISCOVER loads the configuration, builds a fresh Resource object for    *)
(* every configured resource (make_resources), and for each enabled one    *)
(* connects and calls hosts(), which sets the object's host_list. MONITOR  *)
(* walks self._resources in dictionary order, raising at the first         *)
(* disabled resource, and describes the host found in a host_list.         *)
(*                                                                         *)
(* A resource has one host, named like the resource, except a CREAM       *)
(* resource with a 'vo' feature (Resource of src/drm4g/managers/cream.py), *)
(* whose hosts are "name::cluster" for the hosting clusters the BDII       *)
(* publishes for the VO, restricted to its 'host_filter' if it has one; a  *)
(* pair <<name, cluster>> here. The user may edit the configuration file   *)
(* between requests (enable flags, or an error that check() reports), the  *)
(* BDII may change what it publishes, and the remote side may fail a       *)
(* connection or an ldapsearch.                                            *)
(***************************************************************************)
EXTENDS Naturals, FiniteSets

CONSTANTS
    Res,          \* names of the configured (non-cloud) resources
    VoRes,        \* those that are CREAM resources with a 'vo' feature
    Clusters,     \* hosting clusters the BDII may publish
    HostFilter,   \* each VO resource's 'host_filter' clusters, or NoFilter
    NoFilter,     \* model value: no 'host_filter' key
    Stranger,     \* model value: a host name no resource has
    NoInfo,       \* model value: info = "" (no host attributes)
    Err,          \* model value: the error text of a FAILURE line
    DefaultHostList, \* TRUE if a Resource not yet asked for hosts() has an empty host_list
    MaxRequests,  \* bound: request lines
    MaxEdits,     \* bound: edits of the configuration file
    MaxFaults,    \* bound: failed remote connections and searches
    MaxPublish    \* bound: changes of what the BDII publishes

ASSUME DefaultHostList \in BOOLEAN
ASSUME {MaxRequests, MaxEdits, MaxFaults, MaxPublish} \subseteq Nat
ASSUME VoRes \subseteq Res /\ HostFilter \in [VoRes -> SUBSET Clusters \cup {NoFilter}]

\* The host of a plain resource is its name; "name::cluster" is <<name, cluster>>.
Hosts == (Res \ VoRes) \cup (VoRes \X Clusters) \cup {Stranger}
\* What MONITOR describes: the resource, and for a VO host the CEs the first
\* search of _host_vo_properties found on its cluster.
Infos == [res : Res, ces : SUBSET Clusters]
\* The last MONITOR reply: its host, and SUCCESS with the host's attributes
\* or FAILURE with an error.
NoMon == [host |-> Stranger, result |-> "NONE", info |-> NoInfo]
MonReplies ==
    [host : Hosts, result : {"SUCCESS"}, info : Infos]
    \cup [host : Hosts, result : {"FAILURE"}, info : {Err}] \cup {NoMon}

VARIABLES
    alive,      \* FINALIZE not read yet
    nreq,       \* request lines read
    fileEnable, \* enable flag of each resource in the configuration file
    fileValid,  \* check() of the file reports no error
    edits,      \* edits of the file so far
    config,     \* self._config: enable flags as loaded (None before DISCOVER)
    resources,  \* keys of self._resources
    listed,     \* resources whose Resource object has host_list set by hosts()
    hostList,   \* the hosts in each Resource object's host_list
    published,  \* hosting clusters the BDII publishes for each VO resource
    publishes,  \* changes of the BDII so far
    announced,  \* hosts of the last DISCOVER SUCCESS line
    lastMon,    \* the last MONITOR reply since the last DISCOVER
    faults      \* failed remote connections so far

vars == <<alive, nreq, fileEnable, fileValid, edits, config, resources,
          listed, hostList, published, publishes, announced, lastMon, faults>>

None == [r \in {} |-> FALSE]

TypeOK ==
    /\ alive \in BOOLEAN /\ nreq \in 0..MaxRequests
    /\ fileEnable \in [Res -> BOOLEAN] /\ fileValid \in BOOLEAN
    /\ edits \in 0..MaxEdits /\ faults \in 0..MaxFaults
    /\ config \in [Res -> BOOLEAN] \cup {None}
    /\ resources \subseteq Res /\ listed \subseteq Res
    /\ hostList \in [Res -> SUBSET Hosts]
    /\ published \in [VoRes -> SUBSET Clusters] /\ publishes \in 0..MaxPublish
    /\ announced \subseteq Hosts
    /\ lastMon \in MonReplies

\* GwImMad(): _resources = dict(), _config = None.
Init ==
    /\ alive = TRUE /\ nreq = 0
    /\ fileEnable \in [Res -> BOOLEAN] /\ fileValid \in BOOLEAN
    /\ edits = 0 /\ config = None /\ resources = {}
    /\ listed = {} /\ hostList = [r \in Res |-> {}]
    /\ published \in [VoRes -> SUBSET Clusters] /\ publishes = 0
    /\ announced = {} /\ lastMon = NoMon /\ faults = 0

CanRead == alive /\ nreq < MaxRequests
Read    == nreq' = nreq + 1

\* The variables DISCOVER alone changes.
discovery == <<config, resources, listed, hostList, announced>>

\* INIT - SUCCESS -, or WRONG COMMAND: nothing changes.
ReadOther ==
    /\ CanRead /\ Read
    /\ UNCHANGED <<alive, fileEnable, fileValid, edits, discovery, published,
                   publishes, lastMon, faults>>

\* Resource._hosts_vo(): one ldapsearch for GlueCEs of the VO, or one per
\* cluster of 'host_filter'; each CE found yields its hosting cluster. An
\* ldapsearch that writes to stderr fails its assert, and the exception
\* leaves hosts() before host_list is assigned.
Found(r) ==
    IF HostFilter[r] = NoFilter THEN published[r] ELSE published[r] \cap HostFilter[r]

\* Resource.hosts() of cream.py: "name::cluster" for each cluster found for
\* a VO resource, else [self.name] (the one host of every other resource).
HostsOf(r) == IF r \in VoRes THEN {<<r, c>> : c \in Found(r)} ELSE {r}

\* Seeded fault: the Resource objects keep the host_list of an earlier
\* DISCOVER.
Discovered_keep(ok) ==
    /\ listed' = listed \cup ok
    /\ hostList' = [r \in Res |-> IF r \in ok THEN HostsOf(r) ELSE hostList[r]]

\* make_resources() builds new Resource objects; hosts() sets host_list on
\* those whose connection and searches worked.
Discovered(ok) ==
    /\ listed' = ok
    /\ hostList' = [r \in Res |-> IF r \in ok THEN HostsOf(r) ELSE {}]

\* do_DISCOVER: self._config = Configuration(); load(); an error from check()
\* fails the assert (self._config is already the new one, _resources the
\* old). Otherwise every enabled resource is connected to; one whose
\* connect() or hosts() raises is logged and left out (close() of the
\* paramiko communicator passes over its exceptions). The reply lists the
\* hosts of the others.
Discover ==
    /\ CanRead /\ Read
    /\ config' = fileEnable
    /\ IF ~fileValid
       THEN UNCHANGED <<resources, listed, hostList, announced, faults>>
       ELSE \E down \in SUBSET {r \in Res : fileEnable[r]} :
              LET ok == {r \in Res : fileEnable[r]} \ down IN
              /\ faults + Cardinality(down) <= MaxFaults
              /\ faults' = faults + Cardinality(down)
              /\ resources' = Res
              /\ Discovered(ok)
              /\ announced' = UNION {HostsOf(r) : r \in ok}
    /\ lastMon' = NoMon
    /\ UNCHANGED <<alive, fileEnable, fileValid, edits, published, publishes>>

\* Seeded fault: the assert on info is gone.
AssertInfo_dropped(info) == TRUE

\* assert info, "Host '%s' is not available".
AssertInfo(info) == info # NoInfo

\* Where MONITOR's loop over self._resources stops, in the order of the
\* dictionary: at a disabled resource (raise), at one whose host_list
\* attribute does not exist (AttributeError), or at the resource whose
\* host_list holds the host.
Stops(h) ==
    {r \in resources :
        \/ ~config[r]
        \/ r \notin listed /\ ~DefaultHostList
        \/ r \in listed /\ h \in hostList[r]}

\* host_properties(HOST): for a VO host, _host_vo_properties splits off the
\* cluster, makes a queue of each CE the first ldapsearch finds on it, adds
\* an empty Queue() whatever it found, and logs a second search that finds
\* no operating system. Other resources describe their one host.
Info(r, h) == [res |-> r, ces |-> IF r \in VoRes THEN {h[2]} \cap published[r] ELSE {}]

\* do_MONITOR HID HOST: the loop, then host_properties(HOST), whose remote
\* commands (connect, the two ldapsearches) may fail, and the assert.
Monitor(h) ==
    /\ CanRead /\ Read
    /\ LET Fail == lastMon' = [host |-> h, result |-> "FAILURE", info |-> Err]
       IN
       \/ /\ Stops(h) = {}
          /\ IF ~AssertInfo(NoInfo) THEN Fail
             ELSE lastMon' = [host |-> h, result |-> "SUCCESS", info |-> NoInfo]
          /\ UNCHANGED faults
       \/ \E r \in Stops(h) :
            IF ~config[r] \/ r \notin listed
            THEN Fail /\ UNCHANGED faults
            ELSE \/ lastMon' = [host |-> h, result |-> "SUCCESS", info |-> Info(r, h)]
                    /\ UNCHANGED faults
                 \/ faults < MaxFaults /\ faults' = faults + 1 /\ Fail
    /\ UNCHANGED <<alive, fileEnable, fileValid, edits, discovery, published,
                   publishes>>

\* do_FINALIZE: sys.exit(0).
Finalize ==
    /\ CanRead /\ Read /\ alive' = FALSE
    /\ UNCHANGED <<fileEnable, fileValid, edits, discovery, published,
                   publishes, lastMon, faults>>

\* The user edits the configuration file.
Edit ==
    /\ alive /\ edits < MaxEdits
    /\ edits' = edits + 1
    /\ fileEnable' \in [Res -> BOOLEAN] /\ fileValid' \in BOOLEAN
    /\ UNCHANGED <<alive, nreq, discovery, published, publishes, lastMon, faults>>

\* The BDII starts or stops publishing CEs of the VO on some clusters.
Publish ==
    /\ alive /\ publishes < MaxPublish
    /\ publishes' = publishes + 1
    /\ published' \in [VoRes -> SUBSET Clusters]
    /\ UNCHANGED <<alive, nreq, fileEnable, fileValid, edits, discovery,
                   lastMon, faults>>

\* GridWay has sent its last line, or the MAD has exited.
Idle == (~alive \/ nreq = MaxRequests) /\ UNCHANGED vars

Next ==
    \/ ReadOther \/ Discover \/ Finalize \/ Edit \/ Publish \/ Idle
    \/ \E h \in Hosts : Monitor(h)

Spec == Init /\ [][Next]_vars

----------------------------------------------------------------------------
(* Properties.                                                             *)

\* MONITOR describes only hosts the last successful DISCOVER announced:
\* GridWay is never given attributes of a host it was not told exists.
MonitorOnlyDiscovered ==
    lastMon.result = "SUCCESS" => lastMon.host \in announced

\* A host the last DISCOVER announced can be monitored: with the loaded
\* configuration unchanged and no remote failure, MONITOR of an announced
\* host succeeds.
MonitorDiscovered ==
    ~ /\ lastMon.result = "FAILURE" /\ lastMon.host \in announced
      /\ config = fileEnable /\ fileValid /\ faults = 0

============================================================================
