------------------------------- MODULE SshComm -------------------------------
(***************************************************************************)
(* The paramiko communicator of                                            *)
(* src/DRM4G/src/em_mad/drm4g/drm4g/communicators/ssh.py: one Communicator *)
(* object shared by several threads (the pool workers and the callback     *)
(* thread of the execution MAD all use the communicator cached for their   *)
(* resource).                                                              *)
(*                                                                         *)
(* self._lock guards connect()'s key loop, _isAuthenticated(), the opening *)
(* of a session (open_session / SFTPClient.from_transport) and close().    *)
(* The command itself, or the SFTP transfer, runs outside the lock on the  *)
(* channel opened. Each paramiko.Transport created is numbered 1, 2, ...;  *)
(* self._trans is 0 while no Transport exists.                             *)
(*                                                                         *)
(* The network is the environment: for each key connect() tries, the DNS   *)
(* lookup, the TCP connection or the authentication can fail, and an       *)
(* authenticated transport can be dropped by the server.                   *)
(*                                                                         *)
(* The SFTP operations (mkDirectory, copy, rmDirectory, checkOutLock) are  *)
(* made by the threads in SftpCallers. Each parses its URLs with urlparse  *)
(* of utils/url.py, whose results are module globals: the parsing is the  *)
(* module Url, instantiated for those threads, and its steps interleave    *)
(* with the other threads' steps. The remote side is a small tree of       *)
(* entries under the user's home; the URLs name entries by their path      *)
(* after "~/", which _setDir resolves against workDirectory (fixed for the *)
(* resource), so the model names an entry by that path.                   *)
(***************************************************************************)
EXTENDS Naturals, FiniteSets, Sequences

CONSTANTS
    Threads,   \* threads sharing the Communicator
    NKeys,     \* keys connect() tries: agent keys plus the key file
    MaxTrans,  \* bound: paramiko.Transport objects created
    MaxOps,    \* bound: operations the threads start
    MaxDrops,  \* bound: transports dropped by the server
    NoThread,  \* model value: nobody holds self._lock
    SftpCallers, \* threads that make SFTP calls
    Schemes, Hosts, Rests, NoScheme, NoSlash, NoHost, None, \* URLs, as in Url
    RemoteDirs,  \* remote entries that are directories
    Parent       \* the remote tree: each entry's parent ("~": the home)

ASSUME NKeys \in Nat \ {0} /\ {MaxTrans, MaxOps, MaxDrops} \subseteq Nat
ASSUME NoThread \notin Threads /\ SftpCallers \subseteq Threads
ASSUME RemoteDirs \subseteq DOMAIN Parent

TransIds == 1..MaxTrans
\* State of a paramiko.Transport: socket connected but not authenticated,
\* authenticated, or closed (by close() or by the server).
TransStates == {"unused", "open", "authed", "closed"}

\* mkDirectory, copy, rmDirectory and checkOutLock.
SftpOps == {"mkdir", "copy", "rmdir", "checklock"}

\* connect(), execCommand(), the SFTP operations and close().
Ops == {"connect", "exec", "close"} \cup SftpOps

\* Program counters. c_try and c_end lie inside connect()'s locked region;
\* "url" is inside the urlparse calls of an SFTP operation.
Pcs == {"idle", "check", "c_lock", "c_try", "c_end", "session", "run", "close",
        "url", "sftp"}

\* The remote entries, and the entries at or below e (reference).
Entries == DOMAIN Parent
RECURSIVE Below(_)
Below(e) == {e} \cup UNION {Below(k) : k \in {k \in Entries : Parent[k] = e}}

\* A state of the remote tree: every entry's parent is there.
Trees == {f \in SUBSET Entries : \A k \in f : Parent[k] = "~" \/ Parent[k] \in f}

\* Outcome of one iteration of connect()'s key loop.
KeyOutcomes == {"gaierror", "sockfail", "authfail", "authok"}

VARIABLES
    trans,     \* self._trans (0: none yet)
    tst,       \* state of each Transport created
    ntrans,    \* Transports created so far
    lock,      \* holder of self._lock
    pc,        \* program counter of each thread
    op,        \* operation each thread is running
    key,       \* index of the key connect() is trying
    chan,      \* transport of the channel a thread opened (0: none)
    nops,      \* operations started
    drops,     \* transports dropped by the server
    retUnauth, \* threads whose connect() returned without an authenticated transport
    fs,        \* the remote entries that exist
    parsed,    \* the URLs an SFTP call has parsed, with the path urlparse returned
    upc, uscheme, upath, uarg, uloc, ugot, ucalls  \* the module Url

url   == <<upc, uscheme, upath, uarg, uloc, ugot, ucalls>>
vars  == <<trans, tst, ntrans, lock, pc, op, key, chan, nops, drops, retUnauth,
           fs, parsed, url>>
comm  == <<trans, tst, ntrans, lock, pc, op, key, chan, nops, drops, retUnauth>>

U == INSTANCE Url WITH Threads <- SftpCallers, MaxCalls <- 2 * MaxOps,
        scheme <- uscheme, path <- upath, pc <- upc, arg <- uarg, loc <- uloc,
        got <- ugot, calls <- ucalls

\* Program counters at which a thread may hold self._lock.
LockedPcs == {"c_try", "c_end"}

TypeOK ==
    /\ trans \in 0..MaxTrans /\ ntrans \in 0..MaxTrans
    /\ tst \in [TransIds -> TransStates]
    /\ lock \in Threads \cup {NoThread}
    /\ lock # NoThread => pc[lock] \in LockedPcs
    /\ pc \in [Threads -> Pcs] /\ op \in [Threads -> Ops]
    /\ key \in [Threads -> 1..NKeys] /\ chan \in [Threads -> 0..MaxTrans]
    /\ nops \in 0..MaxOps /\ drops \in 0..MaxDrops
    /\ retUnauth \subseteq Threads
    /\ fs \in Trees
    /\ parsed \in [Threads -> Seq([url : U!URLs, path : U!PathValues \cup {None}])]
    /\ U!TypeOK

\* Communicator(): only self._lock is created; self._trans does not exist
\* until connect() assigns it.
Init ==
    /\ trans = 0 /\ tst = [n \in TransIds |-> "unused"] /\ ntrans = 0
    /\ lock = NoThread
    /\ pc = [t \in Threads |-> "idle"] /\ op = [t \in Threads |-> "connect"]
    /\ key = [t \in Threads |-> 1] /\ chan = [t \in Threads |-> 0]
    /\ nops = 0 /\ drops = 0 /\ retUnauth = {}
    /\ fs \in Trees /\ parsed = [t \in Threads |-> <<>>]
    /\ U!Init

Authed(n) == n # 0 /\ tst[n] = "authed"

\* The operation ends, normally or by an exception reaching the caller.
Finish(t) ==
    /\ pc' = [pc EXCEPT ![t] = "idle"]
    /\ chan' = [chan EXCEPT ![t] = 0]

----------------------------------------------------------------------------
(* The calls.                                                              *)

\* A caller invokes an operation on the shared Communicator.
Call(t, o) ==
    /\ pc[t] = "idle" /\ nops < MaxOps
    /\ o \in SftpOps => t \in SftpCallers
    /\ nops' = nops + 1
    /\ op' = [op EXCEPT ![t] = o]
    /\ pc' = [pc EXCEPT ![t] = CASE o = "connect" -> "c_lock"
                                 [] o = "close"   -> "close"
                                 [] OTHER         -> "check"]
    /\ UNCHANGED <<trans, tst, ntrans, lock, key, chan, drops, retUnauth>>
    /\ UNCHANGED <<fs, parsed, url>>

\* if not self._isAuthenticated(): self.connect(). _isAuthenticated reads
\* self._trans.is_authenticated() under the lock; before any connect()
\* self._trans does not exist and the AttributeError reaches the caller.
IsAuthenticated(t) ==
    /\ pc[t] = "check" /\ lock = NoThread
    /\ IF trans = 0 THEN Finish(t)
       ELSE /\ pc' = [pc EXCEPT ![t] = IF Authed(trans) THEN "session" ELSE "c_lock"]
            /\ UNCHANGED chan
    /\ UNCHANGED <<trans, tst, ntrans, lock, op, key, nops, drops, retUnauth>>
    /\ UNCHANGED <<fs, parsed, url>>

\* connect(): self._lock.acquire(); the keys are gathered.
ConnLock(t) ==
    /\ pc[t] = "c_lock" /\ lock = NoThread
    /\ lock' = t
    /\ key' = [key EXCEPT ![t] = 1]
    /\ pc' = [pc EXCEPT ![t] = "c_try"]
    /\ UNCHANGED <<trans, tst, ntrans, op, chan, nops, drops, retUnauth>>
    /\ UNCHANGED <<fs, parsed, url>>

\* Seeded fault: the raise for socket.gaierror leaves the lock held, as it
\* would without the try/finally around the key loop.
FinallyRelease_missing == UNCHANGED lock

\* finally: self._lock.release(), on the way out of the key loop by raise.
FinallyRelease == lock' = NoThread

\* for key in keys: the next key of the list (the last one stays put; the
\* loop ends there).
NextKey(t) == key' = [key EXCEPT ![t] = IF key[t] < NKeys THEN key[t] + 1 ELSE key[t]]

\* One key: socket.connect, self._trans = paramiko.Transport(sock),
\* self._trans.connect(username, pkey), and break if authenticated.
\* socket.gaierror raises ComException (the finally releases the lock);
\* every other exception is passed over and the next key is tried. The
\* Transport replaced in self._trans is not closed.
ConnTry(t) ==
    /\ pc[t] = "c_try"
    /\ \E o \in KeyOutcomes :
         /\ o \in {"authfail", "authok"} => ntrans < MaxTrans
         /\ CASE o = "gaierror" ->
                   /\ FinallyRelease /\ Finish(t)
                   /\ UNCHANGED <<trans, tst, ntrans>>
              [] o = "sockfail" ->
                   /\ pc' = [pc EXCEPT ![t] = IF key[t] = NKeys THEN "c_end" ELSE "c_try"]
                   /\ UNCHANGED <<trans, tst, ntrans, lock, chan>>
              [] o \in {"authfail", "authok"} ->
                   /\ ntrans' = ntrans + 1
                   /\ trans' = ntrans + 1
                   /\ tst' = [tst EXCEPT ![ntrans + 1] =
                                IF o = "authok" THEN "authed" ELSE "open"]
                   /\ pc' = [pc EXCEPT ![t] =
                               IF o = "authok" \/ key[t] = NKeys THEN "c_end" ELSE "c_try"]
                   /\ UNCHANGED <<lock, chan>>
         /\ NextKey(t)
    /\ UNCHANGED <<op, nops, drops, retUnauth>>
    /\ UNCHANGED <<fs, parsed, url>>

\* Seeded fault: execCommand loops on "while not self._isAuthenticated():
\* self.connect()" instead of testing once.
AfterConnect_recheck(t) == IF op[t] = "connect" THEN "idle" ELSE "check"

\* After connect() returns: back to the caller, or on to open_session in
\* execCommand.
AfterConnect(t) == IF op[t] = "connect" THEN "idle" ELSE "session"

\* finally: self._lock.release(); if not self._trans: raise ComException.
\* Otherwise connect() returns, and execCommand goes on to open a session.
ConnEnd(t) ==
    /\ pc[t] = "c_end"
    /\ lock' = NoThread
    /\ IF trans = 0
       THEN /\ Finish(t) /\ UNCHANGED retUnauth
       ELSE /\ pc' = [pc EXCEPT ![t] = AfterConnect(t)]
            /\ retUnauth' = IF Authed(trans) THEN retUnauth ELSE retUnauth \cup {t}
            /\ UNCHANGED chan
    /\ UNCHANGED <<trans, tst, ntrans, op, key, nops, drops>>
    /\ UNCHANGED <<fs, parsed, url>>

\* channel = self._trans.open_session(), or for an SFTP operation sftp =
\* paramiko.SFTPClient.from_transport(self._trans), under the lock;
\* paramiko raises on a Transport that is not authenticated or is closed.
OpenSession(t) ==
    /\ pc[t] = "session" /\ lock = NoThread
    /\ IF Authed(trans)
       THEN /\ chan' = [chan EXCEPT ![t] = trans]
            /\ pc' = [pc EXCEPT ![t] = IF op[t] = "exec" THEN "run" ELSE "url"]
       ELSE Finish(t)
    /\ UNCHANGED <<trans, tst, ntrans, lock, op, key, nops, drops, retUnauth>>
    /\ UNCHANGED <<fs, parsed, url>>

\* channel.exec_command and reading stdout and stderr, outside the lock;
\* it fails if the channel's Transport was closed meanwhile.
ExecRun(t) ==
    /\ pc[t] = "run"
    /\ Finish(t)
    /\ UNCHANGED <<trans, tst, ntrans, lock, op, key, nops, drops, retUnauth>>
    /\ UNCHANGED <<fs, parsed, url>>

\* The URLs of an SFTP call: a remote (ssh) URL, and for copy one local
\* (file) and one remote URL in either order. 'file://' in source_url
\* selects sftp.put, otherwise sftp.get.
RemoteUrls == {u \in U!URLs : u.scheme = "ssh" /\ U!WellFormed(u)}
LocalUrls  == {u \in U!URLs : u.scheme = "file" /\ U!WellFormed(u)}
IsPut(t)   == parsed[t][1].url.scheme = "file"
NUrls(o)   == IF o = "copy" THEN 2 ELSE 1
ArgUrls(t) ==
    CASE op[t] # "copy"      -> RemoteUrls
      [] parsed[t] = <<>>    -> RemoteUrls \cup LocalUrls
      [] IsPut(t)            -> RemoteUrls
      [] OTHER               -> LocalUrls

\* urlparse(url).path for the next URL of the call, as the module Url.
UrlStart(t) ==
    /\ pc[t] = "url" /\ upc[t] = "idle" /\ Len(parsed[t]) < NUrls(op[t])
    /\ \E u \in ArgUrls(t) : U!ParseScheme(t, u)
    /\ UNCHANGED <<comm, fs, parsed>>

UrlSlash(t) ==
    /\ pc[t] = "url" /\ U!ParseSlash(t)
    /\ UNCHANGED <<comm, fs, parsed>>

UrlReturn(t) ==
    /\ pc[t] = "url" /\ U!Return(t)
    /\ parsed' = [parsed EXCEPT ![t] = Append(@, [url |-> uarg[t], path |-> upath])]
    /\ UNCHANGED <<comm, fs>>

\* The remote path of the call (_setDir of it names the entry).
Remote(t) == IF op[t] = "copy" /\ IsPut(t) THEN parsed[t][2] ELSE parsed[t][1]
Entry(p)  == p.rest

ParentThere(e, f) == Parent[e] = "~" \/ Parent[e] \in f

\* Seeded fault: directories inside the directory are not descended into.
RmdirRecursive_flat(e, f) ==
    LET kids == {k \in f : Parent[k] = e} IN
    IF kids \cap RemoteDirs = {} THEN kids \cup {e} ELSE kids \ RemoteDirs

\* _rmdirRecursive(path, sftp): every entry sftp.listdir(path) lists is
\* removed with sftp.remove, which raises IOError for a directory, and the
\* directory is then removed recursively; last, sftp.rmdir(path). The
\* entries removed.
RECURSIVE RmdirRecursive(_, _)
RmdirRecursive(e, f) ==
    LET kids == {k \in f : Parent[k] = e} IN
    {e} \cup UNION {IF k \in RemoteDirs THEN RmdirRecursive(k, f) ELSE {k} : k \in kids}

\* The SFTP call itself, on the session opened, then sftp.close(). It raises
\* (IOError, or paramiko's error on a Transport closed meanwhile) and skips
\* the close when the remote entry does not allow it:
\*  - mkDirectory: sftp.mkdir(to_dir), the entry must be new, its parent there;
\*  - copy: sftp.put(from_dir, to_dir) to a file whose directory exists, or
\*    sftp.get, which changes nothing remote;
\*  - rmDirectory: sftp.listdir(to_dir), IOError passed over (no such
\*    directory), else _rmdirRecursive;
\*  - checkOutLock: opens to_dir/.lock and returns whether it could.
SftpCall(t) ==
    LET e == Entry(Remote(t).path) IN
    /\ pc[t] = "url" /\ upc[t] = "idle" /\ Len(parsed[t]) = NUrls(op[t])
    /\ fs' = IF ~Authed(chan[t]) THEN fs
           ELSE CASE op[t] = "mkdir" ->
                       IF e \notin fs /\ ParentThere(e, fs) THEN fs \cup {e} ELSE fs
                  [] op[t] = "copy" /\ IsPut(t) ->
                       IF e \notin RemoteDirs /\ ParentThere(e, fs) THEN fs \cup {e} ELSE fs
                  [] op[t] = "rmdir" ->
                       IF e \in fs \cap RemoteDirs THEN fs \ RmdirRecursive(e, fs) ELSE fs
                  [] OTHER -> fs
    /\ Finish(t)
    /\ parsed' = [parsed EXCEPT ![t] = <<>>]
    /\ UNCHANGED <<trans, tst, ntrans, lock, op, key, nops, drops, retUnauth, url>>

\* close(): self._trans.close() under the lock, any exception passed over.
\* self._trans keeps referring to the closed Transport.
Close(t) ==
    /\ pc[t] = "close" /\ lock = NoThread
    /\ tst' = IF trans # 0 THEN [tst EXCEPT ![trans] = "closed"] ELSE tst
    /\ Finish(t)
    /\ UNCHANGED <<trans, ntrans, lock, op, key, nops, drops, retUnauth>>
    /\ UNCHANGED <<fs, parsed, url>>

\* The server or the network drops an authenticated connection.
Drop ==
    /\ drops < MaxDrops
    /\ \E n \in TransIds : /\ tst[n] = "authed"
                           /\ tst' = [tst EXCEPT ![n] = "closed"]
    /\ drops' = drops + 1
    /\ UNCHANGED <<trans, ntrans, lock, pc, op, key, chan, nops, retUnauth>>
    /\ UNCHANGED <<fs, parsed, url>>

\* Every caller has made its last call.
Done ==
    /\ nops = MaxOps /\ \A t \in Threads : pc[t] = "idle"
    /\ UNCHANGED vars

Step(t) ==
    \/ IsAuthenticated(t) \/ ConnLock(t) \/ ConnTry(t) \/ ConnEnd(t)
    \/ OpenSession(t) \/ ExecRun(t) \/ Close(t)
    \/ UrlStart(t) \/ UrlSlash(t) \/ UrlReturn(t) \/ SftpCall(t)

Next ==
    \/ \E t \in Threads, o \in Ops : Call(t, o)
    \/ \E t \in Threads : Step(t)
    \/ Drop \/ Done

\* Each thread runs once it can; callers and the network need not act.
Fairness == \A t \in Threads : WF_vars(Step(t))

Spec     == Init /\ [][Next]_vars
FairSpec == Spec /\ Fairness

----------------------------------------------------------------------------
(* Properties.                                                             *)

\* Every call on the Communicator returns or raises: no path through
\* connect(), _isAuthenticated(), open_session or close() leaves self._lock
\* held or a thread waiting for it forever.
OpsComplete == \A t \in Threads : pc[t] # "idle" ~> pc[t] = "idle"

\* rmDirectory(url) of a directory, over a session that stays up, removes
\* that directory and everything below it: urlparse gives the directory
\* the URL names, and _rmdirRecursive descends into every subdirectory
\* before sftp.rmdir.
RmDirectoryRemovesTree ==
    [][\A t \in SftpCallers :
         (/\ pc[t] = "url" /\ pc'[t] = "idle" /\ op[t] = "rmdir"
          /\ Authed(chan[t]) /\ Entry(U!RefPath(parsed[t][1].url)) \in RemoteDirs)
         => Below(Entry(U!RefPath(parsed[t][1].url))) \cap fs' = {}]_vars

\* The path urlparse returns to an SFTP call is its URL's own path: the
\* parsing threads' calls do not overlap (the execution MAD copies files
\* only from its intake thread).
UrlPathsRight == U!WellFormedParsed

\* connect() establishes one authenticated session (spec 4.4: connect is
\* idempotent, and failure to authenticate raises): it never returns
\* normally with self._trans unauthenticated, and every Transport other than
\* self._trans is closed.
ConnectSound ==
    /\ retUnauth = {}
    /\ \A n \in TransIds : n # trans => tst[n] \in {"unused", "closed"}

============================================================================
