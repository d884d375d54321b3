--------------------------------- MODULE Url ---------------------------------
(***************************************************************************)
(* urlparse() of src/drm4g/utils/url.py. The parsed fields are module      *)
(* globals (scheme, netloc, path, params, query, fragment): a field the    *)
(* URL does not contain keeps the value of the previous call, and all      *)
(* callers in one process share them. The callers are the communicators'   *)
(* copy, mkDirectory and rmDirectory, which read only .path: in the        *)
(* execution MAD the intake thread (SUBMIT), in the transfer MAD           *)
(* (gw_tm_mad_drm4g) the threads of its pool, one per transfer request.   *)
(*                                                                         *)
(* A URL is abstracted to its scheme (or none), the text between "://" and *)
(* the first "/" (Host) and the text after that "/" (Rest, or NoSlash when *)
(* there is no "/"). The value of path is a pair: the host part the parse  *)
(* kept in front (NoHost when it cut it off) and the rest. The statements *)
(* that only touch fragment, query and params are left out: no caller     *)
(* reads them.                                                             *)
(***************************************************************************)
EXTENDS Naturals

CONSTANTS
    Threads,   \* threads calling urlparse
    Schemes,   \* scheme words as written in URLs, in any case
    Hosts,     \* texts before the first "/"
    Rests,     \* texts after the first "/"
    NoScheme,  \* model value: the URL has no "://"
    NoSlash,   \* model value: the URL has no "/" after the scheme
    NoHost,    \* model value: path does not start with the host part
    None,      \* model value: Python's None, the globals' initial value
    MaxCalls   \* bound: calls per thread

ASSUME "file" \in Schemes /\ MaxCalls \in Nat

URLs == [scheme : Schemes \cup {NoScheme}, host : Hosts, rest : Rests \cup {NoSlash}]
PathValues == [pre : Hosts \cup {NoHost}, rest : Rests \cup {NoSlash}]
NoUrl == [scheme |-> NoScheme, host |-> None, rest |-> None]

\* Seeded fault: the scheme is stored as written.
Lower_asWritten(s) == s

\* _scheme.lower(): the only upper-case scheme the model writes is "FILE".
Lower(s) == IF s = "FILE" THEN "file" ELSE s

\* What a URL's path is: for file:// (in any case) the whole text after
\* "://", for other schemes the text after the first "/"; a URL with no "/"
\* has no path.
RefPath(u) ==
    IF u.rest = NoSlash THEN [pre |-> NoHost, rest |-> NoSlash]
    ELSE IF u.scheme \in {"file", "FILE"} THEN [pre |-> u.host, rest |-> u.rest]
    ELSE [pre |-> NoHost, rest |-> u.rest]

\* The URLs the communicators build: a scheme and a path.
WellFormed(u) == u.scheme # NoScheme /\ u.rest # NoSlash

VARIABLES
    scheme,  \* global scheme
    path,    \* global path
    pc,      \* "idle", "slash" (after line 36) or "ret" (after line 46)
    arg,     \* the URL the thread's current or last call parses
    loc,     \* the thread's local variable url (scheme stripped)
    got,     \* .path of the ParseResult the thread's last call returned
    calls    \* calls each thread made

vars == <<scheme, path, pc, arg, loc, got, calls>>

TypeOK ==
    /\ scheme \in {s \in Schemes : s # "FILE"} \cup {None}  \* stored lower case
    /\ path \in PathValues \cup {None}
    /\ pc \in [Threads -> {"idle", "slash", "ret"}]
    /\ arg \in [Threads -> URLs \cup {NoUrl}]
    /\ loc \in [Threads -> [host : Hosts, rest : Rests \cup {NoSlash}] \cup {NoUrl}]
    /\ got \in [Threads -> PathValues \cup {None}]
    /\ calls \in [Threads -> 0..MaxCalls]

\* The module is imported: scheme = netloc = path = None.
Init ==
    /\ scheme = None /\ path = None
    /\ pc = [t \in Threads |-> "idle"]
    /\ arg = [t \in Threads |-> NoUrl]
    /\ loc = [t \in Threads |-> NoUrl]
    /\ got = [t \in Threads |-> None]
    /\ calls = [t \in Threads |-> 0]

\* Lines 34-36: if '://' in url: split it off and store scheme.lower().
ParseScheme(t, u) ==
    /\ pc[t] = "idle" /\ calls[t] < MaxCalls
    /\ calls' = [calls EXCEPT ![t] = @ + 1]
    /\ arg' = [arg EXCEPT ![t] = u]
    /\ loc' = [loc EXCEPT ![t] = [host |-> u.host, rest |-> u.rest]]
    /\ scheme' = IF u.scheme # NoScheme THEN Lower(u.scheme) ELSE scheme
    /\ pc' = [pc EXCEPT ![t] = "slash"]
    /\ UNCHANGED <<path, got>>

\* Seeded fault: the path is split off after the first "/" whatever the
\* scheme, as for a remote URL.
ParseSlash_splitAlways(t) ==
    LET u == loc[t] IN
    /\ pc[t] = "slash"
    /\ path' = IF u.rest = NoSlash THEN path ELSE [pre |-> NoHost, rest |-> u.rest]
    /\ pc' = [pc EXCEPT ![t] = "ret"]
    /\ UNCHANGED <<scheme, arg, loc, got, calls>>

\* Lines 42-46: if '/' in url: for the (global) scheme 'file' path is the
\* whole url, otherwise url, path = url.split('/', 1). Without a "/" the
\* global path is left as it was.
ParseSlash(t) ==
    LET u == loc[t] IN
    /\ pc[t] = "slash"
    /\ path' = IF u.rest = NoSlash THEN path
               ELSE IF scheme = "file" THEN [pre |-> u.host, rest |-> u.rest]
               ELSE [pre |-> NoHost, rest |-> u.rest]
    /\ pc' = [pc EXCEPT ![t] = "ret"]
    /\ UNCHANGED <<scheme, arg, loc, got, calls>>

\* Lines 47-48: netloc = url; return ParseResult(scheme, netloc, path, ...)
\* built from the globals; the caller takes .path.
Return(t) ==
    /\ pc[t] = "ret"
    /\ got' = [got EXCEPT ![t] = path]
    /\ pc' = [pc EXCEPT ![t] = "idle"]
    /\ UNCHANGED <<scheme, path, arg, loc, calls>>

\* Every caller has made its calls.
Done ==
    /\ \A t \in Threads : pc[t] = "idle" /\ calls[t] = MaxCalls
    /\ UNCHANGED vars

Next ==
    \/ \E t \in Threads, u \in URLs : ParseScheme(t, u)
    \/ \E t \in Threads : ParseSlash(t) \/ Return(t)
    \/ Done

Spec == Init /\ [][Next]_vars

----------------------------------------------------------------------------
(* Properties.                                                             *)

\* The path urlparse returns for a URL with a scheme and a "/" is that
\* URL's own path, whatever was parsed before it or meanwhile.
WellFormedParsed ==
    \A t \in Threads :
        (pc[t] = "idle" /\ arg[t] \in URLs /\ WellFormed(arg[t]))
            => got[t] = RefPath(arg[t])

============================================================================
