\* paramiko connect(): a refused key, and two threads reconnecting.
CONSTANTS
    t1 = t1
    t2 = t2
    NoThread = NoThread
    Threads = {t1, t2}
    NKeys = 2
    MaxTrans = 3
    MaxOps = 4
    MaxDrops = 1
    SftpCallers = {}
    NoScheme = NoScheme
    NoSlash = NoSlash
    NoHost = NoHost
    None = None
    Schemes = {"file", "ssh"}
    Hosts = {"h"}
    Rests = {"d", "d/w"}
    RemoteDirs = {"d", "d/s"}
    Parent <- MCParent

SPECIFICATION Spec
INVARIANT ConnectSound
