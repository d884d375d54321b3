\* Two threads share one paramiko Communicator, one of them also making the
\* SFTP calls: every call completes, and the SFTP calls act on their URLs.
CONSTANTS
    t1 = t1
    t2 = t2
    NoThread = NoThread
    Threads = {t1, t2}
    NKeys = 2
    MaxTrans = 3
    MaxOps = 3
    MaxDrops = 1
    SftpCallers = {t1}
    NoScheme = NoScheme
    NoSlash = NoSlash
    NoHost = NoHost
    None = None
    Schemes = {"file", "ssh"}
    Hosts = {"h"}
    Rests = {"d", "d/w"}
    RemoteDirs = {"d", "d/s"}
    Parent <- MCParent

SPECIFICATION FairSpec
INVARIANT TypeOK
INVARIANT UrlPathsRight
PROPERTY OpsComplete
PROPERTY RmDirectoryRemovesTree
