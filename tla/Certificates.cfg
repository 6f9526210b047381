SPECIFICATION Spec
CONSTANTS
    Requests = {1, 2}
    Certs = {1, 2, 3}
    LetsEncrypt = {1, 3}
    Hosts = {"proxy", "stream"}
    ModelOf <- MCModelOf
    MaxVersion = 2
    Scenes <- MCScenes
INVARIANTS
    LiveHasFiles
    InUseIsKept
PROPERTIES
    NginxCatchesUp
    ExpiryCatchesUp
CHECK_DEADLOCK FALSE
