\* Every client variant, a failing signature callback, IGNORE/DEBUG, one
\* out-of-protocol packet and EOF, under every split of the client's bytes.
CONSTANTS
    MaxSegment = 3
    MaxIgnore = 1
    MaxAuth = 1
    ClientPipelines = {FALSE, TRUE}
    ClientKexInits = {"KEXINIT", "KEXINIT_DISJOINT", "KEXINIT_GUESS"}
    ClientExtInfo = {FALSE, TRUE}
    ClientServices = {"SERVICE_REQUEST", "SERVICE_OTHER"}
    SignResults = {"ok", "err"}
    RogueMsgs <- MC_RogueMsgs
    MaxRogue = 1
    ClientMayClose = TRUE
SPECIFICATION Spec
INVARIANT TypeOK
PROPERTY HandshakeRefinement
INVARIANT NoPanic
PROPERTY HandshakeSettles
