\* Violation: a client that sends KEXINIT right behind its ident line.
CONSTANTS
    MaxSegment = 3
    MaxIgnore = 1
    MaxAuth = 1
    ClientPipelines = {TRUE}
    ClientKexInits = {"KEXINIT"}
    ClientExtInfo = {FALSE}
    ClientServices = {"SERVICE_REQUEST"}
    SignResults = {"ok"}
    RogueMsgs = {}
    MaxRogue = 0
    ClientMayClose = FALSE
SPECIFICATION Spec
PROPERTY HandshakeCompletes
