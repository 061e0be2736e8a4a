\* Violation: an unknown CHANNEL_REQUEST without want_reply is answered
\* with CHANNEL_FAILURE.
CONSTANTS
    UINT_MAX = 7
    ChannelIdMax = 1
    RefillThreshold = 2
    DefaultWindow = 3
    DefaultMaxPacket = 2
    PeerChannels = {5}
    PeerWindows = {1}
    PeerMaxPackets = {2}
    AdjustDeltas = {1}
    PeerDataLens = {}
    HostDataLens = {1}
    e1 = e1
    e2 = e2
    none = none
    ExtCodes <- MC_ExtCodes
    NoExt <- none
    HostRequestKinds = {"shell"}
    PeerRequestKinds = {"shell", "unknown"}
    PeerUnsupported = {}
    IsServer = TRUE
    MaxHostBytes = 1
    MaxSteps = 6
SPECIFICATION Spec
INVARIANT RepliesAnswerWantReply
