\* Three peer packets, each a message above or a packet_length of 0 or 3
\* (a zero-length packet is whole as soon as its length is read), read
\* 1 to 9 bytes at a time; channel numbers 0 and 1 (the second OPEN
\* overflows the counter); the host makes up to two operations.
CONSTANTS
    NumPackets = 3
    PeerMsgs <- MC_PeerMsgs
    RawLens = {0, 3}
    MaxRead = 9
    ChannelIdMax = 1
    MaxHostOps = 2
SPECIFICATION Spec
INVARIANTS
    FramesExactly
    PacketEncodingFollowsRfc
    CloseOncePerChannel
    UpdatesFollowLifecycle
