\* Six frames of one or two buffers go around rings of three and four buffers;
\* with four, poll() stops after two frames.
SPECIFICATION Spec
CONSTANTS
    Slots = 3
    MaxFragments = 2
    MaxFrames = 6
    ReceiveSlots = 4
    MaxParts = 2
    MaxArrivals = 6
    MaxSpill = 1
INVARIANTS
    TransmitTypeOK
    FramesSentAsWritten
    ReceiveTypeOK
    FramesReceivedAsStored
PROPERTIES
    TransmitContract
    NeverCutOff
    FollowedFrameIsSent
    ReceiveContract
    StoredIsDelivered
    ReceiverRecovers
