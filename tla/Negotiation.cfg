CONSTANTS
    MaxAnnouncements = 2
    MaxBreaks = 1
    MaxCandidates = 2
SPECIFICATION FairNegotiationSpec
CHECK_DEADLOCK FALSE
INVARIANTS
    NegotiationTypeOK
    NoCandidateStranded
    NoCandidateLost
    ReceiverFollowsSender
    NegotiationInv
PROPERTY NegotiationCompletes
