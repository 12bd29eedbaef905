CONSTANTS
    MaxAnnouncements = 2
    MaxBreaks = 1
    MaxCandidates = 1
SPECIFICATION FairNegotiationSpec
CHECK_DEADLOCK FALSE
PROPERTY JoinedPeerIsOffered
