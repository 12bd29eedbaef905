CONSTANTS
    MaxAnnouncements = 2
    MaxBreaks = 0
    MaxCandidates = 1
SPECIFICATION FairNegotiationSpec
CHECK_DEADLOCK FALSE
INVARIANT AnnouncedPairMatches
