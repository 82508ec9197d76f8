SPECIFICATION FairSpec
CONSTANTS
    Ids = {1, 2, 3}
    Sends <- AllSends
    FreeText = FALSE
    MaxCrashes = 1
    None = None
INVARIANTS TypeOK NotifiedCommitted CommittedClaimTrue DeliveredOnce CandidatesFit
PROPERTIES SendEnds
CHECK_DEADLOCK FALSE
