CONSTANTS
    None = None
    Reports <- MCReports
    Saved <- MCSaved
SPECIFICATION Spec
CHECK_DEADLOCK FALSE
INVARIANTS
    PassKeepsRanking
    ListingIsOrdered
    OpenStandsAlone
    ListingIsFaithful
