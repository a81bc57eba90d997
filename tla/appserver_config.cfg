SPECIFICATION FairSpec
CONSTANTS
    Cases <- MCCases
    Specs <- MCSpecs
    Clusters <- MCClusters
    MaxEvents <- MCMaxEvents
INVARIANTS TypeOK AcceptedWhenDistinct
PROPERTIES AgreesInTheEnd FollowsCR SettlesUnlessSeveral
CHECK_DEADLOCK FALSE
