SPECIFICATION FairSpec
CONSTANTS
    Cases = {"certificates"}
    Specs <- MCSpecs
    Clusters <- MCClusters
    MaxEvents <- MCMaxEvents
PROPERTIES Settles
CHECK_DEADLOCK FALSE
