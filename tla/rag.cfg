SPECIFICATION FairSpec
CONSTANTS
    Images = {"a", "b"}
    Lists <- MCLists
    MaxEvents = 2
PROPERTIES StreamsFollowRAG NoImageFight ContentReachesPods
CHECK_DEADLOCK FALSE
