CONSTANTS
  Files <- SomeFiles
  Participants = {"web", "field"}
  MaxTopics = 2
SPECIFICATION FairSpec
INVARIANTS
  TypeOK
  AcceptedStarts
  WritersAsConfigured
  OneReaderPerTopic
PROPERTIES
  TopicsRead
  Stops
CHECK_DEADLOCK FALSE
