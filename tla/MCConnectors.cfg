\* Two items posted, two starts, one retry: failures in the middle of a
\* poll, in a save or a load, trims of one alert out of two.
CONSTANTS
  Kinds <- MCKinds
  ItemsOf <- MCItemsOf
  RawConfigs <- MCRawConfigs
  MaxRetries = 1
  SeenCap = 1
  SeenKeep = 1
  MaxPosts = 2
  MaxLives = 2
  Topics <- MCTopics
  MaxMessages = 2
SPECIFICATION SpecAll
INVARIANTS TypeOK NoRepeatInALife SkippedOnlyBehind LostOnlyWithConnection
PROPERTIES RepeatMeansUnsaved CheckpointAdvances Rejoins CancelledReturns
CHECK_DEADLOCK FALSE
