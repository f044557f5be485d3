SPECIFICATION MessagesSpec
CONSTANTS
  MaxMessages = 2
  SeenMax = 1
  MaxQueued = 2
  MaxFetches = 2
INVARIANTS FetchOwnsStruct MarkSound AllShown
CHECK_DEADLOCK FALSE
