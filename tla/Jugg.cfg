SPECIFICATION Spec
CONSTANTS
  Channels = {device, room}
  Subscribers = {s1, s2}
  MaxUnread = 3
INVARIANTS
  ChannelSound
PROPERTIES
  IsPushChannel
  InterestReachesServer
  Recovers
CHECK_DEADLOCK FALSE
