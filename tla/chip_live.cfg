SPECIFICATION FairSpec
CONSTANTS
  Endpoints <- TwoEndpoints
  Batches <- RoomAndOne
  Targets <- RoomSubscription
  Submitters = {s1}
  Subscribers = {u1}
  Reporters = {}
  Free = Free
  Capacity = 2
  MaxCommands = 2
  MaxSubscriptions = 1
  MaxTime = 2
PROPERTIES
  Answered
  Subscribed
