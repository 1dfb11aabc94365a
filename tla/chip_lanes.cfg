SPECIFICATION Spec
CONSTANTS
  Endpoints <- TwoEndpoints
  Batches <- RoomAndOne
  Targets <- RoomSubscription
  Submitters = {s1}
  Subscribers = {u1}
  Reporters = {r1}
  Free = Free
  Capacity = 2
  MaxCommands = 2
  MaxSubscriptions = 1
  MaxTime = 2
INVARIANTS
  TypeOK
  BudgetExact
  OneLanePerEndpoint
  AnsweredOnce
  NoLostAdmission
  EvidenceWins
