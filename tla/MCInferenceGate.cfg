\* Four tasks, capacities 1 to 3, every cancellation, a fair event loop.
SPECIFICATION FairSpec
CONSTANTS
  t1 = t1
  t2 = t2
  t3 = t3
  t4 = t4
  Task <- FourTasks
  CapacityValue <- Capacities
INVARIANTS
  PlacesAccounted
  QueueIsTheWaiters
  NoLostWakeup
PROPERTIES
  ImplementsAdmission
  EveryWaiterIsServed
