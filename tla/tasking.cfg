CONSTANTS
  MaxTasks = 3
  MaxForks = 3
  MaxDepth = 6
  Nested = TRUE
SPECIFICATION Spec
INVARIANTS TypeOK RunsOnItsOwnFrame SuspendedTasksResumable AddressSpaceAgrees QueueHasEveryTask ForkTellsParentAndChild
CHECK_DEADLOCK FALSE
