CONSTANTS
  MaxTasks = 3
  MaxForks = 2
  MaxDepth = 5
  Nested = FALSE
SPECIFICATION FairSpec
PROPERTIES EveryTaskRuns ChildrenReturn
