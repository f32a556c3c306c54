SPECIFICATION Spec
CONSTANTS
  Empirical = FALSE
  Task <- GraphIds
  TaskType <- DefaultType
  AssignedAgent <- DefaultAgent
  Producer <- Producers
  Finals <- FinalTasks
  NoTask = NoTask
  NoProposal = NoProposal
  Runner = {r1}
  InitialOrder <- Order
  InitialDeps <- Deps
  MaxAttempts <- Twice
  MaxTaskReplans = 2
  MaxRunReplans = 1
  MaxTotalTasks = 10
  MaxTotalSteps = 12
  MaxSteps = 20
  Executors <- SomeExecutors
  Outcomes = {"PASS", "FAIL_STRATEGY"}
  FollowUps <- Nothing
  Replacements <- Feedback
  MaxCheckpoints = 0
  MayInterrupt = FALSE
INVARIANT ReleaseNeedsReview
