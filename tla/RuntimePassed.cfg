SPECIFICATION Spec
CONSTANTS
  work = work
  review = review
  audit = audit
  gate = gate
  extra = extra
  check = check
  NoTask = NoTask
  NoProposal = NoProposal
  Task <- Tasks
  TaskType <- Types
  AssignedAgent <- Agent
  Producer <- Producers
  Finals <- FinalTasks
  Runner = {r1}
  InitialOrder <- Order
  InitialDeps <- Deps
  MaxAttempts <- Twice
  MaxTaskReplans = 1
  MaxRunReplans = 1
  MaxTotalTasks = 5
  MaxTotalSteps = 6
  MaxSteps = 2
  Executors <- SomeExecutors
  Outcomes = {"PASS"}
  FollowUps <- OneProposal
  Replacements <- NoProposals
  MaxCheckpoints = 0
  MayInterrupt = FALSE
INVARIANT PassedIsComplete
