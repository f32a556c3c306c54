SPECIFICATION Spec
CONSTANTS
  work = work
  review = review
  audit = audit
  gate = gate
  extra = extra
  check = check
  NoTask = NoTask
  NoProposal = NoProposal
  Task <- Tasks
  TaskType <- Types
  AssignedAgent <- Agent
  Producer <- Producers
  Finals <- FinalTasks
  Runner = {r1}
  InitialOrder <- ShortOrder
  InitialDeps <- ShortDeps
  MaxAttempts <- Twice
  MaxTaskReplans = 1
  MaxRunReplans = 1
  MaxTotalTasks = 5
  MaxTotalSteps = 5
  MaxSteps = 2
  Executors <- SomeExecutors
  Outcomes = {"PASS", "FAIL_TRANSIENT", "FAIL_STRATEGY", "BLOCKED"}
  FollowUps <- OneProposal
  Replacements <- AnyReplacement
  MaxCheckpoints = 0
  MayInterrupt = FALSE
INVARIANTS OneActionPerWait OnePacketPerWait AttemptsBounded ReplansBounded CompleteMeansDone NoDeadEnd
