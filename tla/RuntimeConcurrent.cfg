SPECIFICATION FairSpec
CONSTANTS
  work = work
  review = review
  audit = audit
  gate = gate
  extra = extra
  check = check
  NoTask = NoTask
  NoProposal = NoProposal
  Task <- Tasks
  TaskType <- Types
  AssignedAgent <- Agent
  Producer <- Producers
  Finals <- FinalTasks
  Runner = {r1, r2}
  InitialOrder <- ShortOrder
  InitialDeps <- ShortDeps
  MaxAttempts <- Once
  MaxTaskReplans = 1
  MaxRunReplans = 1
  MaxTotalTasks = 3
  MaxTotalSteps = 3
  MaxSteps = 2
  Executors = {{"empirical-agent"}}
  Outcomes = {"PASS"}
  FollowUps <- NoProposals
  Replacements <- NoProposals
  MaxCheckpoints = 1
  MayInterrupt = TRUE
INVARIANT GatesNeedApproval
PROPERTIES RunReturns NoStartWhilePaused TerminalIsFinal
