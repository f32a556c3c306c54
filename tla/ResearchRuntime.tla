--------------------------- MODULE ResearchRuntime ---------------------------
(***************************************************************************)
(* research_os/runtime.py: the persistent Research Director loop and the   *)
(* operations of the command line that act on the same run.                *)
(*                                                                         *)
(* The canonical state lives in a StateBackend.  Every operation loads it, *)
(* changes its copy and saves it back naming the version it loaded; a save *)
(* is refused (StateConflictError) when the version has moved on.  So one  *)
(* operation with one save is one atomic step, and the run loop, which     *)
(* saves many times, is one step per save.  Its copy of the state equals   *)
(* the canonical one as long as no one else has saved: the set fresh holds *)
(* the runners for which that is so.  A runner that is not fresh can still *)
(* compute, but its next save ends it.                                     *)
(*                                                                         *)
(* Left out: fields only read by people or reports (active_task,           *)
(* current_stage, errors, tool_runs, memory, the observation text), and    *)
(* artifacts, whose verification succeeds or fails.                        *)
(***************************************************************************)
EXTENDS Planner

CONSTANTS
  Runner,          \* processes that may be inside run()
  NoProposal,      \* an observation without follow-up or replacement tasks
  InitialOrder,    \* task_graph of a new run
  InitialDeps,
  MaxAttempts,     \* task id -> retry_policy.max_attempts
  MaxTaskReplans,  \* max_strategy_replans of every task
  MaxRunReplans,   \* runtime_control.max_strategy_replans
  MaxTotalSteps,   \* runtime_control.max_total_steps
  MaxSteps,        \* run(max_steps)
  Executors,       \* choices of a run: the agents its process can execute
  Outcomes,        \* outcomes agents and tools produce in this instance
  FollowUps,       \* next_tasks that agents may propose with PASS
  Replacements,    \* tasks that agents may propose with FAIL_STRATEGY
  MayInterrupt,    \* whether runs may be paused, stopped or recovered
  MaxCheckpoints   \* bound on the checkpoints a recovery can choose from

AllOutcomes == {"PASS", "FAIL_TRANSIENT", "FAIL_STRATEGY", "BLOCKED"}

ASSUME RuntimeAssumption ==
  /\ InitialOrder \in Seq(Task)
  /\ InitialDeps \in [Task -> SUBSET Task]
  /\ ValidateDag([order |-> InitialOrder, deps |-> InitialDeps]) = "valid"
  /\ MaxAttempts \in [Task -> Nat \ {0}]
  /\ MaxTaskReplans \in Nat /\ MaxRunReplans \in Nat
  /\ MaxTotalSteps \in Nat /\ MaxSteps \in Nat \ {0}
  /\ Executors \subseteq SUBSET Agents
  /\ Outcomes \subseteq AllOutcomes
  /\ FollowUps \subseteq Proposal /\ Replacements \subseteq Proposal
  /\ NoProposal \notin FollowUps \union Replacements
  /\ MayInterrupt \in BOOLEAN /\ MaxCheckpoints \in Nat

VARIABLES
  order, deps,      \* task_graph: the list of ids, their dependencies
  status,           \* task id -> status, "absent" while not in the graph
  attempts,         \* task id -> attempts
  replans,          \* task id -> strategy_replans
  completed,        \* completed_tasks
  blocked,          \* blocked_tasks
  lifecycle,        \* lifecycle_status
  pending,          \* task id -> number of its actions with status pending
  approvals,        \* task id -> number of its approved decisions
  awaiting,         \* task id -> number of its packets awaiting-observation
  totalSteps,       \* runtime_control.total_steps
  strategyReplans,  \* runtime_control.strategy_replans
  checkpoints,      \* the saved states a recovery would still find readable
  fresh,            \* runners whose loaded version is still the canonical one
  run               \* runner -> where it is in run()

planVars == <<order, deps, replans, strategyReplans>>
state == <<order, deps, status, attempts, replans, completed, blocked, lifecycle,
           pending, approvals, awaiting, totalSteps, strategyReplans>>
vars == <<state, checkpoints, fresh, run>>

(* What a checkpoint keeps of a save: the whole canonical state. *)
Snapshot ==
  [order |-> order, deps |-> deps, status |-> status, attempts |-> attempts,
   replans |-> replans, completed |-> completed, blocked |-> blocked,
   lifecycle |-> lifecycle, pending |-> pending, approvals |-> approvals,
   awaiting |-> awaiting, totalSteps |-> totalSteps,
   strategyReplans |-> strategyReplans]

Statuses == {"absent", "pending", "running", "waiting-agent", "waiting-human",
             "complete", "superseded", "blocked"}
Terminal == {"complete", "superseded"}
Lifecycles == {"initialized", "running", "paused", "waiting-human", "waiting-agent",
               "blocked", "complete", "recovering"}

(* pc "resumed": loaded again after resume(); "loop": at the head of the   *)
(* loop; "started": task.started is saved; "agent" and "again": inside     *)
(* executor.execute and executor.resume.                                   *)
Places == {"idle", "resumed", "loop", "started", "agent", "again"}

Idle == [pc |-> "idle", task |-> NoTask, left |-> 0, unsaved |-> 0,
         saved |-> FALSE, executors |-> {}]

(* initialize: the default graph, everything pending, nothing decided. *)
Init ==
  /\ order = InitialOrder
  /\ deps = InitialDeps
  /\ status = [t \in Task |-> IF t \in Ids(InitialOrder) THEN "pending" ELSE "absent"]
  /\ attempts = [t \in Task |-> 0]
  /\ replans = [t \in Task |-> 0]
  /\ completed = {}
  /\ blocked = {}
  /\ lifecycle = "initialized"
  /\ pending = [t \in Task |-> 0]
  /\ approvals = [t \in Task |-> 0]
  /\ awaiting = [t \in Task |-> 0]
  /\ totalSteps = 0
  /\ strategyReplans = 0
  /\ checkpoints \in {c \in SUBSET {Snapshot} : Cardinality(c) <= MaxCheckpoints}
  /\ fresh = {}
  /\ run = [r \in Runner |-> Idle]

-----------------------------------------------------------------------------
(* What the operations have in common.                                     *)
At(r, pc) == run[r].pc = pc

(* Mutant: saves do not name the version they were computed from. *)
MutUnchecked(r) == TRUE

(* store.save(expected_version=...) will accept the state of r. *)
Fresh(r) == r \in fresh

(* run() sets lifecycle_status to "running" in memory as it starts; until  *)
(* its first save only r knows.                                            *)
Life(r) == IF run[r].saved THEN lifecycle ELSE "running"

(* Every save writes a checkpoint of its state.  Files can be damaged or   *)
(* lost later; which ones a recovery will find readable is chosen here.    *)
Checkpoint ==
  checkpoints' \in {c \in SUBSET (checkpoints \union {Snapshot'}) :
                      Cardinality(c) <= MaxCheckpoints}

(* A save by r, after which r is at the given place and everybody else's   *)
(* version is old.                                                         *)
SaveAndGo(r, place) ==
  /\ Fresh(r)
  /\ run' = [run EXCEPT ![r] = place]
  /\ fresh' = IF place = Idle THEN {} ELSE {r}
  /\ Checkpoint

InLoop(r) == [run[r] EXCEPT !.pc = "loop", !.task = NoTask, !.unsaved = 0, !.saved = TRUE]

(* A save by an operation of the command line. *)
SaveByCommand == fresh' = {} /\ Checkpoint

(* _ready *)
Ready(t) == status[t] = "pending" /\ deps[t] \subseteq completed

(* The first of some tasks in list order: ready[0], waiting[0]. *)
IsFirst(t, tasks) ==
  /\ t \in tasks
  /\ \E i \in DOMAIN order : order[i] = t /\ \A j \in 1 .. (i - 1) : order[j] \notin tasks

ReadyTasks == {t \in Ids(order) : Ready(t)}

(* The waiting tasks whose agent the process of r can execute. *)
Resumable(r) ==
  {t \in Ids(order) : status[t] = "waiting-agent" /\ AssignedAgent[t] \in run[r].executors}

-----------------------------------------------------------------------------
(* The ways a task leaves an attempt.                                      *)

(* Mutant: completed_tasks is not updated. *)
MutUnlistedCompletion(t) ==
  status' = [status EXCEPT ![t] = "complete"] /\ UNCHANGED completed

(* _complete *)
Complete(t) ==
  /\ status' = [status EXCEPT ![t] = "complete"]
  /\ completed' = completed \union {t}

(* Mutant: one attempt too many. *)
MutRetryLeft(t) == attempts[t] <= MaxAttempts[t]

RetryLeft(t) == attempts[t] < MaxAttempts[t]

(* The task and with it the run are blocked. *)
Block(t) ==
  /\ status' = [status EXCEPT ![t] = "blocked"]
  /\ lifecycle' = "blocked"
  /\ blocked' = blocked \union {t}

(* _fail: another attempt, or the task is blocked. *)
Fail(t, life) ==
  /\ \/ /\ RetryLeft(t)
        /\ status' = [status EXCEPT ![t] = "pending"]
        /\ lifecycle' = life
        /\ UNCHANGED blocked
     \/ ~RetryLeft(t) /\ Block(t)
  /\ UNCHANGED <<completed, pending>>

(* _handoff: a pending human action for the task. *)
Handoff(t) ==
  /\ status' = [status EXCEPT ![t] = "waiting-human"]
  /\ pending' = [pending EXCEPT ![t] = @ + 1]
  /\ lifecycle' = "waiting-human"
  /\ UNCHANGED <<completed, blocked>>

TaskGraph == [order |-> order, deps |-> deps]

(* The graph after merge(): the added tasks are pending. *)
MergedStatus(p) ==
  [u \in Task |-> IF u \in Ids(p.order) THEN "pending" ELSE status[u]]

Merge(p) ==
  /\ order' = Extended(TaskGraph, p).order
  /\ deps' = Extended(TaskGraph, p).deps

(* Mutant: an observed packet keeps awaiting its observation. *)
MutPacketStays(t) == UNCHANGED awaiting

(* The next observed packet of the task gets the outcome. *)
ResolvePacket(t) ==
  awaiting' = [awaiting EXCEPT ![t] = IF @ > 0 THEN @ - 1 ELSE 0]

(* _apply_observation, outcomes PASS and GOAL_COMPLETE with verified       *)
(* outputs.  When follow-up tasks are merged, merge() replaces the graph   *)
(* by a copy: _complete then marks the task dictionary of the old graph,   *)
(* and what is saved has the task in completed_tasks with the status it    *)
(* had before.  A refused proposal fails the attempt.                      *)
ObservePass(t, p, life) ==
  \/ /\ p = NoProposal
     /\ Complete(t)
     /\ lifecycle' = life
     /\ UNCHANGED <<planVars, blocked, pending>>
  \/ /\ p # NoProposal
     /\ MergeResult(TaskGraph, p) = "merged"
     /\ Merge(p)
     /\ status' = MergedStatus(p)
     /\ completed' = completed \union {t}
     /\ lifecycle' = life
     /\ UNCHANGED <<replans, strategyReplans, blocked, pending>>
  \/ /\ p # NoProposal
     /\ MergeResult(TaskGraph, p) \in {"rejected", "KeyError"}
     /\ Fail(t, life)
     /\ UNCHANGED planVars

(* Mutant: the budgets are compared before they are counted. *)
MutReplanBudget(t) == replans[t] <= MaxTaskReplans /\ strategyReplans <= MaxRunReplans

ReplanBudgetLeft(t) ==
  replans[t] + 1 <= MaxTaskReplans /\ strategyReplans + 1 <= MaxRunReplans

(* _replan: the task is superseded by the merged tasks, or handed off when *)
(* the budget is spent or the proposal is missing or refused.              *)
Replan(t, p, life) ==
  /\ replans' = [replans EXCEPT ![t] = @ + 1]
  /\ strategyReplans' = strategyReplans + 1
  /\ \/ /\ ReplanBudgetLeft(t)
        /\ p # NoProposal
        /\ MergeResult(TaskGraph, p) = "merged"
        /\ Merge(p)
        /\ status' = [MergedStatus(p) EXCEPT ![t] = "superseded"]
        /\ completed' = completed \union {t}
        /\ lifecycle' = life
        /\ UNCHANGED <<blocked, pending>>
     \/ /\ \/ ~ReplanBudgetLeft(t)
           \/ p = NoProposal
           \/ p # NoProposal /\ MergeResult(TaskGraph, p) = "rejected"
        /\ Handoff(t)
        /\ UNCHANGED <<order, deps>>

(* _apply_observation.  FAIL_TRANSIENT stands also for a PASS whose        *)
(* outputs do not verify, BLOCKED also for HIGH_RISK_DECISION.             *)
ApplyObservation(t, outcome, p, life) ==
  \/ outcome = "PASS" /\ ObservePass(t, p, life)
  \/ outcome = "BLOCKED" /\ Handoff(t) /\ UNCHANGED planVars
  \/ outcome = "FAIL_STRATEGY" /\ Replan(t, p, life)
  \/ outcome = "FAIL_TRANSIENT" /\ Fail(t, life) /\ UNCHANGED planVars

(* Exceptions nobody handles: the KeyError of an unknown producer in       *)
(* _replan, and a merged graph that _save refuses.  Nothing is saved.      *)
ObservationEscapes(t, outcome, p) ==
  /\ p # NoProposal
  /\ \/ outcome = "PASS" /\ MergeResult(TaskGraph, p) = "unsavable"
     \/ /\ outcome = "FAIL_STRATEGY"
        /\ ReplanBudgetLeft(t)
        /\ MergeResult(TaskGraph, p) \in {"KeyError", "unsavable"}

ProposalsWith(outcome) ==
  {NoProposal} \union CASE outcome = "PASS" -> FollowUps
                        [] outcome = "FAIL_STRATEGY" -> Replacements
                        [] OTHER -> {}

-----------------------------------------------------------------------------
(* run()                                                                   *)

(* run() loads the state and enters the loop unless the run is paused. *)
StartRun(r) ==
  /\ At(r, "idle") \/ At(r, "resumed")
  /\ lifecycle # "paused"
  /\ \E agents \in Executors :
       run' = [run EXCEPT ![r] = [Idle EXCEPT !.pc = "loop", !.left = MaxSteps,
                                              !.executors = agents]]
  /\ fresh' = fresh \union {r}
  /\ UNCHANGED <<state, checkpoints>>

(* ... or it returns at once: paused again between the save of resume()    *)
(* and the load of run().                                                  *)
ReturnPaused(r) ==
  /\ At(r, "resumed")
  /\ lifecycle = "paused"
  /\ run' = [run EXCEPT ![r] = Idle]
  /\ UNCHANGED <<state, checkpoints, fresh>>

(* max_steps iterations are over: run.yielded. *)
Yield(r) ==
  /\ At(r, "loop")
  /\ run[r].left = 0
  /\ lifecycle' = Life(r)
  /\ UNCHANGED <<planVars, status, attempts, completed, blocked, pending, approvals,
                 awaiting, totalSteps>>
  /\ SaveAndGo(r, Idle)

(* _block_run: max_total_steps exhausted. *)
ExhaustSteps(r) ==
  /\ At(r, "loop")
  /\ run[r].left > 0
  /\ totalSteps >= MaxTotalSteps
  /\ lifecycle' = "blocked"
  /\ UNCHANGED <<planVars, status, attempts, completed, blocked, pending, approvals,
                 awaiting, totalSteps>>
  /\ SaveAndGo(r, Idle)

(* An iteration of the loop may begin. *)
Iterates(r) == At(r, "loop") /\ run[r].left > 0 /\ totalSteps < MaxTotalSteps

(* task.started for ready[0]. *)
StartTask(r) ==
  /\ Iterates(r)
  /\ \E t \in Ids(order) :
       /\ IsFirst(t, ReadyTasks)
       /\ status' = [status EXCEPT ![t] = "running"]
       /\ attempts' = [attempts EXCEPT ![t] = @ + 1]
       /\ totalSteps' = totalSteps + 1
       /\ lifecycle' = Life(r)
       /\ UNCHANGED <<planVars, completed, blocked, pending, approvals, awaiting>>
       /\ SaveAndGo(r, [run[r] EXCEPT !.pc = "started", !.task = t, !.left = @ - 1,
                                      !.saved = TRUE])

(* Nothing is ready, but an agent this process can execute is waiting: its *)
(* persisted packet is resumed.  Nothing is saved yet.                     *)
ResumeAgent(r) ==
  /\ Iterates(r) /\ Fresh(r) /\ ReadyTasks = {}
  /\ \E t \in Ids(order) :
       /\ IsFirst(t, Resumable(r))
       /\ awaiting[t] > 0
       /\ run' = [run EXCEPT ![r].pc = "again", ![r].task = t, ![r].left = @ - 1,
                             ![r].unsaved = 1]
  /\ UNCHANGED <<state, checkpoints, fresh>>

(* The same, but no packet of the waiting task awaits an observation. *)
FailMissingPacket(r) ==
  /\ Iterates(r) /\ ReadyTasks = {}
  /\ \E t \in Ids(order) :
       /\ IsFirst(t, Resumable(r))
       /\ awaiting[t] = 0
       /\ Fail(t, Life(r))
  /\ totalSteps' = totalSteps + 1
  /\ UNCHANGED <<planVars, attempts, approvals, awaiting>>
  /\ SaveAndGo(r, [InLoop(r) EXCEPT !.left = @ - 1])

Unfinished == {t \in Ids(order) : status[t] \notin Terminal}
FinalAudits == {t \in Ids(order) : TaskType[t] = "final_audit"}
AuditPassed == FinalAudits # {} /\ \A t \in FinalAudits : status[t] = "complete"

(* Mutant: a passed audit is taken for the goal. *)
MutStopStatus == IF AuditPassed THEN "complete" ELSE "waiting-human"

StopStatus ==
  LET statuses == {status[t] : t \in Unfinished}
  IN CASE Unfinished = {} /\ AuditPassed -> "complete"
       [] Unfinished = {} /\ ~AuditPassed -> "blocked"
       [] "waiting-human" \in statuses -> "waiting-human"
       [] "waiting-agent" \in statuses /\ "waiting-human" \notin statuses -> "waiting-agent"
       [] OTHER -> "blocked"

(* Nothing to do: the run stops with a lifecycle that says why. *)
StopRun(r) ==
  /\ Iterates(r) /\ ReadyTasks = {} /\ Resumable(r) = {}
  /\ lifecycle' = StopStatus
  /\ totalSteps' = totalSteps + 1
  /\ UNCHANGED <<planVars, status, attempts, completed, blocked, pending, approvals, awaiting>>
  /\ SaveAndGo(r, Idle)

(* A human gate that was started is handed to a person. *)
OpenGate(r) ==
  /\ At(r, "started")
  /\ TaskType[run[r].task] = "human_gate"
  /\ Handoff(run[r].task)
  /\ UNCHANGED <<planVars, attempts, approvals, awaiting, totalSteps>>
  /\ SaveAndGo(r, Idle)

(* agent.delegated: the packet is persisted, then executed if this process *)
(* has an executor.                                                        *)
Delegate(r) ==
  LET t == run[r].task
  IN /\ At(r, "started")
     /\ TaskType[t] \in {"agent", "verifier"}
     /\ status' = [status EXCEPT ![t] = "waiting-agent"]
     /\ awaiting' = [awaiting EXCEPT ![t] = @ + 1]
     /\ lifecycle' = Life(r)
     /\ UNCHANGED <<planVars, attempts, completed, blocked, pending, approvals, totalSteps>>
     /\ SaveAndGo(r, IF AssignedAgent[t] \in run[r].executors
                       THEN [run[r] EXCEPT !.pc = "agent"] ELSE Idle)

(* Mutant: human gates fall through to the tools. *)
MutIsTool(t) == TaskType[t] \notin {"agent", "verifier"}

IsTool(t) == TaskType[t] \in {"tool", "final_audit"}
ToolOutcomes == Outcomes \ {"FAIL_STRATEGY"}

(* tools.execute returned: its observation is applied and the loop goes on *)
(* whatever became of the task.                                            *)
ToolReturns(r) ==
  /\ At(r, "started")
  /\ IsTool(run[r].task)
  /\ \E outcome \in ToolOutcomes :
       ApplyObservation(run[r].task, outcome, NoProposal, Life(r))
  /\ UNCHANGED <<attempts, approvals, awaiting, totalSteps>>
  /\ SaveAndGo(r, InLoop(r))

(* An attempt ends with an exception: PermissionError is handed off and    *)
(* ends the run, anything else fails the attempt and ends the run only if  *)
(* that blocks the task.                                                   *)
Raised(r) ==
  LET t == run[r].task
  IN \/ /\ "BLOCKED" \in Outcomes
        /\ Handoff(t)
        /\ SaveAndGo(r, Idle)
     \/ /\ "FAIL_TRANSIENT" \in Outcomes
        /\ Fail(t, Life(r))
        /\ SaveAndGo(r, IF RetryLeft(t) THEN InLoop(r) ELSE Idle)

ToolRaises(r) ==
  /\ At(r, "started")
  /\ IsTool(run[r].task)
  /\ UNCHANGED <<planVars, attempts, approvals, awaiting, totalSteps>>
  /\ Raised(r)

InAgent(r) == At(r, "agent") \/ At(r, "again")

(* agent.tool.completed: a tool call of the agent is recorded with a save  *)
(* of everything in memory.  (When that save conflicts the executor hands  *)
(* the exception to the agent as a failed call and nothing happens here.)  *)
AgentCallsTool(r) ==
  /\ InAgent(r)
  /\ lifecycle' = Life(r)
  /\ totalSteps' = totalSteps + run[r].unsaved
  /\ UNCHANGED <<planVars, status, attempts, completed, blocked, pending, approvals, awaiting>>
  /\ SaveAndGo(r, [run[r] EXCEPT !.unsaved = 0, !.saved = TRUE])

(* The executor returns an observation.  After execute() the run ends when *)
(* the task is blocked or waits for a person, after resume() it goes on.   *)
AgentReturns(r) ==
  LET t == run[r].task
  IN /\ InAgent(r)
     /\ \E outcome \in Outcomes : \E p \in ProposalsWith(outcome) :
          ApplyObservation(t, outcome, p, Life(r))
     /\ ResolvePacket(t)
     /\ totalSteps' = totalSteps + run[r].unsaved
     /\ UNCHANGED <<attempts, approvals>>
     /\ SaveAndGo(r, IF At(r, "agent") /\ status'[t] \in {"blocked", "waiting-human"}
                       THEN Idle ELSE InLoop(r))

AgentRaises(r) ==
  /\ InAgent(r)
  /\ ResolvePacket(run[r].task)
  /\ totalSteps' = totalSteps + run[r].unsaved
  /\ UNCHANGED <<planVars, attempts, approvals>>
  /\ Raised(r)

(* An exception leaves run() before anything is saved. *)
EscapeRun(r) ==
  /\ InAgent(r)
  /\ \E outcome \in Outcomes : \E p \in ProposalsWith(outcome) :
       ObservationEscapes(run[r].task, outcome, p)
  /\ Fresh(r)
  /\ run' = [run EXCEPT ![r] = Idle]
  /\ fresh' = fresh \ {r}
  /\ UNCHANGED <<state, checkpoints>>

(* Mutant: the conflict is swallowed while an agent runs. *)
MutSwallowConflict(r) ==
  /\ run[r].pc \in {"loop", "started"}
  /\ ~Fresh(r)
  /\ run' = [run EXCEPT ![r] = Idle]
  /\ UNCHANGED <<state, checkpoints, fresh>>

(* StateConflictError: somebody else has saved since r loaded or saved.    *)
(* Whatever r computes on its old copy, its next save is refused and run() *)
(* ends.                                                                   *)
Conflict(r) ==
  /\ run[r].pc \notin {"idle", "resumed"}
  /\ ~Fresh(r)
  /\ run' = [run EXCEPT ![r] = Idle]
  /\ UNCHANGED <<state, checkpoints, fresh>>

(* The process is stopped. *)
Crash(r) ==
  /\ MayInterrupt
  /\ ~At(r, "idle")
  /\ run' = [run EXCEPT ![r] = Idle]
  /\ fresh' = fresh \ {r}
  /\ UNCHANGED <<state, checkpoints>>

-----------------------------------------------------------------------------
(* The other operations of the command line.                               *)

Pause ==
  /\ MayInterrupt
  /\ lifecycle' = "paused"
  /\ UNCHANGED <<planVars, status, attempts, completed, blocked, pending, approvals,
                 awaiting, totalSteps, run>>
  /\ SaveByCommand

(* resume(): the lifecycle is saved, then run() is called. *)
Resume(r) ==
  /\ At(r, "idle")
  /\ lifecycle # "complete"
  /\ lifecycle' = "running"
  /\ run' = [run EXCEPT ![r].pc = "resumed"]
  /\ UNCHANGED <<planVars, status, attempts, completed, blocked, pending, approvals,
                 awaiting, totalSteps>>
  /\ SaveByCommand

(* reconstruct(): "recovering" when artifacts are missing or checkpoints   *)
(* are damaged.                                                            *)
Reconstruct ==
  /\ MayInterrupt
  /\ lifecycle' \in {lifecycle, "recovering"}
  /\ UNCHANGED <<planVars, status, attempts, completed, blocked, pending, approvals,
                 awaiting, totalSteps, run>>
  /\ SaveByCommand

(* The canonical state becomes that of a checkpoint. *)
Restore(c) ==
  /\ order' = c.order /\ deps' = c.deps /\ status' = c.status
  /\ attempts' = c.attempts /\ replans' = c.replans
  /\ completed' = c.completed /\ blocked' = c.blocked /\ lifecycle' = c.lifecycle
  /\ pending' = c.pending /\ approvals' = c.approvals /\ awaiting' = c.awaiting
  /\ totalSteps' = c.totalSteps /\ strategyReplans' = c.strategyReplans

(* recover_latest() tries the newest checkpoint first and goes on to an    *)
(* older one after any exception: a damaged file, a conflict with another  *)
(* save, a busy database.  So any of them may become the canonical state,  *)
(* under a new version.  (None left raises an error and changes nothing.)  *)
Recover ==
  /\ MayInterrupt
  /\ \E c \in checkpoints : Restore(c)
  /\ UNCHANGED run
  /\ SaveByCommand

(* Mutant: the action stays pending. *)
MutStaysPending(t) == pending[t] > 0 /\ UNCHANGED pending

(* decide() finds an action of t that is still pending and resolves it. *)
Decide(t) ==
  /\ pending[t] > 0
  /\ pending' = [pending EXCEPT ![t] = @ - 1]

(* The decision is to approve ... *)
Approve(t) ==
  /\ Decide(t)
  /\ approvals' = [approvals EXCEPT ![t] = @ + 1]
  /\ IF TaskType[t] = "human_gate"
       THEN Complete(t)
       ELSE status' = [status EXCEPT ![t] = "pending"] /\ UNCHANGED completed
  /\ UNCHANGED <<planVars, attempts, blocked, lifecycle, awaiting, totalSteps,
                 run>>
  /\ SaveByCommand

(* ... or to reject. *)
Reject(t) ==
  /\ Decide(t)
  /\ Block(t)
  /\ UNCHANGED <<planVars, attempts, completed, approvals, awaiting, totalSteps,
                 run>>
  /\ SaveByCommand

(* observe_agent(): a person delivers the observation of a waiting agent. *)
ObserveAgent(t) ==
  /\ status[t] = "waiting-agent"
  /\ \E outcome \in Outcomes : \E p \in ProposalsWith(outcome) :
       ApplyObservation(t, outcome, p, lifecycle)
  /\ ResolvePacket(t)
  /\ UNCHANGED <<attempts, approvals, totalSteps, run>>
  /\ SaveByCommand

-----------------------------------------------------------------------------
RunStep(r) ==
  \/ Yield(r) \/ ExhaustSteps(r) \/ StartTask(r)
  \/ ResumeAgent(r) \/ FailMissingPacket(r) \/ StopRun(r)
  \/ OpenGate(r) \/ Delegate(r) \/ ToolReturns(r) \/ ToolRaises(r)
  \/ AgentReturns(r) \/ AgentRaises(r) \/ EscapeRun(r)
  \/ Conflict(r) \/ ReturnPaused(r)

Next ==
  \/ \E r \in Runner :
       \/ StartRun(r) \/ RunStep(r) \/ AgentCallsTool(r) \/ Crash(r) \/ Resume(r)
  \/ \E t \in Task : Approve(t) \/ Reject(t) \/ ObserveAgent(t)
  \/ Pause \/ Reconstruct \/ Recover

Spec == Init /\ [][Next]_vars

(* A call of run() keeps running, and resume() goes on to its run(),       *)
(* unless the process is stopped.  Each step changes what it has to do.     *)
KeepsRunning(r) == RunStep(r) \/ (At(r, "resumed") /\ StartRun(r))

FairSpec == Spec /\ \A r \in Runner : WF_run(KeepsRunning(r))

(* Besides, somebody keeps starting runs, and a person approves what is    *)
(* pending.                                                                *)
AttendedSpec ==
  /\ FairSpec
  /\ \A r \in Runner : WF_vars(StartRun(r))
  /\ \A t \in Task : WF_vars(Approve(t))

-----------------------------------------------------------------------------
Place == [pc : Places, task : Task \union {NoTask}, left : Nat, unsaved : {0, 1},
          saved : BOOLEAN, executors : SUBSET Agents]

SavedState ==
  [order : Seq(Task), deps : [Task -> SUBSET Task], status : [Task -> Statuses],
   attempts : [Task -> Nat], replans : [Task -> Nat], completed : SUBSET Task,
   blocked : SUBSET Task, lifecycle : Lifecycles, pending : [Task -> Nat],
   approvals : [Task -> Nat], awaiting : [Task -> Nat], totalSteps : Nat,
   strategyReplans : Nat]

TypeOK ==
  /\ Snapshot \in SavedState
  /\ checkpoints \subseteq SavedState
  /\ fresh \in SUBSET Runner
  /\ run \in [Runner -> Place]

(* A task waits for a person exactly when one action of it is pending, and *)
(* never has two: a decision always finds the task it was asked about      *)
(* still waiting for it, whatever other runners and commands did since.    *)
OneActionPerWait ==
  \A t \in Task : pending[t] = IF status[t] = "waiting-human" THEN 1 ELSE 0

(* A packet awaits its observation only while its task waits for an agent, *)
(* and a task never has two: an answer is never applied to a later attempt *)
(* of the same task.                                                       *)
OnePacketPerWait ==
  \A t \in Task :
    /\ awaiting[t] <= 1
    /\ awaiting[t] = 1 => status[t] = "waiting-agent"

(* blocked_tasks lists the blocked tasks and no others. *)
BlockedListed == blocked = {t \in Task : status[t] = "blocked"}

(* A task is attempted at most max_attempts times, plus once for every     *)
(* time a person approved its going on (decide re-queues the task without  *)
(* resetting its attempts).                                                *)
AttemptsBounded ==
  \A t \in Task : attempts[t] <= MaxAttempts[t] + approvals[t]

(* No more tasks are superseded than the strategy-replan budget of the run *)
(* allows, and the run counts every replan of its tasks.                   *)
ReplansBounded ==
  /\ Cardinality({t \in Task : status[t] = "superseded"}) <= MaxRunReplans
  /\ \A t \in Task : replans[t] <= strategyReplans

(* No human gate is passed without an approval, whatever is paused,        *)
(* resumed, crashed or run twice.                                          *)
GatesNeedApproval ==
  \A t \in completed : TaskType[t] = "human_gate" => approvals[t] > 0

(* The graph never reaches a dead end: while a task is unfinished, some    *)
(* task is ready, under way, waiting or blocked.  Merged tasks, superseded *)
(* tasks and approvals all keep it so.                                     *)
NoDeadEnd ==
  Unfinished # {} => ReadyTasks # {} \/ \E t \in Unfinished : status[t] # "pending"

(* A run is complete only with every task complete or superseded and every *)
(* final audit passed, and nothing makes it untrue afterwards.             *)
CompleteMeansDone == lifecycle = "complete" => Unfinished = {} /\ AuditPassed

(* The final gate opens only after the audit passed and every other task   *)
(* of the graph was passed or superseded, the tasks that a review asked    *)
(* for included: nothing is released around a review.  (Agents that pass   *)
(* with follow-up tasks break it: see PassedIsComplete.)                   *)
ReleaseNeedsReview ==
  \A t \in Finals : TaskType[t] = "human_gate" /\ attempts[t] > 0 =>
    \A u \in Ids(order) \ {t} : status[u] \in Terminal

(* No task starts while the run is paused, by a runner that was already in *)
(* its loop either: the pause makes its next save conflict.  (A recovery   *)
(* starts nothing, but an older state may bring back other counts.)        *)
NoStartWhilePaused ==
  [][lifecycle = "paused" /\ attempts' # attempts => Recover]_vars

(* A task that is complete or superseded stays that: no runner, resumed    *)
(* agent or late observation with an older state takes it back.  Only a    *)
(* recovery does, when it falls back to a checkpoint from before.          *)
TerminalIsFinal ==
  [][(\E t \in Task : status[t] \in Terminal /\ status'[t] # status[t]) => Recover]_vars

(* run() returns: the loop is bounded, and a conflict ends it.             *)
RunReturns == \A r \in Runner : ~At(r, "idle") ~> At(r, "idle")

(* docs/agent-runtime-v0.10.md: "`PASS -> next ready task`".  A task in    *)
(* completed_tasks is complete.                                            *)
PassedIsComplete == \A t \in completed : status[t] \in Terminal

(* docs/agent-runtime-v0.10.md: "`resume` continues the same run".  A run  *)
(* that is attended takes up every task it had started.                    *)
StartedIsTakenUp == \A t \in Task : status[t] = "running" ~> status[t] # "running"
=============================================================================
