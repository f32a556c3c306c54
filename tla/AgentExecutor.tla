---------------------------- MODULE AgentExecutor ----------------------------
(***************************************************************************)
(* research_os/executor.py and _run_agent_tool of runtime.py: a process    *)
(* drives an agent through bounded rounds of tool calls and returns its    *)
(* observation.  Each call goes to the registry and is then saved in the   *)
(* canonical state (tool_runs).  Failures of a call are answers to the     *)
(* agent; a permission error leaves the execution at once; whatever the    *)
(* agent does ends after MaxRounds rounds.  The observation returned lists *)
(* the artifacts the agent declares itself and, after them, those of its   *)
(* calls.                                                                  *)
(*                                                                         *)
(* fresh: the processes whose loaded version of the run is current, as in  *)
(* ResearchRuntime.  A process that is not can still run tools, but not    *)
(* save them.                                                              *)
(***************************************************************************)
EXTENDS ToolRegistry

CONSTANTS
  MaxRounds,  \* max_tool_rounds of execute and resume (8)
  MaxBatch,   \* bound on the tool requests of one observation
  Declared    \* what the agents may declare: sets of artifacts, made or not

ASSUME ExecutorAssumption == MaxRounds \in Nat \ {0} /\ MaxBatch \in Nat \ {0}
ASSUME DeclaredAssumption == Declared \subseteq SUBSET Artifact

VARIABLES
  exec,      \* caller -> its execution: place, rounds made, requests left, artifacts
  answer,    \* caller -> the observation last returned: what the agent declared
             \*   itself, and the artifacts listed
  toolRuns,  \* tool_runs of the canonical state, as artifacts
  fresh      \* callers whose copy of the canonical state is current

execVars == <<exec, answer, toolRuns, fresh>>
vars == <<registryVars, execVars>>

Idle == [at |-> "idle", rounds |-> 0, left |-> 0, artifacts |-> {}]

(* The artifacts of a last observation: declared ones first, then those of *)
(* the calls it does not list yet.                                         *)
Observation(declared, collected) ==
  [declared |-> declared, artifacts |-> declared \union collected]
NoAnswer == Observation({}, {})

Init ==
  /\ RegistryInit
  /\ exec = [c \in Caller |-> Idle]
  /\ answer = [c \in Caller |-> NoAnswer]
  /\ toolRuns = {}
  /\ fresh = {}

-----------------------------------------------------------------------------
(* run() reaches execute after it saved the delegation, which makes every  *)
(* other copy old, or resume directly after it loaded the state.           *)
Start(c) ==
  /\ exec[c].at = "idle"
  /\ exec' = [exec EXCEPT ![c] = [Idle EXCEPT !.at = "agent"]]
  /\ answer' = [answer EXCEPT ![c] = NoAnswer]
  /\ fresh' \in {{c}, fresh \union {c}}
  /\ UNCHANGED <<registryVars, toolRuns>>

End(c, observation) ==
  /\ exec' = [exec EXCEPT ![c] = Idle]
  /\ answer' = [answer EXCEPT ![c] = observation]

RoundLeft(c) == exec[c].rounds < MaxRounds

(* The requests left to all executions and the threads so far: the bound   *)
(* on threads is kept where an agent may also answer without requests.     *)
Planned ==
  LET left[S \in SUBSET Caller] ==
        IF S = {} THEN 0
        ELSE LET c == CHOOSE d \in S : TRUE IN exec[c].left + left[S \ {c}]
  IN Len(threads) + left[Caller]

(* The agent answers with tool requests.  What such an observation         *)
(* declares is dropped: the next one takes its place.                      *)
AgentRequests(c, n) ==
  /\ exec[c].at = "agent"
  /\ RoundLeft(c)
  /\ Planned + n <= MaxThreads
  /\ exec' = [exec EXCEPT ![c].at = "tools", ![c].left = n]
  /\ UNCHANGED <<registryVars, answer, toolRuns, fresh>>

(* The agent answers without requests: its observation gets the artifacts  *)
(* of all calls of this execution.  What it declares itself is taken as it *)
(* is, also a file nobody wrote.                                           *)
AgentAnswers(c) ==
  /\ exec[c].at = "agent"
  /\ \E declared \in Declared : End(c, Observation(declared, exec[c].artifacts))
  /\ UNCHANGED <<registryVars, toolRuns, fresh>>

(* The adapter fails, its answer is not a valid observation, or it asks    *)
(* for tools after the last round: the exception is the runtime's.         *)
AgentFails(c) ==
  /\ exec[c].at = "agent"
  /\ End(c, NoAnswer)
  /\ UNCHANGED <<registryVars, toolRuns, fresh>>

(* A tool outside the assignment, an output outside the scope of the       *)
(* agent, a missing approval (PermissionError), or arguments that are not  *)
(* an object: the execution ends, with what was done before it.            *)
DenyRequest(c) ==
  /\ exec[c].at = "tools"
  /\ In(c, "out")
  /\ End(c, NoAnswer)
  /\ UNCHANGED <<registryVars, toolRuns, fresh>>

RunTool(c, q) ==
  /\ exec[c].at = "tools"
  /\ Enter(c, q)
  /\ UNCHANGED execVars

(* The call has an answer for the agent: the next request, or the next     *)
(* round.                                                                  *)
NextRequest(c, artifacts) ==
  exec' = [exec EXCEPT
    ![c].at = IF exec[c].left = 1 THEN "agent" ELSE "tools",
    ![c].left = @ - 1,
    ![c].rounds = IF exec[c].left = 1 THEN @ + 1 ELSE @,
    ![c].artifacts = @ \union artifacts]

(* An unknown or unavailable tool, or inputs its schema refuses: a failed  *)
(* result.                                                                 *)
RefuseRequest(c) ==
  /\ exec[c].at = "tools"
  /\ In(c, "out")
  /\ NextRequest(c, {})
  /\ UNCHANGED <<registryVars, answer, toolRuns, fresh>>

(* Any exception of the registry but PermissionError: a failed result. *)
ToolFailed(c) ==
  /\ In(c, "error")
  /\ NextRequest(c, {})
  /\ call' = [call EXCEPT ![c] = NoCall]
  /\ UNCHANGED <<diskVars, ledger, threads, historyVars, answer, toolRuns, fresh>>

SaveToolRun(c) ==
  /\ In(c, "complete")
  /\ c \in fresh
  /\ toolRuns' = toolRuns \union {call[c].artifact}
  /\ fresh' = {c}
  /\ NextRequest(c, {call[c].artifact})
  /\ call' = [call EXCEPT ![c] = NoCall]
  /\ UNCHANGED <<diskVars, ledger, threads, historyVars, answer>>

(* Mutant: a result that could not be saved is handed on as it is. *)
MutSaveConflict(c) ==
  /\ In(c, "complete")
  /\ c \notin fresh
  /\ NextRequest(c, {call[c].artifact})
  /\ call' = [call EXCEPT ![c] = NoCall]
  /\ UNCHANGED <<diskVars, ledger, threads, historyVars, answer, toolRuns, fresh>>

(* StateConflictError: the tool has run, but the agent is told it failed.  *)
SaveConflict(c) ==
  /\ In(c, "complete")
  /\ c \notin fresh
  /\ NextRequest(c, {})
  /\ call' = [call EXCEPT ![c] = NoCall]
  /\ UNCHANGED <<diskVars, ledger, threads, historyVars, answer, toolRuns, fresh>>

Crash(c) ==
  /\ exec[c].at # "idle"
  /\ StopProcess(c)
  /\ End(c, NoAnswer)
  /\ UNCHANGED <<toolRuns, fresh>>

-----------------------------------------------------------------------------
Agent(c) ==
  \/ \E n \in 1 .. MaxBatch : AgentRequests(c, n)
  \/ AgentAnswers(c) \/ AgentFails(c)

Executor(c) ==
  \/ DenyRequest(c) \/ RefuseRequest(c) \/ (\E q \in Request : RunTool(c, q))
  \/ ToolFailed(c) \/ SaveToolRun(c) \/ SaveConflict(c)
  \/ ExecuteStep(c) /\ UNCHANGED execVars

Threads == (\E i \in DOMAIN threads : ToolStep(i)) /\ UNCHANGED execVars

Next ==
  \/ \E c \in Caller : Start(c) \/ Agent(c) \/ Executor(c) \/ Crash(c)
  \/ Threads

Spec == Init /\ [][Next]_vars

(* Agents answer (the adapters bound each answer by a timeout) and the     *)
(* executor executes its next statement.  Tool threads may hang.           *)
FairSpec == Spec /\ \A c \in Caller : WF_vars(Agent(c) \/ Executor(c))

-----------------------------------------------------------------------------
(* What an agent's observation lists and the agent did not declare itself  *)
(* was saved in tool_runs and, as long as no two calls on one key or path  *)
(* overlapped, is in the ledger and on disk as it was reported, whatever   *)
(* failed, conflicted, or was retried on the way (executor.py:38-39, 69,   *)
(* 74-77, runtime.py:150-155).  Of what an agent declares itself nothing   *)
(* is promised here: _verify_outputs (runtime.py:410-425) compares it with *)
(* the disk, and ResearchRuntime has a PASS that does not verify among the *)
(* failures of an agent.                                                   *)
AnswerIsBacked ==
  \A c \in Caller :
    \A a \in exec[c].artifacts \union (answer[c].artifacts \ answer[c].declared) :
      /\ a \in toolRuns
      /\ ~raced => /\ files[a.path] = a.content
                   /\ \E k \in Key : ledger[k] # None /\ ledger[k].artifact = a

(* Each execution ends, by an answer or an exception, whatever the agent   *)
(* asks for, also when its tools hang (executor.py:34, 79, tools.py:82-85).*)
ExecutionEnds == \A c \in Caller : exec[c].at # "idle" ~> exec[c].at = "idle"
=============================================================================
