------------------------------- MODULE Planner -------------------------------
(***************************************************************************)
(* research_os/planner.py and research_os/planning.py: which task graphs   *)
(* are legal and how a proposal extends one.                               *)
(*                                                                         *)
(* A graph is an order of task ids (the list task_graph) and the           *)
(* dependencies of each id.  What a task is (type, agent, retry limit,     *)
(* producer it verifies) goes with its id and is a constant here.  Of the  *)
(* checks of BoundedPlanner.validate_proposal that concern one task alone  *)
(* (approved agent, known and authorised tools, human approval for         *)
(* high-risk tools) only their result is kept: the field authorised of a   *)
(* proposal.  Its field savable says whether the resulting tasks satisfy   *)
(* schemas/research-state.schema.json, which is stricter than the proposal *)
(* schema: max_attempts up to 10, unique dependencies, ids of at most 96   *)
(* characters.                                                             *)
(***************************************************************************)
EXTENDS Naturals, Sequences, FiniteSets

CONSTANTS
  Task,           \* every task id that can occur
  NoTask,         \* absence of a task id
  TaskType,       \* task id -> task_type
  AssignedAgent,  \* task id -> assigned_agent
  Producer,       \* task id -> required_inputs.producer_task_id or NoTask
  Finals,         \* the ids "final-audit" and "final-gate"
  MaxTotalTasks   \* runtime_control.max_total_tasks

TaskTypes == {"agent", "tool", "human_gate", "verifier", "final_audit"}
Agents == {"research-director", "literature-agent", "empirical-agent",
           "writing-agent", "reviewer-verifier-agent"}

ASSUME TaskAssumption ==
  /\ NoTask \notin Task
  /\ TaskType \in [Task -> TaskTypes]
  /\ AssignedAgent \in [Task -> Agents]
  /\ Producer \in [Task -> Task \union {NoTask}]
  /\ Finals \subseteq Task
  /\ MaxTotalTasks \in Nat

Graph == [order : Seq(Task), deps : [Task -> SUBSET Task]]
Proposal == [order : Seq(Task), deps : [Task -> SUBSET Task],
             authorised : BOOLEAN, savable : BOOLEAN]

Ids(order) == {order[i] : i \in DOMAIN order}

-----------------------------------------------------------------------------
(* validate_dag.  Its loop over the tasks meets three kinds of fault; the  *)
(* first one in list order decides which exception the caller sees.        *)
DuplicateId(g) == \E i, j \in DOMAIN g.order : i # j /\ g.order[i] = g.order[j]

UnknownDependency(g, t) == ~(g.deps[t] \subseteq Ids(g.order))

(* by_id[producer] on a producer that is not in the graph. *)
UnknownProducer(g, t) ==
  /\ TaskType[t] = "verifier"
  /\ Producer[t] \in Task \ Ids(g.order)

DependentVerifier(g, t) ==
  /\ TaskType[t] = "verifier"
  /\ \/ Producer[t] = NoTask
     \/ Producer[t] \in Ids(g.order) /\ AssignedAgent[Producer[t]] = AssignedAgent[t]

Faulty(g, i) ==
  LET t == g.order[i]
  IN UnknownDependency(g, t) \/ UnknownProducer(g, t) \/ DependentVerifier(g, t)

FirstFault(g) ==
  LET faults == {i \in DOMAIN g.order : Faulty(g, i)}
  IN g.order[CHOOSE i \in faults : \A j \in faults : i <= j]

(* The depth-first visit finds a cycle exactly when some set of tasks has  *)
(* no member that could go first (DagVisit.tla checks this).               *)
Acyclic(g) ==
  \A S \in SUBSET Ids(g.order) : S # {} => \E t \in S : g.deps[t] \cap S = {}

ValidateDag(g) ==
  IF DuplicateId(g) THEN "ValueError"
  ELSE IF \E i \in DOMAIN g.order : Faulty(g, i)
    THEN IF ~UnknownDependency(g, FirstFault(g)) /\ UnknownProducer(g, FirstFault(g))
           THEN "KeyError" ELSE "ValueError"
  ELSE IF Acyclic(g) THEN "valid" ELSE "ValueError"

(* Whoever does t, and for each task also what it depends on, does tasks.  *)
Follows(g, t, tasks) ==
  \A S \in SUBSET Ids(g.order) :
    t \in S /\ (\A u \in S : g.deps[u] \subseteq S) => tasks \subseteq S

(* The final tasks come last in the graph, the final gate after the audit. *)
AuditedGraph(g) ==
  /\ Finals \subseteq Ids(g.order)
  /\ \A t \in Finals :
       /\ TaskType[t] \in {"final_audit", "human_gate"}
       /\ Follows(g, t, Ids(g.order) \ Finals)
       /\ TaskType[t] = "human_gate" => Follows(g, t, Ids(g.order))

-----------------------------------------------------------------------------
(* validate_proposal checks the proposed tasks as they are ... *)
Appended(g, p) ==
  [order |-> g.order \o p.order,
   deps |-> [t \in Task |-> IF t \in Ids(p.order) THEN p.deps[t] ELSE g.deps[t]]]

(* Mutant: final audit and final gate do not wait for added tasks. *)
MutExtended(g, p) == Appended(g, p)

(* ... and add_dynamic_tasks makes final audit and final gate wait for     *)
(* every added task before it checks again and replaces the graph.         *)
Extended(g, p) ==
  [order |-> g.order \o p.order,
   deps |-> [t \in Task |->
               Appended(g, p).deps[t]
                 \union (IF t \in Finals THEN Ids(p.order) ELSE {})]]

(* What merge() does with an adaptive proposal: "merged", or the exception *)
(* that leaves the graph as it was.  "unsavable" merges in memory, and the *)
(* save that follows is refused by the state schema.                       *)
MergeResult(g, p) ==
  IF \/ ~p.authorised
     \/ Len(p.order) = 0
     \/ Len(g.order) + Len(p.order) > MaxTotalTasks
    THEN "rejected"
  ELSE IF ValidateDag(Appended(g, p)) # "valid"
    THEN IF ValidateDag(Appended(g, p)) = "KeyError" THEN "KeyError" ELSE "rejected"
  ELSE IF ValidateDag(Extended(g, p)) # "valid" THEN "rejected"
  ELSE IF p.savable THEN "merged" ELSE "unsavable"
=============================================================================
