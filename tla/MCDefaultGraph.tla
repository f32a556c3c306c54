--------------------------- MODULE MCDefaultGraph ---------------------------
(* The runtime on the task graph every run of the program starts from.     *)
EXTENDS ResearchRuntime, DefaultGraph

CONSTANT Empirical   \* whether the paper has an empirical part

Order == DefaultOrder(Empirical)
Deps == DefaultDeps(Empirical)
Producers == DefaultProducer(NoTask)
FinalTasks == {"final-audit", "final-gate"}
Twice == [t \in GraphIds |-> 2]

(* A process with all agents, and one without the reviewer. *)
SomeExecutors == {Agents, Agents \ {"reviewer-verifier-agent"}}

Nothing == {}
Feedback == {FeedbackTasks(request, "manuscript-review") :
               request \in {"new_evidence", "robustness"}}

(* initialize validates the graph before it creates the run. *)
ASSUME InitialGraphValid ==
  \A empirical \in BOOLEAN :
    ValidateDag([order |-> DefaultOrder(empirical), deps |-> DefaultDeps(empirical)]) = "valid"

(* In both forms the final audit and the final gate come last, as          *)
(* ReleaseNeedsReview rests on.                                            *)
ASSUME InitialGraphAudited ==
  \A empirical \in BOOLEAN :
    AuditedGraph([order |-> DefaultOrder(empirical), deps |-> DefaultDeps(empirical)])
=============================================================================
