---------------------------- MODULE DefaultGraph ----------------------------
(***************************************************************************)
(* research_os/planner.py, default_graph and feedback_tasks: the task      *)
(* graph every run starts from, in its two forms (with the empirical part  *)
(* for empirical, mixed, measurement and replication papers), and the      *)
(* tasks appended when a review asks for new evidence or robustness.       *)
(* Ids of feedback tasks carry a sequence number; one round is enough here.*)
(***************************************************************************)
EXTENDS Naturals, Sequences

LastPart == <<"writing", "manuscript-review", "final-audit", "final-gate">>
FirstPart == <<"frame", "question-gate", "literature", "literature-review">>
EmpiricalPart == <<"empirical-design", "design-review", "design-gate",
                   "analysis", "empirical-review">>

(* The list of ids, in the order of task_graph. *)
DefaultOrder(empirical) ==
  FirstPart \o (IF empirical THEN EmpiricalPart ELSE <<>>) \o LastPart

FollowUpIds == {"literature-followup", "robustness-followup", "manuscript-revision"}
GraphIds == {FirstPart[i] : i \in DOMAIN FirstPart} \union {LastPart[i] : i \in DOMAIN LastPart}
              \union {EmpiricalPart[i] : i \in DOMAIN EmpiricalPart} \union FollowUpIds

Gates == {"question-gate", "design-gate", "final-gate"}

(* Verifiers and the required_inputs.producer_task_id they declare. *)
Verifies ==
  [v \in {"literature-review", "design-review", "empirical-review", "manuscript-review"} |->
     CASE v = "literature-review" -> "literature"
       [] v = "design-review" -> "empirical-design"
       [] v = "empirical-review" -> "analysis"
       [] v = "manuscript-review" -> "writing"]

DefaultType ==
  [t \in GraphIds |-> CASE t \in Gates -> "human_gate"
                        [] t = "final-audit" -> "final_audit"
                        [] t \in DOMAIN Verifies -> "verifier"
                        [] OTHER -> "agent"]

DefaultAgent ==
  [t \in GraphIds |->
     CASE t \in {"literature", "literature-followup"} -> "literature-agent"
       [] t \in {"empirical-design", "analysis", "robustness-followup"} -> "empirical-agent"
       [] t \in {"writing", "manuscript-revision"} -> "writing-agent"
       [] t \in DOMAIN Verifies \union {"final-audit"} -> "reviewer-verifier-agent"
       [] OTHER -> "research-director"]

DefaultProducer(none) ==
  [t \in GraphIds |-> IF t \in DOMAIN Verifies THEN Verifies[t] ELSE none]

DefaultDeps(empirical) ==
  [t \in GraphIds |->
     CASE t = "question-gate" -> {"frame"}
       [] t = "literature" -> {"question-gate"}
       [] t = "empirical-design" -> {"question-gate", "literature-review"}
       [] t = "design-gate" -> {"design-review"}
       [] t = "analysis" -> {"design-gate"}
       [] t = "writing" -> {"literature-review"}
                             \union (IF empirical THEN {"empirical-review"} ELSE {})
       [] t \in DOMAIN Verifies -> {Verifies[t]}
       [] t = "final-audit" -> {"manuscript-review"}
       [] t = "final-gate" -> {"final-audit"}
       [] OTHER -> {}]

(* feedback_tasks: the follow-up hangs on the review that asked for it,    *)
(* the revision of the manuscript on the follow-up.                        *)
FeedbackTasks(request, parent) ==
  LET first == IF request = "new_evidence" THEN "literature-followup" ELSE "robustness-followup"
  IN [order |-> <<first, "manuscript-revision">>,
      deps |-> [t \in GraphIds |-> IF t = first THEN {parent}
                                   ELSE IF t = "manuscript-revision" THEN {first} ELSE {}],
      authorised |-> TRUE, savable |-> TRUE]
=============================================================================
