------------------------- MODULE MCResearchRuntime -------------------------
(* A run with one piece of work, its review, the final audit and the final *)
(* gate; extra and check are tasks that agents propose.                    *)
EXTENDS ResearchRuntime, TLC

CONSTANTS work, review, audit, gate, extra, check

Tasks == {work, review, audit, gate, extra, check}
Types == work :> "agent" @@ review :> "verifier" @@ audit :> "final_audit"
           @@ gate :> "human_gate" @@ extra :> "agent" @@ check :> "verifier"
Agent == [t \in Tasks |-> IF t \in {work, extra} THEN "empirical-agent"
                          ELSE IF t = gate THEN "research-director"
                          ELSE "reviewer-verifier-agent"]
Producers == [t \in Tasks |-> IF t = review THEN work
                              ELSE IF t = check THEN extra ELSE NoTask]
Order == <<work, review, audit, gate>>
Deps == [t \in Tasks |-> IF t = review THEN {work}
                         ELSE IF t = audit THEN {review}
                         ELSE IF t = gate THEN {audit} ELSE {}]
ShortOrder == <<work, audit, gate>>
ShortDeps == [Deps EXCEPT ![audit] = {work}]
FinalTasks == {audit, gate}

Attempts(n) == [t \in Tasks |-> n]
Once == Attempts(1)
Twice == Attempts(2)

Proposed(ids, parent) ==
  [order |-> ids, deps |-> [t \in Tasks |-> {parent}], authorised |-> TRUE, savable |-> TRUE]

(* Accepted; with an unknown producer; refused by the state schema;        *)
(* cyclic.                                                                 *)
More == Proposed(<<extra>>, work)
Orphan == Proposed(<<check>>, work)
Oversized == [More EXCEPT !.savable = FALSE]
Cyclic == Proposed(<<extra>>, extra)
AnyReplacement == {More, Orphan, Oversized, Cyclic}
(* A process without agents, and one that can execute the empirical agent  *)
(* but not the reviewer.                                                   *)
SomeExecutors == {{}, {"empirical-agent"}}

NoProposals == {}
OneProposal == {More}
=============================================================================
