------------------------------ MODULE DagVisit ------------------------------
(***************************************************************************)
(* research_os/planner.py, validate_dag lines 85-92: the depth-first visit *)
(* with the sets visiting and visited, run on every task of the list.      *)
(* Planner uses what it computes, Acyclic; here it is a step per call and  *)
(* per return of visit.  The stack holds the calls of visit that are       *)
(* under way, each with the dependencies its loop has not called yet.      *)
(***************************************************************************)
EXTENDS Planner

CONSTANTS List,    \* task_graph as the list of ids
          AllDeps  \* the dependencies to check: Task -> SUBSET Task

ASSUME ListAssumption == List \in Seq(Task) /\ AllDeps \subseteq [Task -> SUBSET Ids(List)]

VARIABLES
  edges,     \* dependencies of each task
  next,      \* index in List of the next task to visit
  stack,     \* calls under way, innermost first: [node, rest]
  visiting,
  visited,
  finding    \* "none" while the visit goes on, then "valid" or "cycle"

visitVars == <<edges, next, stack, visiting, visited, finding>>

Checked == [order |-> List, deps |-> edges]

VisitInit ==
  /\ edges \in AllDeps
  /\ next = 1
  /\ stack = <<>>
  /\ visiting = {}
  /\ visited = {}
  /\ finding = "none"

(* Mutant: a node under way counts as visited. *)
MutVisit(node, frames) ==
  \/ /\ node \in visited \union visiting
     /\ stack' = frames
     /\ UNCHANGED <<visiting, finding>>
  \/ /\ node \notin visited \union visiting
     /\ visiting' = visiting \union {node}
     /\ stack' = <<[node |-> node, rest |-> edges[node]]>> \o frames
     /\ UNCHANGED finding

(* A call of visit, made by the frames below it. *)
Visit(node, frames) ==
  \/ /\ node \in visiting
     /\ finding' = "cycle"
     /\ stack' = frames
     /\ UNCHANGED visiting
  \/ /\ node \in visited \ visiting
     /\ stack' = frames
     /\ UNCHANGED <<visiting, finding>>
  \/ /\ node \notin visited \union visiting
     /\ visiting' = visiting \union {node}
     /\ stack' = <<[node |-> node, rest |-> edges[node]]>> \o frames
     /\ UNCHANGED finding

(* for node in ids: visit(node) *)
VisitNext ==
  /\ finding = "none" /\ stack = <<>> /\ next <= Len(List)
  /\ next' = next + 1
  /\ Visit(List[next], <<>>)
  /\ UNCHANGED <<edges, visited>>

(* for dependency in dependencies: visit(dependency).  Any order. *)
VisitDependency ==
  /\ finding = "none" /\ stack # <<>>
  /\ \E d \in stack[1].rest :
       Visit(d, <<[stack[1] EXCEPT !.rest = @ \ {d}]>> \o Tail(stack))
  /\ UNCHANGED <<edges, next, visited>>

(* The visit of a node is over. *)
Leave(node) ==
  /\ visiting' = visiting \ {node}
  /\ visited' = visited \union {node}

(* The loop is over: visit returns. *)
Return ==
  /\ finding = "none" /\ stack # <<>>
  /\ stack[1].rest = {}
  /\ Leave(stack[1].node)
  /\ stack' = Tail(stack)
  /\ UNCHANGED <<edges, next, finding>>

Finish ==
  /\ finding = "none" /\ stack = <<>> /\ next > Len(List)
  /\ finding' = "valid"
  /\ UNCHANGED <<edges, next, stack, visiting, visited>>

DagNext == VisitNext \/ VisitDependency \/ Return \/ Finish

DagSpec == VisitInit /\ [][DagNext]_visitVars

-----------------------------------------------------------------------------
(* The visit refuses exactly the graphs with a cycle, wherever it starts   *)
(* and in whatever order it follows the dependencies.                      *)
VerdictIsAcyclic == finding # "none" => (finding = "valid" <=> Acyclic(Checked))

(* No task is on the stack twice, so the recursion is never deeper than    *)
(* the graph has tasks (max_total_tasks stays far below the interpreter's  *)
(* limit), and what was visited is closed under dependencies, so skipping  *)
(* it later misses no cycle.                                               *)
VisitedIsClosed ==
  /\ Len(stack) = Cardinality(visiting)
  /\ \A t \in visited : edges[t] \subseteq visited

(* The two sets of the visit do what they are for.                         *)
VisitIsRight == VerdictIsAcyclic /\ VisitedIsClosed
=============================================================================
