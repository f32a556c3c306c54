------------------------ MODULE ResearchRuntimeProofs ------------------------
(***************************************************************************)
(* Invariants of the runtime for any task graph, retry limits, budgets,    *)
(* proposals and number of runners.                                        *)
(*                                                                         *)
(* The safety properties are not inductive alone.  What they rest on is    *)
(* RunnerInv: a runner whose copy of the state is current and that is      *)
(* inside an attempt finds its task as it left it.  It holds because every *)
(* save takes freshness from everybody else.  All ways a task leaves an    *)
(* attempt are summarised by Leaves(t), so each action is either one of    *)
(* those or does one small thing to the tasks.  A recovery does none of    *)
(* that: it brings back a checkpoint.  So whatever is inductive about the  *)
(* state is also stated of every checkpoint (SoundTasks, SoundPlan,        *)
(* SoundRelease), which holds because a checkpoint is what a save wrote.   *)
(***************************************************************************)
EXTENDS ResearchRuntime, FiniteSetTheorems, TLAPS

(* TypeOK variable by variable, without the checkpoints.                   *)
Types ==
  /\ order \in Seq(Task)
  /\ deps \in [Task -> SUBSET Task]
  /\ status \in [Task -> Statuses]
  /\ attempts \in [Task -> Nat] /\ replans \in [Task -> Nat]
  /\ completed \in SUBSET Task /\ blocked \in SUBSET Task
  /\ lifecycle \in Lifecycles
  /\ pending \in [Task -> Nat]
  /\ approvals \in [Task -> Nat] /\ awaiting \in [Task -> Nat]
  /\ totalSteps \in Nat /\ strategyReplans \in Nat
  /\ fresh \in SUBSET Runner
  /\ run \in [Runner -> Place]

(* The attempts left of a task that will be attempted, and what holds of   *)
(* ids that are not in the graph.                                          *)
AttemptInv ==
  \A t \in Task :
    /\ attempts[t] <= MaxAttempts[t] + approvals[t]
    /\ status[t] = "pending" => attempts[t] < MaxAttempts[t] + approvals[t]
    /\ t \notin Ids(order) => status[t] = "absent" /\ attempts[t] = 0

GateInv ==
  /\ \A t \in Task : status[t] = "waiting-agent" => TaskType[t] # "human_gate"
  /\ \A t \in Task : TaskType[t] = "human_gate" /\ t \in completed => approvals[t] > 0

TaskInv ==
  OneActionPerWait /\ OnePacketPerWait /\ BlockedListed /\ AttemptInv /\ GateInv

RunnerInv ==
  \A r \in Runner : r \in fresh =>
    /\ At(r, "started") =>
         run[r].task \in Task /\ status[run[r].task] = "running"
    /\ InAgent(r) =>
         run[r].task \in Task /\ status[run[r].task] = "waiting-agent"

(* A pause has made every runner's copy old. *)
PauseInv == lifecycle = "paused" => fresh = {}

Inv == Types /\ TaskInv /\ RunnerInv /\ PauseInv

(* What Inv says of the state, said of a saved one: a recovery may bring   *)
(* it back.                                                                *)
SoundTasks(s) ==
  /\ s \in SavedState
  /\ \A t \in Task :
       /\ s.pending[t] = IF s.status[t] = "waiting-human" THEN 1 ELSE 0
       /\ s.awaiting[t] <= 1
       /\ s.awaiting[t] = 1 => s.status[t] = "waiting-agent"
       /\ s.attempts[t] <= MaxAttempts[t] + s.approvals[t]
       /\ s.status[t] = "pending" => s.attempts[t] < MaxAttempts[t] + s.approvals[t]
       /\ t \notin Ids(s.order) => s.status[t] = "absent" /\ s.attempts[t] = 0
       /\ s.status[t] = "waiting-agent" => TaskType[t] # "human_gate"
       /\ TaskType[t] = "human_gate" /\ t \in s.completed => s.approvals[t] > 0
  /\ s.blocked = {t \in Task : s.status[t] = "blocked"}

SavedInv == \A c \in checkpoints : SoundTasks(c)

(* The task t leaves its attempt, or stays in it when a merge replaced the *)
(* graph under it; tasks that were not in the graph may come in.           *)
Leaves(t) ==
  /\ order' \in Seq(Task) /\ deps' \in [Task -> SUBSET Task]
  /\ replans' \in [Task -> Nat] /\ strategyReplans' \in Nat
  /\ Ids(order) \subseteq Ids(order')
  /\ status' \in [Task -> Statuses]
  /\ status'[t] \in {"complete", "superseded", "blocked", "waiting-human", "pending", status[t]}
  /\ status'[t] = "pending" => attempts[t] < MaxAttempts[t]
  /\ \A u \in Task \ {t} :
       \/ status'[u] = status[u]
       \/ u \in Ids(order') \ Ids(order) /\ status'[u] = "pending"
  /\ completed' \in SUBSET Task /\ completed' \subseteq completed \union {t}
  /\ TaskType[t] = "human_gate" => completed' = completed
  /\ blocked' = IF status'[t] = "blocked" THEN blocked \union {t} ELSE blocked
  /\ pending' = IF status'[t] = "waiting-human"
                  THEN [pending EXCEPT ![t] = @ + 1] ELSE pending

InAttempt(t) == t \in Task /\ status[t] \in {"running", "waiting-agent"}

(* What no step but a recovery may do: take a task back that is complete   *)
(* or superseded, or start one while the run is paused.                    *)
KeepsRules ==
  /\ \A t \in Task : status[t] \in Terminal => status'[t] = status[t]
  /\ lifecycle = "paused" => attempts' = attempts

-----------------------------------------------------------------------------
(* The ids of two lists one after the other, and when they repeat none.    *)
LEMMA ConcatIds ==
  ASSUME NEW s \in Seq(Task), NEW u \in Seq(Task)
  PROVE  /\ s \o u \in Seq(Task)
         /\ Ids(s \o u) = Ids(s) \union Ids(u)
         /\ (\A i, j \in DOMAIN (s \o u) : (s \o u)[i] = (s \o u)[j] => i = j) =>
              Ids(s) \intersect Ids(u) = {}
<1> DEFINE h == s \o u
           n == Len(s)
           m == Len(u)
<1>1. /\ h \in Seq(Task) /\ n \in Nat /\ m \in Nat
      /\ DOMAIN s = 1 .. n /\ DOMAIN u = 1 .. m /\ DOMAIN h = 1 .. (n + m)
      /\ \A i \in 1 .. (n + m) : h[i] = IF i <= n THEN s[i] ELSE u[i - n]
  OBVIOUS
<1> HIDE DEF h, n, m
<1>2. ASSUME NEW i \in 1 .. n
      PROVE  i \in DOMAIN h /\ h[i] = s[i]
  BY <1>1
<1>3. ASSUME NEW i \in 1 .. m
      PROVE  n + i \in DOMAIN h /\ h[n + i] = u[i] /\ n + i > n
  BY <1>1
<1>4. ASSUME NEW i \in DOMAIN h
      PROVE  h[i] \in Ids(s) \union Ids(u)
  <2>1. CASE i <= n
    BY <1>1, <2>1 DEF Ids
  <2>2. CASE ~(i <= n)
    <3>1. i - n \in 1 .. m /\ h[i] = u[i - n]
      BY <1>1, <2>2
    <3> QED BY <1>1, <3>1 DEF Ids
  <2> QED BY <2>1, <2>2
<1>5. Ids(h) = Ids(s) \union Ids(u)
  <2>1. Ids(h) \subseteq Ids(s) \union Ids(u)
    BY <1>4 DEF Ids
  <2>2. Ids(s) \subseteq Ids(h)
    BY <1>1, <1>2 DEF Ids
  <2>3. Ids(u) \subseteq Ids(h)
    <3> SUFFICES ASSUME NEW x \in Ids(u)
                 PROVE  \E k \in DOMAIN h : x = h[k]
      BY DEF Ids
    <3>1. PICK i \in 1 .. m : x = u[i]
      BY <1>1 DEF Ids
    <3>2. n + i \in DOMAIN h /\ h[n + i] = x
      BY <1>3, <3>1
    <3> QED BY <3>2
  <2> QED BY <2>1, <2>2, <2>3
<1>6. ASSUME \A i, j \in DOMAIN h : h[i] = h[j] => i = j
      PROVE  Ids(s) \intersect Ids(u) = {}
  <2> SUFFICES ASSUME NEW i \in 1 .. n, NEW j \in 1 .. m, s[i] = u[j]
               PROVE  FALSE
    BY <1>1 DEF Ids
  <2>1. i = n + j
    BY <1>2, <1>3, <1>6
  <2> QED BY <1>1, <1>3, <2>1
<1> QED BY <1>1, <1>5, <1>6 DEF h

(* A merged graph keeps its tasks and gets new ones only. *)
LEMMA MergeAdds ==
  ASSUME NEW g \in Graph, NEW p \in Proposal, MergeResult(g, p) = "merged"
  PROVE  /\ Extended(g, p).order \in Seq(Task)
         /\ Extended(g, p).deps \in [Task -> SUBSET Task]
         /\ Ids(Extended(g, p).order) = Ids(g.order) \union Ids(p.order)
         /\ Ids(g.order) \intersect Ids(p.order) = {}
<1>1. /\ g.order \in Seq(Task) /\ p.order \in Seq(Task)
      /\ g.deps \in [Task -> SUBSET Task] /\ p.deps \in [Task -> SUBSET Task]
  BY DEF Graph, Proposal
<1>2. Appended(g, p).order = g.order \o p.order
  BY DEF Appended
<1>3. Extended(g, p).order = g.order \o p.order
  BY Zenon DEF Extended
<1>4. Extended(g, p).deps \in [Task -> SUBSET Task]
  <2>1. Ids(p.order) \subseteq Task
    BY <1>1 DEF Ids
  <2>2. \A t \in Task : Appended(g, p).deps[t] \in SUBSET Task
    BY <1>1 DEF Appended
  <2> QED BY <2>1, <2>2 DEF Extended
<1>5. ~DuplicateId(Appended(g, p))
  BY DEF MergeResult, ValidateDag
<1>6. \A i, j \in DOMAIN (g.order \o p.order) :
        (g.order \o p.order)[i] = (g.order \o p.order)[j] => i = j
  BY <1>2, <1>5 DEF DuplicateId
<1>7. /\ g.order \o p.order \in Seq(Task)
      /\ Ids(g.order \o p.order) = Ids(g.order) \union Ids(p.order)
      /\ Ids(g.order) \intersect Ids(p.order) = {}
  BY <1>1, <1>6, ConcatIds
<1> QED BY <1>3, <1>4, <1>7

-----------------------------------------------------------------------------
(* Every way an attempt ends is a case of Leaves. *)
LEMMA FailLeaves ==
  ASSUME Types, NEW t, InAttempt(t), NEW life, Fail(t, life), UNCHANGED planVars
  PROVE  Leaves(t)
<1>1. CASE RetryLeft(t)
  BY <1>1 DEF Fail, RetryLeft, Types, InAttempt, Leaves, planVars, Statuses
<1>2. CASE ~RetryLeft(t)
  BY <1>2 DEF Fail, Block, Types, InAttempt, Leaves, planVars, Statuses
<1> QED BY <1>1, <1>2

LEMMA HandoffLeaves ==
  ASSUME Types, NEW t, InAttempt(t), Handoff(t), UNCHANGED planVars
  PROVE  Leaves(t)
BY DEF Handoff, Types, InAttempt, Leaves, planVars, Statuses

(* What Merge and MergedStatus do together. *)
LEMMA MergedTasks ==
  ASSUME Types, NEW p \in Proposal, MergeResult(TaskGraph, p) = "merged", Merge(p)
  PROVE  /\ order' \in Seq(Task) /\ deps' \in [Task -> SUBSET Task]
         /\ Ids(order) \subseteq Ids(order')
         /\ MergedStatus(p) \in [Task -> Statuses]
         /\ \A u \in Task :
              \/ MergedStatus(p)[u] = status[u]
              \/ u \in Ids(order') \ Ids(order) /\ MergedStatus(p)[u] = "pending"
         /\ \A u \in Ids(order) : MergedStatus(p)[u] = status[u]
<1>1. TaskGraph \in Graph /\ TaskGraph.order = order
  BY DEF TaskGraph, Graph, Types
<1>2. /\ Extended(TaskGraph, p).order \in Seq(Task)
      /\ Extended(TaskGraph, p).deps \in [Task -> SUBSET Task]
      /\ Ids(Extended(TaskGraph, p).order) = Ids(order) \union Ids(p.order)
      /\ Ids(order) \intersect Ids(p.order) = {}
  BY <1>1, MergeAdds
<1>3. order' = Extended(TaskGraph, p).order /\ deps' = Extended(TaskGraph, p).deps
  BY DEF Merge
<1>4. MergedStatus(p) \in [Task -> Statuses]
  BY DEF MergedStatus, Types, Statuses
<1>5. \A u \in Task : MergedStatus(p)[u] = IF u \in Ids(p.order) THEN "pending" ELSE status[u]
  BY DEF MergedStatus
<1>6. Ids(order) \subseteq Task
  BY DEF Types, Ids
<1> QED BY <1>2, <1>3, <1>4, <1>5, <1>6

LEMMA ObservePassLeaves ==
  ASSUME Types, NEW t, InAttempt(t), t \in Ids(order), TaskType[t] # "human_gate",
         NEW p \in Proposal \union {NoProposal}, NEW life, ObservePass(t, p, life)
  PROVE  Leaves(t)
<1>1. CASE p = NoProposal /\ Complete(t) /\ UNCHANGED <<planVars, blocked, pending>>
  BY <1>1 DEF Complete, Types, InAttempt, Leaves, planVars, Statuses
<1>2. CASE /\ p # NoProposal
           /\ MergeResult(TaskGraph, p) = "merged"
           /\ Merge(p)
           /\ status' = MergedStatus(p)
           /\ completed' = completed \union {t}
           /\ UNCHANGED <<replans, strategyReplans, blocked, pending>>
  <2>1. /\ order' \in Seq(Task) /\ deps' \in [Task -> SUBSET Task]
        /\ Ids(order) \subseteq Ids(order')
        /\ status' \in [Task -> Statuses]
        /\ \A u \in Task : \/ status'[u] = status[u]
                           \/ u \in Ids(order') \ Ids(order) /\ status'[u] = "pending"
        /\ status'[t] = status[t]
    BY <1>2, MergedTasks
  <2>2. status[t] \notin {"pending", "blocked", "waiting-human"}
    BY DEF InAttempt
  <2> QED BY <1>2, <2>1, <2>2 DEF Types, InAttempt, Leaves
<1>3. CASE Fail(t, life) /\ UNCHANGED planVars
  BY <1>3, FailLeaves
<1> QED BY <1>1, <1>2, <1>3 DEF ObservePass

LEMMA ReplanLeaves ==
  ASSUME Types, NEW t, InAttempt(t), t \in Ids(order), TaskType[t] # "human_gate",
         NEW p \in Proposal \union {NoProposal}, NEW life, Replan(t, p, life)
  PROVE  Leaves(t)
<1>1. replans' \in [Task -> Nat] /\ strategyReplans' \in Nat
  BY DEF Replan, Types, InAttempt
<1>2. CASE /\ p # NoProposal
           /\ MergeResult(TaskGraph, p) = "merged"
           /\ Merge(p)
           /\ status' = [MergedStatus(p) EXCEPT ![t] = "superseded"]
           /\ completed' = completed \union {t}
           /\ UNCHANGED <<blocked, pending>>
  <2>1. /\ order' \in Seq(Task) /\ deps' \in [Task -> SUBSET Task]
        /\ Ids(order) \subseteq Ids(order')
        /\ MergedStatus(p) \in [Task -> Statuses]
        /\ \A u \in Task :
             \/ MergedStatus(p)[u] = status[u]
             \/ u \in Ids(order') \ Ids(order) /\ MergedStatus(p)[u] = "pending"
    BY <1>2, MergedTasks
  <2>2. /\ status' \in [Task -> Statuses]
        /\ status'[t] = "superseded"
        /\ \A u \in Task \ {t} : status'[u] = MergedStatus(p)[u]
    BY <1>2, <2>1 DEF InAttempt, Statuses
  <2> QED BY <1>1, <1>2, <2>1, <2>2 DEF Types, InAttempt, Leaves
<1>3. CASE Handoff(t) /\ UNCHANGED <<order, deps>>
  BY <1>1, <1>3 DEF Handoff, Types, InAttempt, Leaves, Statuses
<1> QED BY <1>2, <1>3 DEF Replan

(* An observation is applied to a task in an attempt that is not a gate. *)
LEMMA ObservationLeaves ==
  ASSUME Types, NEW t, InAttempt(t), t \in Ids(order), TaskType[t] # "human_gate",
         NEW outcome, NEW p \in Proposal \union {NoProposal}, NEW life,
         ApplyObservation(t, outcome, p, life)
  PROVE  Leaves(t)
BY FailLeaves, HandoffLeaves, ObservePassLeaves, ReplanLeaves DEF ApplyObservation

LEMMA ProposalTyped ==
  ASSUME NEW outcome, NEW p \in ProposalsWith(outcome)
  PROVE  p \in Proposal \union {NoProposal}
BY RuntimeAssumption DEF ProposalsWith

(* The lifecycle after an observation. *)
LEMMA ObservationLife ==
  ASSUME NEW t, NEW outcome, NEW p, NEW life,
         ApplyObservation(t, outcome, p, life)
  PROVE  lifecycle' \in {life, "blocked", "waiting-human"}
BY DEF ApplyObservation, ObservePass, Replan, Fail, Block, Handoff

-----------------------------------------------------------------------------
(* What keeps TaskInv.                                                     *)

LEMMA SameTasks ==
  ASSUME TaskInv,
         UNCHANGED <<order, status, attempts, completed, blocked, pending, approvals, awaiting>>
  PROVE  TaskInv'
BY DEF TaskInv, OneActionPerWait, OnePacketPerWait, BlockedListed, AttemptInv, GateInv, Ids

(* The packet of a task that leaves its attempt is resolved, or there was  *)
(* none.                                                                   *)
LEMMA LeavingKeeps ==
  ASSUME Types, TaskInv, NEW t, InAttempt(t), Leaves(t),
         UNCHANGED <<attempts, approvals>>,
         ResolvePacket(t) \/ (UNCHANGED awaiting /\ awaiting[t] = 0)
  PROVE  /\ TaskInv'
         /\ blocked' \in SUBSET Task /\ pending' \in [Task -> Nat]
         /\ awaiting' \in [Task -> Nat]
<1>1. /\ t \in Task /\ status[t] \in {"running", "waiting-agent"}
      /\ t \in Ids(order)
  BY DEF InAttempt, TaskInv, AttemptInv
<1>2. /\ awaiting' \in [Task -> Nat] /\ awaiting'[t] = 0
      /\ \A u \in Task \ {t} : awaiting'[u] = awaiting[u]
  BY <1>1 DEF Types, TaskInv, OnePacketPerWait, ResolvePacket
<1>3. \A u \in Task \ {t} :
        \/ status'[u] = status[u]
        \/ /\ u \in Ids(order') \ Ids(order)
           /\ status'[u] = "pending" /\ status[u] = "absent" /\ attempts[u] = 0
  BY DEF Leaves, TaskInv, AttemptInv
<1>4. pending' \in [Task -> Nat] /\ OneActionPerWait'
  <2>1. CASE status'[t] = "waiting-human"
    <3>1. pending' = [pending EXCEPT ![t] = @ + 1] /\ pending[t] = 0
      BY <1>1, <2>1 DEF Leaves, TaskInv, OneActionPerWait
    <3> QED BY <1>1, <1>3, <2>1, <3>1 DEF Types, TaskInv, OneActionPerWait
  <2>2. CASE status'[t] # "waiting-human"
    <3>1. pending' = pending /\ pending[t] = 0
      BY <1>1, <2>2 DEF Leaves, TaskInv, OneActionPerWait
    <3> QED BY <1>1, <1>3, <2>2, <3>1 DEF Types, TaskInv, OneActionPerWait
  <2> QED BY <2>1, <2>2
<1>5. OnePacketPerWait'
  <2> SUFFICES ASSUME NEW u \in Task
               PROVE  awaiting'[u] <= 1 /\ (awaiting'[u] = 1 => status'[u] = "waiting-agent")
    BY DEF OnePacketPerWait
  <2>1. awaiting[u] <= 1 /\ (awaiting[u] = 1 => status[u] = "waiting-agent")
    BY DEF TaskInv, OnePacketPerWait
  <2> QED BY <1>2, <1>3, <2>1
<1>6. blocked' \in SUBSET Task /\ BlockedListed'
  <2>1. blocked = {u \in Task : status[u] = "blocked"}
    BY DEF TaskInv, BlockedListed
  <2>2. blocked' = IF status'[t] = "blocked" THEN blocked \union {t} ELSE blocked
    BY DEF Leaves
  <2>3. \A u \in Task \ {t} : status'[u] = "blocked" <=> status[u] = "blocked"
    BY <1>3
  <2>4. blocked' = {u \in Task : status'[u] = "blocked"}
    BY <1>1, <2>1, <2>2, <2>3
  <2> QED BY <2>4 DEF BlockedListed
<1>7. AttemptInv'
  <2> SUFFICES ASSUME NEW u \in Task
               PROVE  /\ attempts[u] <= MaxAttempts[u] + approvals[u]
                      /\ status'[u] = "pending" => attempts[u] < MaxAttempts[u] + approvals[u]
                      /\ u \notin Ids(order)' => status'[u] = "absent" /\ attempts[u] = 0
    BY DEF AttemptInv
  <2>1. /\ attempts[u] <= MaxAttempts[u] + approvals[u]
        /\ status[u] = "pending" => attempts[u] < MaxAttempts[u] + approvals[u]
        /\ u \notin Ids(order) => status[u] = "absent" /\ attempts[u] = 0
    BY DEF TaskInv, AttemptInv
  <2>2. attempts[u] \in Nat /\ approvals[u] \in Nat /\ MaxAttempts[u] \in Nat \ {0}
    BY RuntimeAssumption DEF Types
  <2>3. Ids(order)' = Ids(order') /\ Ids(order) \subseteq Ids(order')
    BY DEF Leaves, Ids
  <2>4. CASE u = t
    <3>1. status'[u] = "pending" => attempts[u] < MaxAttempts[u]
      BY <2>4 DEF Leaves
    <3> QED BY <1>1, <2>1, <2>2, <2>3, <2>4, <3>1
  <2>5. CASE u # t
    BY <1>3, <2>1, <2>2, <2>3, <2>5
  <2> QED BY <2>4, <2>5
<1>8. GateInv'
  <2>1. ASSUME NEW u \in Task, status'[u] = "waiting-agent"
        PROVE  TaskType[u] # "human_gate"
    <3>1. status[u] = "waiting-agent"
      BY <1>1, <1>3, <2>1 DEF Leaves
    <3> QED BY <3>1 DEF TaskInv, GateInv
  <2>2. ASSUME NEW u \in Task, TaskType[u] = "human_gate", u \in completed'
        PROVE  approvals[u] > 0
    <3>1. u \in completed
      BY <2>2 DEF Leaves
    <3> QED BY <2>2, <3>1 DEF TaskInv, GateInv
  <2> QED BY <2>1, <2>2 DEF GateInv
<1> QED BY <1>2, <1>4, <1>5, <1>6, <1>7, <1>8 DEF TaskInv

-----------------------------------------------------------------------------
(* What keeps RunnerInv and PauseInv.                                      *)

(* Where a runner goes is a place. *)
LEMMA PlacesTyped ==
  /\ Idle \in Place
  /\ Types => \A r \in Runner : run[r] \in Place /\ InLoop(r) \in Place
<1>1. Idle \in Place
  BY DEF Idle, Place, Places
<1>2. ASSUME NEW place \in Place
      PROVE  [place EXCEPT !.pc = "loop", !.task = NoTask, !.unsaved = 0, !.saved = TRUE] \in Place
  BY DEF Place, Places
<1>3. ASSUME Types, NEW r \in Runner PROVE run[r] \in Place /\ InLoop(r) \in Place
  <2>1. run[r] \in Place
    BY <1>3 DEF Types
  <2> QED BY <1>2, <2>1 DEF InLoop
<1> QED BY <1>1, <1>3

(* A runner saves and goes on at a place that is right for its task. *)
LEMMA SavingKeeps ==
  ASSUME Types, NEW r \in Runner, NEW place \in Place, SaveAndGo(r, place),
         place.pc = "started" => place.task \in Task /\ status'[place.task] = "running",
         place.pc \in {"agent", "again"} =>
           place.task \in Task /\ status'[place.task] = "waiting-agent",
         lifecycle' # "paused"
  PROVE  /\ run' \in [Runner -> Place] /\ fresh' \in SUBSET Runner
         /\ RunnerInv' /\ PauseInv'
<1>1. /\ run' = [run EXCEPT ![r] = place] /\ run'[r] = place
      /\ fresh' \subseteq {r}
  BY DEF SaveAndGo, Types
<1>2. run' \in [Runner -> Place] /\ fresh' \in SUBSET Runner
  BY <1>1 DEF Types
<1>3. RunnerInv'
  BY <1>1 DEF RunnerInv, At, InAgent
<1> QED BY <1>2, <1>3 DEF PauseInv

(* The lifecycle a runner with a current copy saves is not "paused". *)
LEMMA LifeNotPaused ==
  ASSUME Types, PauseInv, NEW r \in Runner, Fresh(r)
  PROVE  Life(r) \in Lifecycles \ {"paused"}
BY DEF PauseInv, Fresh, Life, Types, Lifecycles

LEMMA CommandKeeps ==
  ASSUME Types, SaveByCommand, run' \in [Runner -> Place]
  PROVE  fresh' \in SUBSET Runner /\ RunnerInv' /\ PauseInv'
BY DEF SaveByCommand, RunnerInv, PauseInv

-----------------------------------------------------------------------------
LEMMA InvInit == Init => Inv
<1> SUFFICES ASSUME Init PROVE Inv
  OBVIOUS
<1>1. InitialOrder \in Seq(Task) /\ InitialDeps \in [Task -> SUBSET Task]
      /\ MaxAttempts \in [Task -> Nat \ {0}]
  BY RuntimeAssumption
<1>2. Types
  BY <1>1, PlacesTyped DEF Init, Types, Statuses, Lifecycles
<1>3. OneActionPerWait /\ OnePacketPerWait /\ BlockedListed
  BY DEF Init, OneActionPerWait, OnePacketPerWait, BlockedListed
<1>4. AttemptInv
  BY <1>1 DEF Init, AttemptInv
<1>5. GateInv
  BY DEF Init, GateInv
<1>6. RunnerInv /\ PauseInv
  BY DEF Init, RunnerInv, PauseInv
<1> QED BY <1>2, <1>3, <1>4, <1>5, <1>6 DEF Inv, TaskInv

-----------------------------------------------------------------------------
(* The steps of run().                                                     *)

(* A runner with a current copy inside an attempt. *)
LEMMA RunnerInAttempt ==
  ASSUME Inv, NEW r \in Runner, Fresh(r), At(r, "started") \/ InAgent(r)
  PROVE  /\ InAttempt(run[r].task)
         /\ run[r].task \in Ids(order)
         /\ At(r, "started") => awaiting[run[r].task] = 0
         /\ InAgent(r) => TaskType[run[r].task] # "human_gate"
<1> DEFINE t == run[r].task
<1>1. /\ t \in Task
      /\ At(r, "started") => status[t] = "running"
      /\ InAgent(r) => status[t] = "waiting-agent"
  BY DEF Inv, RunnerInv, Fresh
<1>2. t \in Ids(order)
  BY <1>1 DEF Inv, TaskInv, AttemptInv
<1>3. At(r, "started") => awaiting[t] = 0
  <2>1. awaiting[t] <= 1 /\ (awaiting[t] = 1 => status[t] = "waiting-agent")
        /\ awaiting[t] \in Nat
    BY <1>1 DEF Inv, TaskInv, OnePacketPerWait, Types
  <2> QED BY <1>1, <2>1
<1>4. InAgent(r) => TaskType[t] # "human_gate"
  BY <1>1 DEF Inv, TaskInv, GateInv
<1> QED BY <1>1, <1>2, <1>3, <1>4 DEF InAttempt

(* A step of run() in which a task leaves its attempt. *)
LEMMA LeavingStep ==
  ASSUME Inv, NEW r \in Runner, NEW place \in Place, SaveAndGo(r, place),
         place.pc \in {"idle", "loop"},
         NEW t, InAttempt(t), Leaves(t), UNCHANGED <<attempts, approvals>>,
         ResolvePacket(t) \/ (UNCHANGED awaiting /\ awaiting[t] = 0),
         lifecycle' \in Lifecycles \ {"paused"}, totalSteps' \in Nat
  PROVE  Inv' /\ KeepsRules
<1>1. /\ TaskInv'
      /\ blocked' \in SUBSET Task /\ pending' \in [Task -> Nat]
      /\ awaiting' \in [Task -> Nat]
  BY LeavingKeeps DEF Inv
<1>2. /\ run' \in [Runner -> Place] /\ fresh' \in SUBSET Runner
      /\ RunnerInv' /\ PauseInv'
  BY SavingKeeps DEF Inv
<1>3. Types'
  BY <1>1, <1>2 DEF Types, Leaves, Inv
<1>4. KeepsRules
  BY DEF KeepsRules, Terminal, Inv, TaskInv, AttemptInv, Leaves, InAttempt
<1> QED BY <1>1, <1>2, <1>3, <1>4 DEF Inv

(* A step of run() that leaves the tasks alone. *)
LEMMA IdleStep ==
  ASSUME Inv, NEW r \in Runner, NEW place \in Place, SaveAndGo(r, place),
         \/ place.pc \in {"idle", "loop"}
         \/ InAgent(r) /\ InAgent(r)' /\ place.task = run[r].task,
         UNCHANGED <<planVars, status, attempts, completed, blocked, pending,
                     approvals, awaiting>>,
         lifecycle' \in Lifecycles \ {"paused"}, totalSteps' \in Nat
  PROVE  Inv' /\ KeepsRules
<1>1. TaskInv'
  BY SameTasks DEF Inv, planVars
<1>2. run'[r] = place /\ Fresh(r)
  BY DEF SaveAndGo, Inv, Types
<1>3. InAgent(r) => run[r].task \in Task /\ status[run[r].task] = "waiting-agent"
  BY <1>2 DEF Fresh, Inv, RunnerInv
<1>4. /\ run' \in [Runner -> Place] /\ fresh' \in SUBSET Runner
      /\ RunnerInv' /\ PauseInv'
  BY <1>2, <1>3, SavingKeeps DEF Inv, InAgent, At
<1>5. Types'
  BY <1>4 DEF Types, Inv, planVars
<1>6. KeepsRules
  BY DEF KeepsRules
<1> QED BY <1>1, <1>4, <1>5, <1>6 DEF Inv

(* A step of run() that saves nothing: the tasks stay, and a runner that   *)
(* is current afterwards was current before or is at the head of the loop. *)
LEMMA UnsavedStep ==
  ASSUME Inv, NEW r \in Runner, NEW place \in Place, UNCHANGED state,
         run' = [run EXCEPT ![r] = place],
         fresh' \in SUBSET Runner, fresh' \subseteq fresh \union {r},
         lifecycle = "paused" => fresh' \subseteq fresh,
         r \notin fresh' \/ place.pc \in {"idle", "loop"}
           \/ (place.pc = "again" /\ place.task \in Task
                 /\ status[place.task] = "waiting-agent")
  PROVE  Inv' /\ KeepsRules
<1>1. TaskInv'
  BY SameTasks DEF Inv, state
<1>2. Types'
  BY DEF Inv, Types, state
<1>3. RunnerInv'
  <2> SUFFICES ASSUME NEW q \in Runner, q \in fresh'
               PROVE  /\ At(q, "started")' =>
                           run'[q].task \in Task /\ status'[run'[q].task] = "running"
                      /\ InAgent(q)' =>
                           run'[q].task \in Task /\ status'[run'[q].task] = "waiting-agent"
    BY DEF RunnerInv
  <2>1. CASE q = r
    <3>1. run'[q] = place /\ status' = status
      BY <2>1 DEF Inv, Types, state
    <3> QED BY <2>1, <3>1 DEF At, InAgent
  <2>2. CASE q # r
    <3>1. run'[q] = run[q] /\ status' = status /\ q \in fresh
      BY <2>2 DEF Inv, Types, state
    <3> QED BY <3>1 DEF At, InAgent, Inv, RunnerInv
  <2> QED BY <2>1, <2>2
<1>4. PauseInv'
  BY DEF Inv, PauseInv, state
<1>5. KeepsRules
  BY DEF KeepsRules, state
<1> QED BY <1>1, <1>2, <1>3, <1>4, <1>5 DEF Inv

(* StartTask takes a ready task of the graph, which has attempts left. *)
LEMMA StartKeeps ==
  ASSUME Inv, NEW r \in Runner, StartTask(r)
  PROVE  Inv' /\ KeepsRules
<1>1. PICK t \in Ids(order) :
        /\ IsFirst(t, ReadyTasks)
        /\ status' = [status EXCEPT ![t] = "running"]
        /\ attempts' = [attempts EXCEPT ![t] = @ + 1]
        /\ SaveAndGo(r, [run[r] EXCEPT !.pc = "started", !.task = t, !.left = @ - 1,
                                       !.saved = TRUE])
  BY DEF StartTask
<1> DEFINE place == [run[r] EXCEPT !.pc = "started", !.task = t, !.left = @ - 1,
                                   !.saved = TRUE]
<1>2. /\ totalSteps' = totalSteps + 1 /\ lifecycle' = Life(r)
      /\ UNCHANGED <<planVars, completed, blocked, pending, approvals, awaiting>>
      /\ run[r].left > 0
  BY DEF StartTask, Iterates
<1>3. t \in Task /\ status[t] = "pending"
  BY <1>1 DEF IsFirst, ReadyTasks, Ready, Ids, Inv, Types
<1>4. /\ status' \in [Task -> Statuses] /\ status'[t] = "running"
      /\ attempts' \in [Task -> Nat] /\ attempts'[t] = attempts[t] + 1
      /\ \A u \in Task \ {t} : status'[u] = status[u] /\ attempts'[u] = attempts[u]
  BY <1>1, <1>3 DEF Inv, Types, Statuses
<1>5. place \in Place /\ place.pc = "started" /\ place.task = t
  <2>1. run[r] \in Place /\ run[r].left - 1 \in Nat
    BY <1>2 DEF Inv, Types, Place
  <2>2. \A p \in Place, n \in Nat :
          LET q == [p EXCEPT !.pc = "started", !.task = t, !.left = n, !.saved = TRUE]
          IN q \in Place /\ q.pc = "started" /\ q.task = t
    BY <1>3 DEF Place, Places
  <2> QED BY <2>1, <2>2
<1>6. lifecycle' \in Lifecycles \ {"paused"}
  BY <1>1, <1>2, LifeNotPaused DEF SaveAndGo, Inv
<1>7. /\ run' \in [Runner -> Place] /\ fresh' \in SUBSET Runner
      /\ RunnerInv' /\ PauseInv'
  <2> HIDE DEF place
  <2> QED BY <1>1, <1>3, <1>4, <1>5, <1>6, SavingKeeps DEF Inv, place
<1>8. OneActionPerWait' /\ OnePacketPerWait' /\ BlockedListed'
  BY <1>2, <1>3, <1>4 DEF Inv, TaskInv, OneActionPerWait, OnePacketPerWait, BlockedListed,
                          Types
<1>9. AttemptInv'
  <2> SUFFICES ASSUME NEW u \in Task
               PROVE  /\ attempts'[u] <= MaxAttempts[u] + approvals[u]
                      /\ status'[u] = "pending" => attempts'[u] < MaxAttempts[u] + approvals[u]
                      /\ u \notin Ids(order) => status'[u] = "absent" /\ attempts'[u] = 0
    BY <1>2 DEF AttemptInv, planVars, Ids
  <2>1. /\ attempts[u] <= MaxAttempts[u] + approvals[u]
        /\ status[u] = "pending" => attempts[u] < MaxAttempts[u] + approvals[u]
        /\ u \notin Ids(order) => status[u] = "absent" /\ attempts[u] = 0
    BY DEF Inv, TaskInv, AttemptInv
  <2>2. attempts[u] \in Nat /\ approvals[u] \in Nat /\ MaxAttempts[u] \in Nat \ {0}
    BY RuntimeAssumption DEF Inv, Types
  <2> QED BY <1>1, <1>3, <1>4, <2>1, <2>2
<1>10. GateInv'
  BY <1>2, <1>3, <1>4 DEF Inv, TaskInv, GateInv
<1>11. Types'
  BY <1>2, <1>4, <1>6, <1>7 DEF Inv, Types, planVars
<1>12. KeepsRules
  <2>1. lifecycle # "paused"
    BY <1>1 DEF SaveAndGo, Fresh, Inv, PauseInv
  <2> QED BY <1>3, <1>4, <2>1 DEF KeepsRules, Terminal
<1> QED BY <1>7, <1>8, <1>9, <1>10, <1>11, <1>12 DEF Inv, TaskInv

(* Delegate puts the running task to wait for its agent with one packet. *)
LEMMA DelegateKeeps ==
  ASSUME Inv, NEW r \in Runner, Delegate(r)
  PROVE  Inv' /\ KeepsRules
<1> DEFINE t == run[r].task
           place == IF AssignedAgent[t] \in run[r].executors
                      THEN [run[r] EXCEPT !.pc = "agent"] ELSE Idle
<1>1. /\ At(r, "started") /\ TaskType[t] \in {"agent", "verifier"}
      /\ status' = [status EXCEPT ![t] = "waiting-agent"]
      /\ awaiting' = [awaiting EXCEPT ![t] = @ + 1]
      /\ lifecycle' = Life(r)
      /\ SaveAndGo(r, place) /\ Fresh(r)
      /\ UNCHANGED <<planVars, attempts, completed, blocked, pending, approvals, totalSteps>>
  BY DEF Delegate, SaveAndGo
<1>2. t \in Task /\ status[t] = "running" /\ awaiting[t] = 0
  BY <1>1, RunnerInAttempt DEF Inv, RunnerInv, Fresh
<1>3. /\ status' \in [Task -> Statuses] /\ status'[t] = "waiting-agent"
      /\ awaiting' \in [Task -> Nat] /\ awaiting'[t] = 1
      /\ \A u \in Task \ {t} : status'[u] = status[u] /\ awaiting'[u] = awaiting[u]
  BY <1>1, <1>2 DEF Inv, Types, Statuses
<1>4. place \in Place /\ (place.pc = "idle" \/ (place.pc = "agent" /\ place.task = t))
  <2>1. run[r] \in Place
    BY DEF Inv, Types
  <2> QED BY <2>1, PlacesTyped DEF Place, Places, Idle
<1>5. lifecycle' \in Lifecycles \ {"paused"}
  BY <1>1, LifeNotPaused DEF Inv
<1>6. /\ run' \in [Runner -> Place] /\ fresh' \in SUBSET Runner
      /\ RunnerInv' /\ PauseInv'
  <2> HIDE DEF place
  <2> QED BY <1>1, <1>2, <1>3, <1>4, <1>5, SavingKeeps DEF Inv
<1>7. OneActionPerWait' /\ OnePacketPerWait' /\ BlockedListed'
  BY <1>1, <1>2, <1>3 DEF Inv, TaskInv, OneActionPerWait, OnePacketPerWait, BlockedListed,
                          Types
<1>8. AttemptInv'
  BY <1>1, <1>2, <1>3 DEF Inv, TaskInv, AttemptInv, planVars, Ids
<1>9. GateInv'
  BY <1>1, <1>2, <1>3 DEF Inv, TaskInv, GateInv
<1>10. Types'
  BY <1>1, <1>3, <1>5, <1>6 DEF Inv, Types, planVars
<1>11. KeepsRules
  BY <1>1, <1>2, <1>3 DEF KeepsRules, Terminal
<1> QED BY <1>6, <1>7, <1>8, <1>9, <1>10, <1>11 DEF Inv, TaskInv

(* An attempt that ends with an exception. *)
LEMMA RaisedKeeps ==
  ASSUME Inv, NEW r \in Runner, Raised(r), At(r, "started") \/ InAgent(r),
         UNCHANGED <<planVars, attempts, approvals>>,
         ResolvePacket(run[r].task) \/ (At(r, "started") /\ UNCHANGED awaiting),
         totalSteps' \in Nat
  PROVE  Inv' /\ KeepsRules
<1> DEFINE t == run[r].task
<1>1. Fresh(r)
  BY DEF Raised, SaveAndGo
<1>2. InAttempt(t) /\ (ResolvePacket(t) \/ (UNCHANGED awaiting /\ awaiting[t] = 0))
  BY <1>1, RunnerInAttempt
<1>3. Life(r) \in Lifecycles \ {"paused"}
  BY <1>1, LifeNotPaused DEF Inv
<1>4. InLoop(r) \in Place /\ Idle \in Place /\ InLoop(r).pc = "loop" /\ Idle.pc = "idle"
  <2>1. run[r] \in Place
    BY DEF Inv, Types
  <2> QED BY <2>1, PlacesTyped DEF Inv, InLoop, Idle, Place
<1>5. PICK place \in {Idle, InLoop(r)} :
        SaveAndGo(r, place) /\ (Handoff(t) \/ Fail(t, Life(r)))
  BY DEF Raised
<1>6. Leaves(t)
  BY <1>2, <1>5, FailLeaves, HandoffLeaves DEF Inv
<1>7. lifecycle' \in Lifecycles \ {"paused"}
  BY <1>3, <1>5 DEF Handoff, Fail, Block, Lifecycles
<1> HIDE DEF t
<1> QED BY <1>2, <1>4, <1>5, <1>6, <1>7, LeavingStep

(* An observation applied by run() itself. *)
LEMMA ObservedKeeps ==
  ASSUME Inv, NEW r \in Runner, NEW place \in {Idle, InLoop(r)}, SaveAndGo(r, place),
         (At(r, "started") /\ IsTool(run[r].task)) \/ InAgent(r),
         NEW outcome, NEW p \in Proposal \union {NoProposal},
         ApplyObservation(run[r].task, outcome, p, Life(r)),
         UNCHANGED <<attempts, approvals>>,
         ResolvePacket(run[r].task) \/ (At(r, "started") /\ UNCHANGED awaiting),
         totalSteps' \in Nat
  PROVE  Inv' /\ KeepsRules
<1> DEFINE t == run[r].task
<1>1. Fresh(r)
  BY DEF SaveAndGo
<1>2. /\ InAttempt(t) /\ t \in Ids(order)
      /\ ResolvePacket(t) \/ (UNCHANGED awaiting /\ awaiting[t] = 0)
      /\ TaskType[t] # "human_gate"
  BY <1>1, RunnerInAttempt DEF IsTool
<1>3. Leaves(t)
  BY <1>2, ObservationLeaves DEF Inv
<1>4. lifecycle' \in Lifecycles \ {"paused"}
  BY <1>1, LifeNotPaused, ObservationLife DEF Inv, Lifecycles
<1>5. place \in Place /\ place.pc \in {"idle", "loop"}
  <2>1. Idle \in Place /\ InLoop(r) \in Place /\ run[r] \in Place
    BY PlacesTyped DEF Inv, Types
  <2>2. Idle.pc = "idle" /\ InLoop(r).pc = "loop"
    BY <2>1 DEF InLoop, Idle, Place
  <2> QED BY <2>1, <2>2
<1> HIDE DEF t
<1> QED BY <1>2, <1>3, <1>4, <1>5, LeavingStep

(* Every step of run() and of the agents it executes. *)
LEMMA RunStepKeeps ==
  ASSUME Inv, NEW r \in Runner, StartRun(r) \/ RunStep(r) \/ AgentCallsTool(r) \/ Crash(r)
  PROVE  Inv' /\ KeepsRules
<1>1. /\ run \in [Runner -> Place] /\ run[r] \in Place /\ totalSteps \in Nat
      /\ lifecycle \in Lifecycles /\ fresh \in SUBSET Runner
      /\ Idle \in Place /\ Idle.pc = "idle"
      /\ InLoop(r) \in Place /\ InLoop(r).pc = "loop"
  <2>1. InLoop(r).pc = "loop"
    BY DEF Inv, Types, InLoop, Place
  <2> QED BY <2>1, PlacesTyped DEF Inv, Types, Idle
<1>2. totalSteps + run[r].unsaved \in Nat
  BY <1>1 DEF Place
<1>3. Fresh(r) => Life(r) \in Lifecycles \ {"paused"}
  BY LifeNotPaused DEF Inv
<1>4. CASE Yield(r)
  BY <1>1, <1>3, <1>4, IdleStep DEF Yield, SaveAndGo
<1>5. CASE ExhaustSteps(r)
  BY <1>1, <1>5, IdleStep DEF ExhaustSteps, Lifecycles
<1>6. CASE StartTask(r)
  BY <1>6, StartKeeps
<1>7. CASE ResumeAgent(r)
  <2>1. PICK t \in Ids(order) :
          /\ IsFirst(t, Resumable(r))
          /\ run' = [run EXCEPT ![r].pc = "again", ![r].task = t, ![r].left = @ - 1,
                                ![r].unsaved = 1]
    BY <1>7 DEF ResumeAgent
  <2>2. t \in Task /\ status[t] = "waiting-agent"
    BY <2>1 DEF IsFirst, Resumable, Ids, Inv, Types
  <2>3. run[r].left - 1 \in Nat
    BY <1>1, <1>7 DEF ResumeAgent, Iterates, Place
  <2>4. \A q \in Place, n \in Nat :
          LET place == [q EXCEPT !.pc = "again", !.task = t, !.left = n, !.unsaved = 1]
          IN place \in Place /\ place.pc = "again" /\ place.task = t
    BY <2>2 DEF Place, Places
  <2> DEFINE place == [run[r] EXCEPT !.pc = "again", !.task = t, !.left = @ - 1,
                                     !.unsaved = 1]
  <2>5. place \in Place /\ place.pc = "again" /\ place.task = t
    BY <1>1, <2>3, <2>4
  <2>6. run' = [run EXCEPT ![r] = place]
    BY <1>1, <2>1
  <2> HIDE DEF place
  <2> QED BY <1>1, <1>7, <2>2, <2>5, <2>6, UnsavedStep DEF ResumeAgent, Inv
<1>8. CASE FailMissingPacket(r)
  <2>1. PICK t \in Ids(order) :
          IsFirst(t, Resumable(r)) /\ awaiting[t] = 0 /\ Fail(t, Life(r))
    BY <1>8 DEF FailMissingPacket
  <2>2. InAttempt(t)
    BY <2>1 DEF IsFirst, Resumable, InAttempt, Ids, Inv, Types
  <2> DEFINE place == [InLoop(r) EXCEPT !.left = @ - 1]
  <2>3. SaveAndGo(r, place)
        /\ UNCHANGED <<planVars, attempts, approvals, awaiting>>
        /\ totalSteps' = totalSteps + 1
    BY <1>8 DEF FailMissingPacket
  <2>4. InLoop(r).left - 1 \in Nat
    BY <1>1, <1>8 DEF FailMissingPacket, Iterates, InLoop, Place
  <2>5. place \in Place /\ place.pc = "loop"
    <3>1. \A q \in Place, n \in Nat :
            [q EXCEPT !.left = n] \in Place /\ [q EXCEPT !.left = n].pc = q.pc
      BY DEF Place
    <3> QED BY <1>1, <2>4, <3>1
  <2>6. Leaves(t)
    BY <2>1, <2>2, <2>3, FailLeaves DEF Inv
  <2>7. lifecycle' \in Lifecycles \ {"paused"}
    BY <1>3, <2>1, <2>3 DEF SaveAndGo, Fail, Block, Lifecycles
  <2> HIDE DEF place
  <2>8. totalSteps' \in Nat /\ UNCHANGED <<attempts, approvals>> /\ UNCHANGED awaiting
    BY <1>1, <2>3
  <2> QED BY <2>8, <2>1, <2>2, <2>3, <2>5, <2>6, <2>7, LeavingStep
<1>9. CASE StopRun(r)
  <2>1. StopStatus \in Lifecycles \ {"paused"}
    BY DEF StopStatus, Lifecycles
  <2> QED BY <1>1, <1>9, <2>1, IdleStep DEF StopRun
<1>10. CASE OpenGate(r)
  <2>1. /\ At(r, "started") /\ Handoff(run[r].task) /\ SaveAndGo(r, Idle)
        /\ UNCHANGED <<planVars, attempts, approvals, awaiting, totalSteps>>
    BY <1>10 DEF OpenGate
  <2>2. InAttempt(run[r].task) /\ awaiting[run[r].task] = 0
    BY <2>1, RunnerInAttempt DEF SaveAndGo
  <2>3. Leaves(run[r].task)
    BY <2>1, <2>2, HandoffLeaves DEF Inv
  <2>4. lifecycle' \in Lifecycles \ {"paused"}
    BY <2>1 DEF Handoff, Lifecycles
  <2> QED BY <1>1, <2>1, <2>2, <2>3, <2>4, LeavingStep
<1>11. CASE Delegate(r)
  BY <1>11, DelegateKeeps
<1>12. CASE ToolReturns(r)
  BY <1>1, <1>12, ObservedKeeps DEF ToolReturns
<1>13. CASE ToolRaises(r)
  BY <1>1, <1>13, RaisedKeeps DEF ToolRaises
<1>14. CASE AgentReturns(r)
  <2>1. PICK outcome \in Outcomes : \E p \in ProposalsWith(outcome) :
          ApplyObservation(run[r].task, outcome, p, Life(r))
    BY <1>14 DEF AgentReturns
  <2>2. PICK p \in ProposalsWith(outcome) :
          ApplyObservation(run[r].task, outcome, p, Life(r))
    BY <2>1
  <2>3. p \in Proposal \union {NoProposal}
    BY ProposalTyped
  <2>4. PICK place \in {Idle, InLoop(r)} : SaveAndGo(r, place)
    BY <1>14 DEF AgentReturns
  <2> QED BY <1>2, <1>14, <2>2, <2>3, <2>4, ObservedKeeps DEF AgentReturns
<1>15. CASE AgentRaises(r)
  BY <1>2, <1>15, RaisedKeeps DEF AgentRaises
<1>16. CASE AgentCallsTool(r)
  <2> DEFINE place == [run[r] EXCEPT !.unsaved = 0, !.saved = TRUE]
  <2>1. place \in Place /\ place.pc = run[r].pc /\ place.task = run[r].task
    BY <1>1 DEF Place
  <2>2. /\ InAgent(r) /\ SaveAndGo(r, place) /\ lifecycle' = Life(r)
        /\ totalSteps' \in Nat
        /\ UNCHANGED <<planVars, status, attempts, completed, blocked, pending,
                       approvals, awaiting>>
    BY <1>2, <1>16 DEF AgentCallsTool
  <2> HIDE DEF place
  <2>3. InAgent(r)'
    BY <1>1, <2>1, <2>2 DEF InAgent, At, SaveAndGo
  <2> QED BY <1>3, <2>1, <2>2, <2>3, IdleStep DEF SaveAndGo
<1>17. CASE EscapeRun(r) \/ Conflict(r) \/ Crash(r)
  <2>1. /\ run' = [run EXCEPT ![r] = Idle] /\ UNCHANGED state
        /\ fresh' \subseteq fresh /\ fresh' \in SUBSET Runner
    BY <1>1, <1>17 DEF EscapeRun, Conflict, Crash
  <2> QED BY <1>1, <2>1, UnsavedStep DEF Inv
<1>18. CASE ReturnPaused(r)
  BY <1>1, <1>18, UnsavedStep DEF ReturnPaused
<1>19. CASE StartRun(r)
  <2>1. PICK agents \in Executors :
          run' = [run EXCEPT ![r] = [Idle EXCEPT !.pc = "loop", !.left = MaxSteps,
                                                 !.executors = agents]]
    BY <1>19 DEF StartRun
  <2> DEFINE place == [Idle EXCEPT !.pc = "loop", !.left = MaxSteps, !.executors = agents]
  <2>2. place \in Place /\ place.pc = "loop"
    BY RuntimeAssumption DEF Idle, Place, Places
  <2>3. run' = [run EXCEPT ![r] = place]
    BY <2>1
  <2> HIDE DEF place
  <2> QED BY <1>1, <1>19, <2>2, <2>3, UnsavedStep DEF StartRun
<1> QED BY <1>4, <1>5, <1>6, <1>7, <1>8, <1>9, <1>10, <1>11, <1>12, <1>13, <1>14, <1>15,
           <1>16, <1>17, <1>18, <1>19 DEF RunStep

-----------------------------------------------------------------------------
(* The other operations of the command line.                               *)

(* A command that leaves the tasks alone. *)
LEMMA CommandStep ==
  ASSUME Inv, SaveByCommand, run' \in [Runner -> Place],
         lifecycle' \in Lifecycles,
         UNCHANGED <<planVars, status, attempts, completed, blocked, pending, approvals,
                     awaiting, totalSteps>>
  PROVE  Inv' /\ KeepsRules
<1>1. TaskInv'
  BY SameTasks DEF Inv, planVars
<1>2. fresh' \in SUBSET Runner /\ RunnerInv' /\ PauseInv'
  BY CommandKeeps DEF Inv
<1>3. Types'
  BY <1>2 DEF Inv, Types, planVars
<1>4. KeepsRules
  BY DEF KeepsRules
<1> QED BY <1>1, <1>2, <1>3, <1>4 DEF Inv

(* decide() meets a task that still waits for its person. *)
LEMMA DecisionKeeps ==
  ASSUME Inv, NEW t \in Task, Approve(t) \/ Reject(t)
  PROVE  Inv' /\ KeepsRules
<1>1. /\ status[t] = "waiting-human" /\ pending[t] = 1
      /\ pending' = [pending EXCEPT ![t] = @ - 1]
  BY DEF Approve, Reject, Decide, Inv, TaskInv, OneActionPerWait
<1>2. /\ pending' \in [Task -> Nat] /\ pending'[t] = 0
      /\ \A u \in Task \ {t} : pending'[u] = pending[u]
  BY <1>1 DEF Inv, Types
<1>3. /\ SaveByCommand /\ UNCHANGED <<planVars, attempts, awaiting, totalSteps,
                                      run>>
  BY DEF Approve, Reject
<1>4. fresh' \in SUBSET Runner /\ RunnerInv' /\ PauseInv'
  BY <1>3, CommandKeeps DEF Inv, Types
<1>5. /\ status' \in [Task -> Statuses]
      /\ status'[t] \in {"complete", "pending", "blocked"}
      /\ \A u \in Task \ {t} : status'[u] = status[u]
      /\ blocked' = IF status'[t] = "blocked" THEN blocked \union {t} ELSE blocked
  BY DEF Approve, Reject, Complete, Block, Inv, Types, Statuses
<1>6. /\ approvals' \in [Task -> Nat]
      /\ \A u \in Task : approvals'[u] >= approvals[u]
      /\ status'[t] # "blocked" => approvals'[t] = approvals[t] + 1
      /\ \A u \in Task \ {t} : approvals'[u] = approvals[u]
  <2>1. CASE Approve(t)
    BY <2>1 DEF Approve, Inv, Types
  <2>2. CASE Reject(t)
    BY <2>2 DEF Reject, Block, Inv, Types
  <2> QED BY <2>1, <2>2
<1>7. /\ completed' \in SUBSET Task /\ completed' \subseteq completed \union {t}
      /\ status'[t] = "blocked" => completed' = completed
      /\ lifecycle' \in Lifecycles
  BY <1>1 DEF Approve, Reject, Complete, Block, Inv, Types, Lifecycles
<1>8. Types'
  BY <1>2, <1>3, <1>4, <1>5, <1>6, <1>7 DEF Inv, Types, planVars
<1>9. OneActionPerWait' /\ OnePacketPerWait'
  BY <1>1, <1>2, <1>3, <1>5 DEF Inv, TaskInv, OneActionPerWait, OnePacketPerWait
<1>10. BlockedListed'
  BY <1>1, <1>5 DEF Inv, TaskInv, BlockedListed
<1>11. AttemptInv'
  <2> SUFFICES ASSUME NEW u \in Task
               PROVE  /\ attempts[u] <= MaxAttempts[u] + approvals'[u]
                      /\ status'[u] = "pending" => attempts[u] < MaxAttempts[u] + approvals'[u]
                      /\ u \notin Ids(order) => status'[u] = "absent" /\ attempts[u] = 0
    BY <1>3 DEF AttemptInv, planVars, Ids
  <2>1. /\ attempts[u] <= MaxAttempts[u] + approvals[u]
        /\ status[u] = "pending" => attempts[u] < MaxAttempts[u] + approvals[u]
        /\ u \notin Ids(order) => status[u] = "absent" /\ attempts[u] = 0
    BY DEF Inv, TaskInv, AttemptInv
  <2>2. /\ attempts[u] \in Nat /\ approvals[u] \in Nat /\ approvals'[u] \in Nat
        /\ MaxAttempts[u] \in Nat
    BY <1>6, RuntimeAssumption DEF Inv, Types
  <2> QED BY <1>1, <1>5, <1>6, <2>1, <2>2
<1>12. GateInv'
  <2>1. \A u \in Task : approvals[u] \in Nat
    BY DEF Inv, Types
  <2> QED BY <1>1, <1>5, <1>6, <1>7, <2>1 DEF Inv, TaskInv, GateInv
<1>13. KeepsRules
  BY <1>1, <1>3, <1>5 DEF KeepsRules, Terminal
<1> QED BY <1>4, <1>8, <1>9, <1>10, <1>11, <1>12, <1>13 DEF Inv, TaskInv

(* observe_agent applies an observation to a task that waits for it. *)
LEMMA ObserveAgentKeeps ==
  ASSUME Inv, NEW t \in Task, ObserveAgent(t)
  PROVE  Inv' /\ KeepsRules
<1>1. PICK outcome \in Outcomes : \E p \in ProposalsWith(outcome) :
        ApplyObservation(t, outcome, p, lifecycle)
  BY DEF ObserveAgent
<1>2. PICK p \in ProposalsWith(outcome) : ApplyObservation(t, outcome, p, lifecycle)
  BY <1>1
<1>3. /\ InAttempt(t) /\ t \in Ids(order) /\ TaskType[t] # "human_gate"
      /\ p \in Proposal \union {NoProposal}
  BY ProposalTyped DEF ObserveAgent, InAttempt, Inv, TaskInv, AttemptInv, GateInv
<1>4. Leaves(t)
  BY <1>2, <1>3, ObservationLeaves DEF Inv
<1>5. /\ ResolvePacket(t) /\ SaveByCommand
      /\ UNCHANGED <<attempts, approvals, totalSteps, run>>
  BY DEF ObserveAgent
<1>6. /\ TaskInv'
      /\ blocked' \in SUBSET Task /\ pending' \in [Task -> Nat]
      /\ awaiting' \in [Task -> Nat]
  BY <1>3, <1>4, <1>5, LeavingKeeps DEF Inv
<1>7. fresh' \in SUBSET Runner /\ RunnerInv' /\ PauseInv'
  BY <1>5, CommandKeeps DEF Inv, Types
<1>8. lifecycle' \in Lifecycles
  BY <1>2, ObservationLife DEF Inv, Types, Lifecycles
<1>9. Types'
  BY <1>4, <1>5, <1>6, <1>7, <1>8 DEF Inv, Types, Leaves
<1>10. KeepsRules
  BY <1>3, <1>4, <1>5 DEF KeepsRules, Terminal, Inv, TaskInv, AttemptInv, Leaves, InAttempt
<1> QED BY <1>6, <1>7, <1>9, <1>10 DEF Inv

-----------------------------------------------------------------------------
(* The recovered state was saved as a sound one. *)
LEMMA RestoreTasks ==
  ASSUME Inv, SavedInv, Recover
  PROVE  Inv'
<1>1. PICK c \in checkpoints : Restore(c)
  BY DEF Recover
<1>2. SoundTasks(c)
  BY <1>1 DEF SavedInv
<1>3. UNCHANGED run /\ SaveByCommand
  BY DEF Recover
<1>4. fresh' \in SUBSET Runner /\ RunnerInv' /\ PauseInv'
  BY <1>3, CommandKeeps DEF Inv, Types
<1>5. Types'
  BY <1>1, <1>2, <1>3, <1>4 DEF Inv, Types, Restore, SoundTasks, SavedState
<1>6. OneActionPerWait' /\ OnePacketPerWait' /\ BlockedListed'
  BY <1>1, <1>2 DEF Restore, SoundTasks, OneActionPerWait, OnePacketPerWait, BlockedListed
<1>7. AttemptInv' /\ GateInv'
  BY <1>1, <1>2 DEF Restore, SoundTasks, AttemptInv, GateInv, Ids
<1> QED BY <1>4, <1>5, <1>6, <1>7 DEF Inv, TaskInv

(* What is saved is sound. *)
LEMMA SnapshotTasks == Inv => SoundTasks(Snapshot)
<1> SUFFICES ASSUME Inv PROVE SoundTasks(Snapshot)
  OBVIOUS
<1>1. Snapshot \in SavedState
  BY DEF Inv, Types, Snapshot, SavedState
<1>2. \A t \in Task :
        /\ Snapshot.pending[t] = IF Snapshot.status[t] = "waiting-human" THEN 1 ELSE 0
        /\ Snapshot.awaiting[t] <= 1
        /\ Snapshot.awaiting[t] = 1 => Snapshot.status[t] = "waiting-agent"
  BY DEF Inv, TaskInv, OneActionPerWait, OnePacketPerWait, Snapshot
<1>3. \A t \in Task :
        /\ Snapshot.attempts[t] <= MaxAttempts[t] + Snapshot.approvals[t]
        /\ Snapshot.status[t] = "pending" =>
             Snapshot.attempts[t] < MaxAttempts[t] + Snapshot.approvals[t]
        /\ t \notin Ids(Snapshot.order) =>
             Snapshot.status[t] = "absent" /\ Snapshot.attempts[t] = 0
  BY DEF Inv, TaskInv, AttemptInv, Snapshot
<1>4. \A t \in Task :
        /\ Snapshot.status[t] = "waiting-agent" => TaskType[t] # "human_gate"
        /\ TaskType[t] = "human_gate" /\ t \in Snapshot.completed => Snapshot.approvals[t] > 0
  BY DEF Inv, TaskInv, GateInv, Snapshot
<1>5. Snapshot.blocked = {t \in Task : Snapshot.status[t] = "blocked"}
  BY DEF Inv, TaskInv, BlockedListed, Snapshot
<1> QED BY <1>1, <1>2, <1>3, <1>4, <1>5 DEF SoundTasks

(* Only saves write checkpoints, and only of what they save. *)
LEMMA CheckpointsGrow == [Next]_vars => checkpoints' \subseteq checkpoints \union {Snapshot'}
<1> SUFFICES ASSUME [Next]_vars
             PROVE  UNCHANGED checkpoints \/ Checkpoint
  BY DEF Checkpoint
<1>1. ASSUME NEW r \in Runner, RunStep(r) \/ AgentCallsTool(r)
      PROVE  UNCHANGED checkpoints \/ Checkpoint
  <2>1. CASE \/ Yield(r) \/ ExhaustSteps(r) \/ StartTask(r) \/ FailMissingPacket(r)
             \/ StopRun(r) \/ OpenGate(r) \/ Delegate(r) \/ AgentCallsTool(r)
    BY <2>1 DEF Yield, ExhaustSteps, StartTask, FailMissingPacket, StopRun, OpenGate, Delegate,
                AgentCallsTool, SaveAndGo
  <2>2. CASE ToolReturns(r) \/ ToolRaises(r) \/ AgentReturns(r) \/ AgentRaises(r)
    BY <2>2 DEF ToolReturns, ToolRaises, AgentReturns, AgentRaises, Raised, SaveAndGo
  <2>3. CASE ResumeAgent(r) \/ EscapeRun(r) \/ Conflict(r) \/ ReturnPaused(r)
    BY <2>3 DEF ResumeAgent, EscapeRun, Conflict, ReturnPaused
  <2> QED BY <1>1, <2>1, <2>2, <2>3 DEF RunStep
<1>2. ASSUME NEW r \in Runner, StartRun(r) \/ Crash(r) \/ Resume(r)
      PROVE  UNCHANGED checkpoints \/ Checkpoint
  BY <1>2 DEF StartRun, Crash, Resume, SaveByCommand
<1>3. ASSUME NEW t \in Task, Approve(t) \/ Reject(t) \/ ObserveAgent(t)
      PROVE  UNCHANGED checkpoints \/ Checkpoint
  BY <1>3 DEF Approve, Reject, ObserveAgent, SaveByCommand
<1>4. CASE Pause \/ Reconstruct \/ Recover
  BY <1>4 DEF Pause, Reconstruct, Recover, SaveByCommand
<1>5. CASE UNCHANGED vars
  BY <1>5 DEF vars
<1> QED BY <1>1, <1>2, <1>3, <1>4, <1>5 DEF Next

LEMMA SavedInit == Init => SavedInv
<1>1. Init => checkpoints \subseteq {Snapshot}
  BY DEF Init
<1> QED BY <1>1, InvInit, SnapshotTasks DEF SavedInv

LEMMA SavedNext == Inv' /\ SavedInv /\ [Next]_vars => SavedInv'
<1>1. Inv' => SoundTasks(Snapshot)'
  BY SnapshotTasks, PTL
<1>2. SoundTasks(Snapshot)' <=> SoundTasks(Snapshot')
  BY DEF SoundTasks
<1> QED BY <1>1, <1>2, CheckpointsGrow DEF SavedInv

LEMMA InvNext ==
  Inv /\ SavedInv /\ [Next]_vars => Inv' /\ (KeepsRules \/ Recover \/ UNCHANGED vars)
<1> SUFFICES ASSUME Inv, SavedInv, [Next]_vars
             PROVE  Inv' /\ (KeepsRules \/ Recover \/ UNCHANGED vars)
  OBVIOUS
<1>1. ASSUME NEW r \in Runner, StartRun(r) \/ RunStep(r) \/ AgentCallsTool(r) \/ Crash(r)
      PROVE  Inv' /\ KeepsRules
  BY <1>1, RunStepKeeps
<1>2. ASSUME NEW r \in Runner, Resume(r)
      PROVE  Inv' /\ KeepsRules
  <2>1. run' \in [Runner -> Place]
    <3>1. \A q \in Place : [q EXCEPT !.pc = "resumed"] \in Place
      BY DEF Place, Places
    <3>2. run' = [run EXCEPT ![r] = [run[r] EXCEPT !.pc = "resumed"]]
      BY <1>2 DEF Resume
    <3> QED BY <3>1, <3>2 DEF Inv, Types
  <2> QED BY <1>2, <2>1, CommandStep DEF Resume, Lifecycles
<1>3. ASSUME NEW t \in Task, Approve(t) \/ Reject(t)
      PROVE  Inv' /\ KeepsRules
  BY <1>3, DecisionKeeps
<1>4. ASSUME NEW t \in Task, ObserveAgent(t)
      PROVE  Inv' /\ KeepsRules
  BY <1>4, ObserveAgentKeeps
<1>5. CASE Pause
  <2>1. run' \in [Runner -> Place] /\ lifecycle' \in Lifecycles
    BY <1>5 DEF Pause, Inv, Types, Lifecycles
  <2> QED BY <1>5, <2>1, CommandStep DEF Pause
<1>6. CASE Reconstruct
  <2>1. run' \in [Runner -> Place] /\ lifecycle' \in Lifecycles
    BY <1>6 DEF Reconstruct, Inv, Types, Lifecycles
  <2> QED BY <1>6, <2>1, CommandStep DEF Reconstruct
<1>7. CASE Recover
  BY <1>7, RestoreTasks
<1>8. CASE UNCHANGED vars
  <2>1. UNCHANGED <<order, deps, status, attempts, replans, completed, blocked, lifecycle,
                    pending, approvals, awaiting, totalSteps, strategyReplans,
                    fresh, run>>
    BY <1>8 DEF vars, state
  <2>2. TaskInv'
    BY <2>1, SameTasks DEF Inv
  <2>3. Types' /\ RunnerInv' /\ PauseInv'
    BY <2>1 DEF Inv, Types, RunnerInv, PauseInv, At, InAgent
  <2> QED BY <1>8, <2>2, <2>3 DEF Inv
<1> QED BY <1>1, <1>2, <1>3, <1>4, <1>5, <1>6, <1>7, <1>8 DEF Next

(* The inductive invariant, of the state and of what may be recovered. *)
THEOREM Invariance == Spec => [](Inv /\ SavedInv)
BY InvInit, InvNext, SavedInit, SavedNext, PTL DEF Spec

(* Every variable keeps its type.                                          *)
THEOREM TypeCorrect == Spec => []TypeOK
<1>1. Inv /\ SavedInv => TypeOK
  BY SnapshotTasks DEF Inv, Types, SavedInv, SoundTasks, TypeOK
<1> QED BY <1>1, Invariance, PTL

(* decide() always finds the action it was asked about still pending for a *)
(* task that still waits, and no task asks twice.                          *)
THEOREM DecisionsMatch == Spec => []OneActionPerWait
<1>1. Inv => OneActionPerWait
  BY DEF Inv, TaskInv
<1> QED BY <1>1, Invariance, PTL

(* An answer of an agent is never applied to another attempt: a packet     *)
(* awaits its observation only while its task waits for the agent.         *)
THEOREM AnswersMatch == Spec => []OnePacketPerWait
<1>1. Inv => OnePacketPerWait
  BY DEF Inv, TaskInv
<1> QED BY <1>1, Invariance, PTL

(* blocked_tasks and the statuses of the tasks agree.                      *)
THEOREM BlockedAgree == Spec => []BlockedListed
<1>1. Inv => BlockedListed
  BY DEF Inv, TaskInv
<1> QED BY <1>1, Invariance, PTL

(* The retry policy bounds the attempts of every task, up to one more per  *)
(* approval of a person.                                                   *)
THEOREM RetriesBounded == Spec => []AttemptsBounded
<1>1. Inv => AttemptsBounded
  BY DEF Inv, TaskInv, AttemptInv, AttemptsBounded
<1> QED BY <1>1, Invariance, PTL

(* No human gate is passed without an approval.                            *)
THEOREM GatesHold == Spec => []GatesNeedApproval
<1>1. Inv => GatesNeedApproval
  BY DEF Inv, Types, TaskInv, GateInv, GatesNeedApproval
<1> QED BY <1>1, Invariance, PTL

(* No task starts while the run is paused.                                 *)
THEOREM PausedStartsNothing == Spec => NoStartWhilePaused
<1>1. Inv /\ SavedInv /\ [Next]_vars =>
        [lifecycle = "paused" /\ attempts' # attempts => Recover]_vars
  BY InvNext DEF KeepsRules
<1> QED BY <1>1, Invariance, PTL DEF Spec, NoStartWhilePaused

(* Complete and superseded tasks stay that, whoever acts on an old copy:   *)
(* only a recovery takes them back, to a checkpoint from before.           *)
THEOREM FinishedStaysFinished == Spec => TerminalIsFinal
<1>1. Inv /\ SavedInv /\ [Next]_vars =>
        [(\E t \in Task : status[t] \in Terminal /\ status'[t] # status[t]) => Recover]_vars
  BY InvNext DEF KeepsRules
<1> QED BY <1>1, Invariance, PTL DEF Spec, TerminalIsFinal
-----------------------------------------------------------------------------
(***************************************************************************)
(* The plan: the graph stays one that validate_dag accepts, what is        *)
(* finished is listed as completed, superseded tasks are counted, and a    *)
(* run that is complete is done.  The first two leave no dead end: of the  *)
(* unfinished tasks one depends on no other of them, and so on completed   *)
(* tasks only.                                                             *)
(***************************************************************************)
Superseded == {t \in Task : status[t] = "superseded"}

SoundGraph(g) ==
  Acyclic(g) /\ \A t \in Ids(g.order) : g.deps[t] \subseteq Ids(g.order)

PlanInv ==
  /\ SoundGraph(TaskGraph)
  /\ \A t \in Task : status[t] \in Terminal => t \in completed
  /\ IsFiniteSet(Superseded)
  /\ Cardinality(Superseded) <= strategyReplans
  /\ Cardinality(Superseded) <= MaxRunReplans
  /\ \A t \in Task : replans[t] <= strategyReplans
  /\ CompleteMeansDone

(* The same of a saved state. *)
GraphOf(s) == [order |-> s.order, deps |-> s.deps]
Over(s) == {t \in Task : s.status[t] = "superseded"}

SoundPlan(s) ==
  /\ SoundGraph(GraphOf(s))
  /\ \A t \in Task : s.status[t] \in Terminal => t \in s.completed
  /\ IsFiniteSet(Over(s))
  /\ Cardinality(Over(s)) <= s.strategyReplans
  /\ Cardinality(Over(s)) <= MaxRunReplans
  /\ \A t \in Task : s.replans[t] <= s.strategyReplans
  /\ s.lifecycle = "complete" =>
       /\ \A t \in Ids(s.order) : s.status[t] \in Terminal
       /\ \E t \in Ids(s.order) : TaskType[t] = "final_audit"
       /\ \A t \in Ids(s.order) : TaskType[t] = "final_audit" => s.status[t] = "complete"

SavedPlan == \A c \in checkpoints : SoundPlan(c)

(* A step counts each replan, and supersedes the task that it counts only  *)
(* within the budget of the run.                                           *)
NoneSuperseded(tasks) ==
  \A u \in tasks : status'[u] = "superseded" => status[u] = "superseded"

CountedReplan(t) ==
  /\ replans' = [replans EXCEPT ![t] = @ + 1]
  /\ strategyReplans' = strategyReplans + 1
  /\ NoneSuperseded(Task \ {t})
  /\ status'[t] = "superseded" =>
       status[t] = "superseded" \/ strategyReplans + 1 <= MaxRunReplans

ReplanStep ==
  \/ UNCHANGED <<replans, strategyReplans>> /\ NoneSuperseded(Task)
  \/ \E t \in Task : CountedReplan(t)

(* What a step does to the plan.                                           *)
PlanStep ==
  /\ SoundGraph(TaskGraph) => SoundGraph(TaskGraph)'
  /\ completed \subseteq completed'
  /\ \A t \in Task : status'[t] \in Terminal => status[t] \in Terminal \/ t \in completed'
  /\ ReplanStep
  /\ lifecycle' = "complete" => lifecycle = "complete" \/ StopStatus = "complete"
  /\ Unfinished = {} => UNCHANGED <<status, order>>

(* What validate_dag accepts.                                              *)
LEMMA ValidIsSound ==
  ASSUME NEW g, ValidateDag(g) = "valid"
  PROVE  SoundGraph(g)
<1>1. Acyclic(g) /\ \A i \in DOMAIN g.order : ~Faulty(g, i)
  BY DEF ValidateDag
<1>2. \A i \in DOMAIN g.order : g.deps[g.order[i]] \subseteq Ids(g.order)
  BY <1>1 DEF Faulty, UnknownDependency
<1> QED BY <1>1, <1>2 DEF SoundGraph, Ids

LEMMA PlanInit == Init => PlanInv
<1> SUFFICES ASSUME Init PROVE PlanInv
  OBVIOUS
<1>1. SoundGraph(TaskGraph)
  BY ValidIsSound, RuntimeAssumption DEF Init, TaskGraph
<1>2. \A t \in Task : status[t] \in {"pending", "absent"}
  BY DEF Init
<1>3. Superseded = {}
  BY <1>2 DEF Superseded
<1>4. IsFiniteSet(Superseded) /\ Cardinality(Superseded) = 0
  BY <1>3, FS_EmptySet
<1>5. MaxRunReplans \in Nat
  BY RuntimeAssumption
<1> QED BY <1>1, <1>2, <1>4, <1>5 DEF Init, PlanInv, Terminal, CompleteMeansDone

(* Superseded tasks, one more at the most when a replan is counted.        *)
LEMMA SupersededBounded ==
  ASSUME Types, PlanInv, ReplanStep
  PROVE  /\ IsFiniteSet(Superseded')
         /\ Cardinality(Superseded') <= strategyReplans'
         /\ Cardinality(Superseded') <= MaxRunReplans
         /\ \A t \in Task : replans'[t] <= strategyReplans'
<1>1. /\ IsFiniteSet(Superseded) /\ Cardinality(Superseded) \in Nat
      /\ Cardinality(Superseded) <= strategyReplans
      /\ Cardinality(Superseded) <= MaxRunReplans
      /\ strategyReplans \in Nat /\ MaxRunReplans \in Nat
  BY FS_CardinalityType, RuntimeAssumption DEF PlanInv, Types
<1>2. \A t \in Task : replans[t] \in Nat /\ replans[t] <= strategyReplans
  BY DEF PlanInv, Types
<1>3. ASSUME NEW S, S \subseteq Superseded
      PROVE  IsFiniteSet(S) /\ Cardinality(S) \in Nat /\ Cardinality(S) <= Cardinality(Superseded)
  BY <1>1, <1>3, FS_Subset, FS_CardinalityType
<1>4. CASE UNCHANGED <<replans, strategyReplans>> /\ NoneSuperseded(Task)
  <2>1. Superseded' \subseteq Superseded
    BY <1>4 DEF NoneSuperseded, Superseded
  <2> QED BY <1>1, <1>2, <1>3, <1>4, <2>1
<1>5. ASSUME NEW t \in Task, CountedReplan(t)
      PROVE  /\ IsFiniteSet(Superseded')
             /\ Cardinality(Superseded') <= strategyReplans'
             /\ Cardinality(Superseded') <= MaxRunReplans
             /\ \A u \in Task : replans'[u] <= strategyReplans'
  <2>1. \A u \in Task : replans'[u] <= strategyReplans'
    BY <1>1, <1>2, <1>5 DEF CountedReplan, Types
  <2>2. CASE status'[t] = "superseded" => status[t] = "superseded"
    <3>1. Superseded' \subseteq Superseded
      BY <1>5, <2>2 DEF CountedReplan, NoneSuperseded, Superseded
    <3> QED BY <1>1, <1>3, <1>5, <2>1, <3>1 DEF CountedReplan
  <2>3. CASE status'[t] = "superseded" /\ status[t] # "superseded"
    <3> DEFINE rest == Superseded' \ {t}
    <3>1. rest \subseteq Superseded /\ Superseded' = rest \union {t} /\ t \notin rest
      BY <1>5, <2>3 DEF CountedReplan, NoneSuperseded, Superseded
    <3> HIDE DEF rest
    <3>2. IsFiniteSet(Superseded') /\ Cardinality(Superseded') = Cardinality(rest) + 1
      BY <1>3, <3>1, FS_AddElement
    <3>3. strategyReplans' = strategyReplans + 1 /\ strategyReplans + 1 <= MaxRunReplans
      BY <1>5, <2>3 DEF CountedReplan
    <3>4. Cardinality(rest) \in Nat /\ Cardinality(rest) <= Cardinality(Superseded)
      BY <1>3, <3>1
    <3> QED BY <1>1, <2>1, <3>2, <3>3, <3>4
  <2> QED BY <2>2, <2>3
<1> QED BY <1>4, <1>5 DEF ReplanStep

LEMMA PlanKept == Inv /\ PlanInv /\ PlanStep => PlanInv'
<1> SUFFICES ASSUME Inv, PlanInv, PlanStep PROVE PlanInv'
  OBVIOUS
<1>1. SoundGraph(TaskGraph)'
  BY DEF PlanInv, PlanStep
<1>2. \A t \in Task : status'[t] \in Terminal => t \in completed'
  BY DEF PlanInv, PlanStep
<1>3. /\ IsFiniteSet(Superseded') /\ Cardinality(Superseded') <= strategyReplans'
      /\ Cardinality(Superseded') <= MaxRunReplans
      /\ \A t \in Task : replans'[t] <= strategyReplans'
  BY SupersededBounded DEF PlanStep, Inv
<1>4. CompleteMeansDone'
  <2> SUFFICES ASSUME lifecycle' = "complete" PROVE (Unfinished = {} /\ AuditPassed)'
    BY DEF CompleteMeansDone
  <2>1. StopStatus = "complete" => Unfinished = {} /\ AuditPassed
    BY DEF StopStatus
  <2>2. Unfinished = {} /\ AuditPassed
    BY <2>1 DEF PlanStep, PlanInv, CompleteMeansDone
  <2>3. UNCHANGED <<status, order>>
    BY <2>2 DEF PlanStep
  <2> QED BY <2>2, <2>3 DEF Unfinished, AuditPassed, FinalAudits
<1> QED BY <1>1, <1>2, <1>3, <1>4 DEF PlanInv
-----------------------------------------------------------------------------
(* The steps that do to the plan what PlanStep allows.                     *)

(* A task that is in the graph and not finished. *)
Open(t) == t \in Task /\ t \in Ids(order) /\ status[t] \notin Terminal

LEMMA OpenUnfinished ==
  ASSUME NEW t, Open(t)
  PROVE  Unfinished # {}
BY DEF Open, Unfinished

LEMMA InAttemptOpen ==
  ASSUME Inv, NEW t, InAttempt(t)
  PROVE  Open(t)
BY DEF Open, InAttempt, Terminal, Inv, TaskInv, AttemptInv

(* The tasks stay as they are.                                             *)
LEMMA StillStep ==
  ASSUME UNCHANGED <<planVars, status, completed>>,
         lifecycle' = "complete" => lifecycle = "complete" \/ StopStatus = "complete"
  PROVE  PlanStep
<1>1. SoundGraph(TaskGraph) => SoundGraph(TaskGraph)'
  BY DEF SoundGraph, TaskGraph, planVars, Acyclic, Ids
<1>2. ReplanStep
  BY DEF ReplanStep, NoneSuperseded, planVars
<1> QED BY <1>1, <1>2 DEF PlanStep, planVars

(* One open task gets another status, and is completed if it is finished.  *)
LEMMA OneTaskStep ==
  ASSUME Types, NEW t, Open(t), NEW s, s # "superseded",
         status' = [status EXCEPT ![t] = s], UNCHANGED planVars,
         completed \subseteq completed', s \in Terminal => t \in completed',
         lifecycle' = "complete" => lifecycle = "complete"
  PROVE  PlanStep
<1>1. SoundGraph(TaskGraph) => SoundGraph(TaskGraph)'
  BY DEF SoundGraph, TaskGraph, planVars, Acyclic, Ids
<1>2. \A u \in Task : status'[u] = IF u = t THEN s ELSE status[u]
  BY DEF Types, Open
<1>3. ReplanStep
  BY <1>2 DEF ReplanStep, NoneSuperseded, planVars
<1>4. Unfinished # {}
  BY OpenUnfinished
<1> QED BY <1>1, <1>2, <1>3, <1>4 DEF PlanStep

(* Tasks are merged while t is open, and t is completed.                   *)
LEMMA MergeStep ==
  ASSUME Types, NEW t, Open(t), NEW p \in Proposal,
         MergeResult(TaskGraph, p) = "merged", Merge(p),
         completed' = completed \union {t},
         \/ UNCHANGED <<replans, strategyReplans>> /\ status' = MergedStatus(p)
         \/ /\ replans' = [replans EXCEPT ![t] = @ + 1] /\ strategyReplans' = strategyReplans + 1
            /\ strategyReplans + 1 <= MaxRunReplans
            /\ status' = [MergedStatus(p) EXCEPT ![t] = "superseded"],
         lifecycle' = "complete" => lifecycle = "complete"
  PROVE  PlanStep
<1>1. SoundGraph(TaskGraph)'
  <2>1. SoundGraph(Extended(TaskGraph, p))
    BY ValidIsSound DEF MergeResult
  <2>2. TaskGraph' = [order |-> Extended(TaskGraph, p).order, deps |-> Extended(TaskGraph, p).deps]
    BY DEF Merge, TaskGraph
  <2>3. TaskGraph'.order = Extended(TaskGraph, p).order /\ TaskGraph'.deps = Extended(TaskGraph, p).deps
    BY <2>2
  <2> QED BY <2>1, <2>3 DEF SoundGraph, Acyclic
<1>2. /\ MergedStatus(p) \in [Task -> Statuses]
      /\ \A u \in Task : MergedStatus(p)[u] \in {status[u], "pending"}
  <2>1. MergedStatus(p) \in [Task -> Statuses]
    BY MergedTasks
  <2>2. \A u \in Task : MergedStatus(p)[u] \in {status[u], "pending"}
    BY DEF MergedStatus
  <2> QED BY <2>1, <2>2
<1>3. t \in Task /\ \A u \in Task \ {t} : status'[u] \in {status[u], "pending"}
  BY <1>2 DEF Open
<1>4. ReplanStep
  <2>1. CASE UNCHANGED <<replans, strategyReplans>> /\ status' = MergedStatus(p)
    BY <1>2, <2>1 DEF ReplanStep, NoneSuperseded
  <2>2. CASE /\ replans' = [replans EXCEPT ![t] = @ + 1] /\ strategyReplans' = strategyReplans + 1
             /\ strategyReplans + 1 <= MaxRunReplans
    <3>1. NoneSuperseded(Task \ {t})
      BY <1>3 DEF NoneSuperseded
    <3> QED BY <1>3, <2>2, <3>1 DEF ReplanStep, CountedReplan
  <2> QED BY <2>1, <2>2
<1>5. \A u \in Task : status'[u] \in Terminal => status[u] \in Terminal \/ u \in completed'
  BY <1>3 DEF Terminal
<1>6. Unfinished # {}
  BY OpenUnfinished
<1> QED BY <1>1, <1>4, <1>5, <1>6 DEF PlanStep

LEMMA FailStep ==
  ASSUME Types, NEW t, Open(t), NEW life, Fail(t, life), UNCHANGED planVars,
         life = "complete" => lifecycle = "complete"
  PROVE  PlanStep
<1>1. completed' = completed
  BY DEF Fail
<1>2. CASE RetryLeft(t)
  BY <1>1, <1>2, OneTaskStep DEF Fail, Terminal
<1>3. CASE ~RetryLeft(t)
  BY <1>1, <1>3, OneTaskStep DEF Fail, Block, Terminal
<1> QED BY <1>2, <1>3

LEMMA HandoffStep ==
  ASSUME Types, NEW t, Open(t), Handoff(t), UNCHANGED planVars
  PROVE  PlanStep
BY OneTaskStep DEF Handoff, Terminal

(* An observation is applied to a task in an attempt.                      *)
LEMMA ObservationStep ==
  ASSUME Types, NEW t, Open(t), NEW outcome, NEW p \in Proposal \union {NoProposal},
         NEW life, life = "complete" => lifecycle = "complete",
         ApplyObservation(t, outcome, p, life)
  PROVE  PlanStep
<1>1. CASE outcome = "PASS" /\ ObservePass(t, p, life)
  <2>1. CASE p = NoProposal /\ Complete(t) /\ lifecycle' = life /\ UNCHANGED planVars
    BY <2>1, OneTaskStep DEF Complete
  <2>2. CASE /\ p # NoProposal /\ MergeResult(TaskGraph, p) = "merged" /\ Merge(p)
             /\ status' = MergedStatus(p) /\ completed' = completed \union {t}
             /\ lifecycle' = life /\ UNCHANGED <<replans, strategyReplans>>
    BY <2>2, MergeStep
  <2>3. CASE Fail(t, life) /\ UNCHANGED planVars
    BY <2>3, FailStep
  <2> QED BY <1>1, <2>1, <2>2, <2>3 DEF ObservePass
<1>2. CASE Handoff(t) /\ UNCHANGED planVars
  BY <1>2, HandoffStep
<1>3. CASE Replan(t, p, life)
  <2>1. /\ replans' = [replans EXCEPT ![t] = @ + 1]
        /\ strategyReplans' = strategyReplans + 1
    BY <1>3 DEF Replan
  <2>2. CASE /\ ReplanBudgetLeft(t) /\ p # NoProposal
             /\ MergeResult(TaskGraph, p) = "merged" /\ Merge(p)
             /\ status' = [MergedStatus(p) EXCEPT ![t] = "superseded"]
             /\ completed' = completed \union {t} /\ lifecycle' = life
    <3>1. strategyReplans + 1 <= MaxRunReplans /\ p \in Proposal
      BY <2>2 DEF ReplanBudgetLeft
    <3> QED BY <2>1, <2>2, <3>1, MergeStep
  <2>3. CASE Handoff(t) /\ UNCHANGED <<order, deps>>
    <3>1. SoundGraph(TaskGraph) => SoundGraph(TaskGraph)'
      BY <2>3 DEF SoundGraph, TaskGraph, Acyclic, Ids
    <3>2. \A u \in Task : status'[u] = IF u = t THEN "waiting-human" ELSE status[u]
      BY <2>3 DEF Handoff, Types, Open
    <3>3. ReplanStep
      <4>1. t \in Task /\ NoneSuperseded(Task \ {t}) /\ status'[t] # "superseded"
        BY <3>2 DEF NoneSuperseded, Open
      <4> QED BY <2>1, <4>1 DEF ReplanStep, CountedReplan
    <3>4. Unfinished # {}
      BY OpenUnfinished
    <3> QED BY <2>3, <3>1, <3>2, <3>3, <3>4 DEF PlanStep, Handoff, Terminal
  <2> QED BY <1>3, <2>2, <2>3 DEF Replan
<1>4. CASE Fail(t, life) /\ UNCHANGED planVars
  BY <1>4, FailStep
<1> QED BY <1>1, <1>2, <1>3, <1>4 DEF ApplyObservation
LEMMA PlanRunStep ==
  ASSUME Inv, NEW r \in Runner, StartRun(r) \/ RunStep(r) \/ AgentCallsTool(r) \/ Crash(r)
  PROVE  PlanStep
<1> DEFINE t == run[r].task
<1>1. Life(r) = "complete" => lifecycle = "complete"
  BY DEF Life
<1>2. Fresh(r) /\ (At(r, "started") \/ InAgent(r)) => Open(t)
  BY RunnerInAttempt, InAttemptOpen
<1>3. Types /\ Ids(order) \subseteq Task
  BY DEF Inv, Types, Ids
<1> HIDE DEF t
<1>4. CASE Yield(r) \/ ExhaustSteps(r) \/ AgentCallsTool(r) \/ StopRun(r)
  <2>1. UNCHANGED <<planVars, status, completed>>
    BY <1>4 DEF Yield, ExhaustSteps, AgentCallsTool, StopRun
  <2>2. lifecycle' = "complete" => lifecycle = "complete" \/ StopStatus = "complete"
    BY <1>1, <1>4 DEF Yield, ExhaustSteps, AgentCallsTool, StopRun
  <2> QED BY <2>1, <2>2, StillStep
<1>5. CASE StartTask(r)
  <2>1. PICK u \in Ids(order) :
          IsFirst(u, ReadyTasks) /\ status' = [status EXCEPT ![u] = "running"]
    BY <1>5 DEF StartTask
  <2>2. Open(u)
    <3>1. u \in ReadyTasks
      BY <2>1 DEF IsFirst
    <3> QED BY <1>3, <3>1 DEF ReadyTasks, Ready, Open, Terminal
  <2> QED BY <1>1, <1>3, <1>5, <2>1, <2>2, OneTaskStep DEF StartTask, Terminal
<1>6. CASE ResumeAgent(r) \/ EscapeRun(r) \/ Conflict(r) \/ Crash(r) \/ StartRun(r) \/ ReturnPaused(r)
  BY <1>6, StillStep DEF ResumeAgent, EscapeRun, Conflict, Crash, StartRun, ReturnPaused, state, planVars
<1>7. CASE FailMissingPacket(r)
  <2>1. PICK u \in Ids(order) : IsFirst(u, Resumable(r)) /\ Fail(u, Life(r))
    BY <1>7 DEF FailMissingPacket
  <2>2. Open(u)
    <3>1. u \in Resumable(r)
      BY <2>1 DEF IsFirst
    <3> QED BY <1>3, <3>1 DEF Resumable, Open, Terminal
  <2> QED BY <1>1, <1>3, <1>7, <2>1, <2>2, FailStep DEF FailMissingPacket
<1>8. CASE OpenGate(r)
  <2>1. Open(t) /\ Handoff(t) /\ UNCHANGED planVars
    BY <1>2, <1>8 DEF OpenGate, SaveAndGo, t
  <2> QED BY <1>3, <2>1, HandoffStep
<1>9. CASE Delegate(r)
  <2>1. Fresh(r)
    BY <1>9 DEF Delegate, SaveAndGo
  <2>2. Open(t) /\ status' = [status EXCEPT ![t] = "waiting-agent"] /\ UNCHANGED planVars
        /\ completed' = completed /\ lifecycle' = Life(r)
    BY <1>2, <1>9, <2>1 DEF Delegate, t
  <2> QED BY <1>1, <1>3, <2>2, OneTaskStep DEF Terminal
<1>10. CASE ToolReturns(r)
  <2>1. PICK outcome \in ToolOutcomes : ApplyObservation(t, outcome, NoProposal, Life(r))
    BY <1>10 DEF ToolReturns, t
  <2>2. Open(t)
    BY <1>2, <1>10 DEF ToolReturns, SaveAndGo
  <2> QED BY <1>1, <1>3, <2>1, <2>2, ObservationStep
<1>11. CASE ToolRaises(r) \/ AgentRaises(r)
  <2>1. Raised(r) /\ UNCHANGED planVars /\ Fresh(r) /\ (At(r, "started") \/ InAgent(r))
    BY <1>11 DEF ToolRaises, AgentRaises, Raised, SaveAndGo
  <2>2. Open(t) /\ (Handoff(t) \/ Fail(t, Life(r)))
    BY <1>2, <2>1 DEF Raised, t
  <2> QED BY <1>1, <1>3, <2>1, <2>2, FailStep, HandoffStep
<1>12. CASE AgentReturns(r)
  <2>1. PICK outcome \in Outcomes : \E p \in ProposalsWith(outcome) :
          ApplyObservation(t, outcome, p, Life(r))
    BY <1>12 DEF AgentReturns, t
  <2>2. PICK p \in ProposalsWith(outcome) : ApplyObservation(t, outcome, p, Life(r))
    BY <2>1
  <2>3. p \in Proposal \union {NoProposal}
    BY ProposalTyped
  <2>4. Open(t)
    BY <1>2, <1>12 DEF AgentReturns, SaveAndGo
  <2> QED BY <1>1, <1>3, <2>2, <2>3, <2>4, ObservationStep
<1> QED BY <1>4, <1>5, <1>6, <1>7, <1>8, <1>9, <1>10, <1>11, <1>12 DEF RunStep

LEMMA PlanCommandStep ==
  ASSUME Inv, NEW t \in Task, Approve(t) \/ Reject(t) \/ ObserveAgent(t)
  PROVE  PlanStep
<1>1. Types
  BY DEF Inv
<1>2. Open(t)
  <2>1. status[t] \in {"waiting-human", "waiting-agent"}
    BY DEF Approve, Reject, ObserveAgent, Decide, Inv, TaskInv, OneActionPerWait
  <2> QED BY <2>1 DEF Open, Inv, TaskInv, AttemptInv, Terminal
<1>3. CASE Approve(t)
  <2>1. UNCHANGED planVars /\ lifecycle' = lifecycle
    BY <1>3 DEF Approve
  <2>2. CASE TaskType[t] = "human_gate"
    <3>1. status' = [status EXCEPT ![t] = "complete"] /\ completed' = completed \union {t}
      BY <1>3, <2>2 DEF Approve, Complete
    <3> QED BY <1>1, <1>2, <2>1, <3>1, OneTaskStep
  <2>3. CASE TaskType[t] # "human_gate"
    <3>1. status' = [status EXCEPT ![t] = "pending"] /\ completed' = completed
      BY <1>3, <2>3 DEF Approve
    <3> QED BY <1>1, <1>2, <2>1, <3>1, OneTaskStep DEF Terminal
  <2> QED BY <2>2, <2>3
<1>4. CASE Reject(t)
  <2>1. /\ UNCHANGED planVars /\ lifecycle' # "complete" /\ completed' = completed
        /\ status' = [status EXCEPT ![t] = "blocked"]
    BY <1>4 DEF Reject, Block
  <2> QED BY <1>1, <1>2, <2>1, OneTaskStep DEF Terminal
<1>5. CASE ObserveAgent(t)
  <2>1. PICK outcome \in Outcomes : \E p \in ProposalsWith(outcome) :
          ApplyObservation(t, outcome, p, lifecycle)
    BY <1>5 DEF ObserveAgent
  <2>2. PICK p \in ProposalsWith(outcome) : ApplyObservation(t, outcome, p, lifecycle)
    BY <2>1
  <2>3. p \in Proposal \union {NoProposal}
    BY ProposalTyped
  <2> QED BY <1>1, <1>2, <2>2, <2>3, ObservationStep
<1> QED BY <1>3, <1>4, <1>5

LEMMA RestorePlan ==
  ASSUME SavedPlan, Recover
  PROVE  PlanInv'
<1>1. PICK c \in checkpoints : Restore(c)
  BY DEF Recover
<1>2. SoundPlan(c)
  BY <1>1 DEF SavedPlan
<1>3. TaskGraph' = GraphOf(c)
  BY <1>1 DEF Restore, TaskGraph, GraphOf
<1>4. SoundGraph(TaskGraph)'
  <2>1. SoundGraph(GraphOf(c))
    BY <1>2 DEF SoundPlan
  <2> QED BY <1>3, <2>1 DEF SoundGraph, Acyclic
<1>5. Superseded' = Over(c)
  BY <1>1 DEF Restore, Superseded, Over
<1>6. CompleteMeansDone'
  BY <1>1, <1>2 DEF Restore, SoundPlan, CompleteMeansDone, Unfinished, AuditPassed, FinalAudits,
                    Ids
<1> QED BY <1>1, <1>2, <1>4, <1>5, <1>6 DEF Restore, SoundPlan, PlanInv

LEMMA SnapshotPlan == PlanInv => SoundPlan(Snapshot)
<1> SUFFICES ASSUME PlanInv PROVE SoundPlan(Snapshot)
  OBVIOUS
<1>1. GraphOf(Snapshot) = TaskGraph /\ Over(Snapshot) = Superseded
  BY DEF GraphOf, Over, Snapshot, TaskGraph, Superseded
<1>2. Snapshot.lifecycle = "complete" =>
        /\ \A t \in Ids(Snapshot.order) : Snapshot.status[t] \in Terminal
        /\ \E t \in Ids(Snapshot.order) : TaskType[t] = "final_audit"
        /\ \A t \in Ids(Snapshot.order) :
             TaskType[t] = "final_audit" => Snapshot.status[t] = "complete"
  BY DEF PlanInv, CompleteMeansDone, Unfinished, AuditPassed, FinalAudits, Snapshot
<1>3. /\ \A t \in Task : Snapshot.status[t] \in Terminal => t \in Snapshot.completed
      /\ \A t \in Task : Snapshot.replans[t] <= Snapshot.strategyReplans
      /\ Snapshot.strategyReplans = strategyReplans
  BY DEF PlanInv, Snapshot
<1> QED BY <1>1, <1>2, <1>3 DEF SoundPlan, PlanInv

LEMMA SavedPlanInit == Init => SavedPlan
<1>1. Init => checkpoints \subseteq {Snapshot}
  BY DEF Init
<1> QED BY <1>1, PlanInit, SnapshotPlan DEF SavedPlan

LEMMA SavedPlanNext == PlanInv' /\ SavedPlan /\ [Next]_vars => SavedPlan'
<1>1. PlanInv' => SoundPlan(Snapshot)'
  BY SnapshotPlan, PTL
<1>2. SoundPlan(Snapshot)' <=> SoundPlan(Snapshot')
  BY DEF SoundPlan, SoundGraph, Acyclic, GraphOf, Over
<1> QED BY <1>1, <1>2, CheckpointsGrow DEF SavedPlan

LEMMA PlanNext == Inv /\ PlanInv /\ SavedPlan /\ [Next]_vars => PlanInv'
<1> SUFFICES ASSUME Inv, [Next]_vars, ~Recover PROVE PlanStep
  BY PlanKept, RestorePlan
<1>1. ASSUME NEW r \in Runner, StartRun(r) \/ RunStep(r) \/ AgentCallsTool(r) \/ Crash(r)
      PROVE  PlanStep
  BY <1>1, PlanRunStep
<1>2. ASSUME NEW t \in Task, Approve(t) \/ Reject(t) \/ ObserveAgent(t)
      PROVE  PlanStep
  BY <1>2, PlanCommandStep
<1>3. CASE (\E r \in Runner : Resume(r)) \/ Pause \/ Reconstruct \/ UNCHANGED vars
  <2>1. UNCHANGED <<planVars, status, completed>>
    BY <1>3 DEF Resume, Pause, Reconstruct, vars, state, planVars
  <2>2. lifecycle' = "complete" => lifecycle = "complete"
    BY <1>3 DEF Resume, Pause, Reconstruct, vars, state
  <2> QED BY <2>1, <2>2, StillStep
<1> QED BY <1>1, <1>2, <1>3 DEF Next

(* The inductive invariant of the plan, on top of the one of the tasks.    *)
THEOREM PlanInvariance == Spec => [](PlanInv /\ SavedPlan)
BY Invariance, PlanInit, PlanNext, SavedPlanInit, SavedPlanNext, PTL DEF Spec

(* The strategy-replan budget of the run bounds the superseded tasks,      *)
(* through pauses, lost answers and conflicting runners, and _replan       *)
(* counts in the run what it counts in a task.                             *)
THEOREM ReplansStayBounded == Spec => []ReplansBounded
<1>1. PlanInv => ReplansBounded
  BY DEF PlanInv, ReplansBounded, Superseded
<1> QED BY <1>1, PlanInvariance, PTL

(* No graph that validate_dag accepted, extended by whatever proposals     *)
(* merge() lets through, comes to a state in which unfinished tasks only   *)
(* wait for each other.                                                    *)
THEOREM NoDeadEnds == Spec => []NoDeadEnd
<1>1. Inv /\ PlanInv => NoDeadEnd
  <2> SUFFICES ASSUME Inv, PlanInv, Unfinished # {},
                      \A t \in Unfinished : status[t] = "pending"
               PROVE  ReadyTasks # {}
    BY DEF NoDeadEnd
  <2>1. Unfinished \in SUBSET Ids(order) /\ Ids(order) \subseteq Task
    BY DEF Unfinished, Ids, Inv, Types
  <2>2. TaskGraph.order = order /\ TaskGraph.deps = deps
    BY DEF TaskGraph
  <2>3. PICK t \in Unfinished : deps[t] \cap Unfinished = {}
    BY <2>1, <2>2 DEF PlanInv, SoundGraph, Acyclic
  <2>4. deps[t] \subseteq Ids(order)
    BY <2>1, <2>2 DEF PlanInv, SoundGraph
  <2>5. deps[t] \subseteq completed
    BY <2>1, <2>3, <2>4 DEF Unfinished, PlanInv
  <2> QED BY <2>1, <2>5 DEF ReadyTasks, Ready
<1> QED BY <1>1, Invariance, PlanInvariance, PTL

(* A run that says complete has finished every task and passed every final *)
(* audit, and stays so under every later command and answer.               *)
THEOREM CompleteIsDone == Spec => []CompleteMeansDone
<1>1. PlanInv => CompleteMeansDone
  BY DEF PlanInv
<1> QED BY <1>1, PlanInvariance, PTL
-----------------------------------------------------------------------------
(***************************************************************************)
(* The release, when agents do not pass with follow-up tasks.  A task that *)
(* was started found its dependencies completed, and they stay so: merging *)
(* gives new dependencies to final tasks only, and no final task has been  *)
(* started while an agent still works.  So the completed tasks, with a     *)
(* final task that starts, are closed under dependencies, and everything   *)
(* the final task follows is among them.                                   *)
(***************************************************************************)
Started(t) == status[t] \notin {"absent", "pending"}

ReleaseInv ==
  /\ AuditedGraph(TaskGraph)
  /\ \A t \in completed : status[t] \in Terminal
  /\ \A t \in Task : Started(t) => attempts[t] > 0
  /\ \A t \in Task : attempts[t] > 0 => deps[t] \subseteq completed
  /\ \A t \in Task : status[t] = "waiting-agent" => TaskType[t] # "final_audit"
  /\ \A t \in Finals : attempts[t] > 0 =>
       \A u \in Ids(order) \ Finals : status[u] \in Terminal
  /\ ReleaseNeedsReview

(* The same of a saved state. *)
SoundRelease(s) ==
  /\ AuditedGraph(GraphOf(s))
  /\ \A t \in s.completed : s.status[t] \in Terminal
  /\ \A t \in Task :
       /\ s.status[t] \notin {"absent", "pending"} => s.attempts[t] > 0
       /\ s.attempts[t] > 0 => s.deps[t] \subseteq s.completed
       /\ s.status[t] = "waiting-agent" => TaskType[t] # "final_audit"
  /\ \A t \in Finals : s.attempts[t] > 0 =>
       /\ \A u \in Ids(s.order) \ Finals : s.status[u] \in Terminal
       /\ TaskType[t] = "human_gate" =>
            \A u \in Ids(s.order) \ {t} : s.status[u] \in Terminal

SavedRelease == \A c \in checkpoints : SoundRelease(c)

(* A ready task is started; a started one gets another status, with or     *)
(* without being completed; tasks are merged for an agent's task, which is *)
(* superseded.                                                             *)
StartsTask(t) ==
  /\ t \in Ids(order) /\ Ready(t)
  /\ attempts' = [attempts EXCEPT ![t] = @ + 1]
  /\ status' = [status EXCEPT ![t] = "running"]
  /\ UNCHANGED <<order, deps, completed>>

Moves(t, s) ==
  /\ Open(t) /\ Started(t) /\ s # "absent"
  /\ s = "waiting-agent" => TaskType[t] # "final_audit"
  /\ status' = [status EXCEPT ![t] = s]
  /\ \/ completed' = completed
     \/ s \in Terminal /\ completed' = completed \union {t}
  /\ UNCHANGED <<order, deps, attempts>>

Supersedes(t, p) ==
  /\ Open(t) /\ status[t] = "waiting-agent"
  /\ MergeResult(TaskGraph, p) = "merged" /\ Merge(p)
  /\ status' = [MergedStatus(p) EXCEPT ![t] = "superseded"]
  /\ completed' = completed \union {t}
  /\ UNCHANGED attempts

ReleaseStep ==
  \/ UNCHANGED <<order, deps, status, completed, attempts>>
  \/ \E t \in Task : StartsTask(t)
  \/ \E t \in Task, s \in Statuses : Moves(t, s)
  \/ \E t \in Task, p \in Proposal : Supersedes(t, p)

LEMMA ReleaseInit ==
  ASSUME Init, AuditedGraph([order |-> InitialOrder, deps |-> InitialDeps])
  PROVE  ReleaseInv
<1>1. AuditedGraph(TaskGraph)
  BY DEF Init, TaskGraph
<1>2. \A t \in Task : ~Started(t)
  BY DEF Init, Started
<1>3. completed = {} /\ \A t \in Task : attempts[t] = 0
  BY DEF Init
<1>4. Finals \subseteq Task
  BY TaskAssumption
<1>5. \A t \in Task : status[t] # "waiting-agent"
  BY <1>2 DEF Started
<1> QED BY <1>1, <1>2, <1>3, <1>4, <1>5 DEF ReleaseInv, ReleaseNeedsReview

(* What a started final task follows has been completed.                   *)
LEMMA ReadyFinal ==
  ASSUME Types, PlanInv, ReleaseInv, NEW t \in Finals, t \in Ids(order), Ready(t),
         NEW tasks, Follows(TaskGraph, t, tasks)
  PROVE  tasks \subseteq completed \union {t}
<1> DEFINE S == (completed \union {t}) \cap Ids(order)
<1>1. TaskGraph.order = order /\ TaskGraph.deps = deps /\ Ids(order) \subseteq Task
  BY DEF TaskGraph, Types, Ids
<1>2. S \in SUBSET Ids(TaskGraph.order) /\ t \in S
  BY <1>1
<1>3. ASSUME NEW u \in S PROVE TaskGraph.deps[u] \subseteq S
  <2>1. u \in Task /\ deps[u] \subseteq Ids(order)
    BY <1>1 DEF PlanInv, SoundGraph
  <2>2. CASE u = t
    BY <1>1, <2>1, <2>2 DEF Ready
  <2>3. CASE u \in completed
    <3>1. Started(u)
      BY <2>3 DEF ReleaseInv, Started, Terminal
    <3>2. deps[u] \subseteq completed
      BY <2>1, <3>1 DEF ReleaseInv
    <3> QED BY <1>1, <2>1, <3>2
  <2> QED BY <2>2, <2>3
<1>4. tasks \subseteq S
  BY <1>2, <1>3 DEF Follows
<1> QED BY <1>4
(* Merging keeps the final tasks last: they follow what is added.          *)
LEMMA MergeKeepsAudited ==
  ASSUME NEW g \in Graph, NEW p \in Proposal, MergeResult(g, p) = "merged",
         SoundGraph(g), AuditedGraph(g)
  PROVE  AuditedGraph(Extended(g, p))
<1> DEFINE h == Extended(g, p)
<1>1. /\ Ids(h.order) = Ids(g.order) \union Ids(p.order)
      /\ Ids(g.order) \intersect Ids(p.order) = {}
      /\ Ids(g.order) \subseteq Task
  <2>1. Ids(g.order) \subseteq Task
    BY DEF Graph, Ids
  <2> QED BY <2>1, MergeAdds
<1>2. \A u \in Ids(g.order) : g.deps[u] \subseteq h.deps[u]
  BY <1>1 DEF Extended, Appended
<1>3. \A t \in Finals : Ids(p.order) \subseteq h.deps[t]
  BY TaskAssumption DEF Extended
<1> HIDE DEF h
<1>4. ASSUME NEW t \in Finals, NEW tasks, Follows(g, t, tasks)
      PROVE  Follows(h, t, tasks \union Ids(p.order))
  <2> SUFFICES ASSUME NEW S \in SUBSET Ids(h.order), t \in S, \A u \in S : h.deps[u] \subseteq S
               PROVE  tasks \union Ids(p.order) \subseteq S
    BY DEF Follows
  <2> DEFINE R == S \cap Ids(g.order)
  <2>1. t \in R /\ R \in SUBSET Ids(g.order)
    BY DEF AuditedGraph
  <2>2. \A u \in R : g.deps[u] \subseteq R
    BY <1>2 DEF SoundGraph
  <2>3. tasks \subseteq R
    BY <1>4, <2>1, <2>2 DEF Follows
  <2> QED BY <1>3, <2>3
<1>5. ASSUME NEW t \in Finals
      PROVE  /\ TaskType[t] \in {"final_audit", "human_gate"}
             /\ Follows(h, t, Ids(h.order) \ Finals)
             /\ TaskType[t] = "human_gate" => Follows(h, t, Ids(h.order))
  <2>1. /\ TaskType[t] \in {"final_audit", "human_gate"}
        /\ Follows(g, t, Ids(g.order) \ Finals)
        /\ TaskType[t] = "human_gate" => Follows(g, t, Ids(g.order))
    BY DEF AuditedGraph
  <2>2. Ids(h.order) \ Finals = (Ids(g.order) \ Finals) \union Ids(p.order)
    BY <1>1 DEF AuditedGraph
  <2>3. Follows(h, t, Ids(h.order) \ Finals)
    BY <1>4, <2>1, <2>2
  <2>4. TaskType[t] = "human_gate" => Follows(h, t, Ids(h.order))
    BY <1>1, <1>4, <2>1
  <2> QED BY <2>1, <2>3, <2>4
<1>6. Finals \subseteq Ids(h.order)
  BY <1>1 DEF AuditedGraph
<1>7. AuditedGraph(h)
  BY <1>5, <1>6 DEF AuditedGraph
<1> QED BY <1>7 DEF h

LEMMA ReleaseKept ==
  ASSUME Inv, PlanInv, ReleaseInv, ReleaseStep
  PROVE  ReleaseInv'
<1>1. Types /\ Finals \subseteq Task /\ Ids(order) \subseteq Task
  BY TaskAssumption DEF Inv, Types, Ids
<1>2. \A t \in Task : attempts[t] \in Nat
  BY <1>1 DEF Types
<1>3. CASE UNCHANGED <<order, deps, status, completed, attempts>>
  BY <1>3 DEF ReleaseInv, ReleaseNeedsReview, Started, AuditedGraph, Follows, TaskGraph, Ids
<1>4. ASSUME NEW t \in Task, StartsTask(t) PROVE ReleaseInv'
  <2>1. /\ t \in Ids(order) /\ Ready(t) /\ status[t] = "pending"
        /\ order' = order /\ deps' = deps /\ completed' = completed
        /\ attempts'[t] = attempts[t] + 1
        /\ \A u \in Task : attempts'[u] = IF u = t THEN attempts[u] + 1 ELSE attempts[u]
        /\ \A u \in Task : status'[u] = IF u = t THEN "running" ELSE status[u]
    BY <1>1, <1>4 DEF StartsTask, Ready, Types
  <2>2. AuditedGraph(TaskGraph)'
    BY <2>1 DEF ReleaseInv, AuditedGraph, Follows, TaskGraph, Ids
  <2>3. \A u \in completed' : status'[u] \in Terminal
    BY <1>1, <2>1 DEF ReleaseInv, Terminal, Types
  <2>4. /\ \A u \in Task : Started(u)' => attempts'[u] > 0
        /\ \A u \in Task : attempts'[u] > 0 => deps'[u] \subseteq completed'
        /\ \A u \in Task : status'[u] = "waiting-agent" => TaskType[u] # "final_audit"
    BY <1>2, <2>1 DEF ReleaseInv, Started, Ready
  <2>5. ASSUME NEW f \in Finals, attempts'[f] > 0
        PROVE  \A u \in Ids(order) \ Finals : status'[u] \in Terminal
    <3>1. CASE f = t
      <4>1. Ids(order) \ Finals \subseteq completed \union {t}
        BY <1>1, <2>1, <3>1, ReadyFinal DEF ReleaseInv, AuditedGraph, TaskGraph
      <4> QED BY <2>1, <2>3, <3>1, <4>1
    <3>2. CASE f # t
      <4>1. \A u \in Ids(order) \ Finals : status[u] \in Terminal
        BY <1>1, <2>1, <2>5, <3>2 DEF ReleaseInv
      <4> QED BY <1>1, <2>1, <4>1 DEF Terminal
    <3> QED BY <3>1, <3>2
  <2>6. ASSUME NEW f \in Finals, TaskType[f] = "human_gate", attempts'[f] > 0
        PROVE  \A u \in Ids(order) \ {f} : status'[u] \in Terminal
    <3>1. CASE f = t
      <4>1. Ids(order) \subseteq completed \union {t}
        BY <1>1, <2>1, <2>6, <3>1, ReadyFinal DEF ReleaseInv, AuditedGraph, TaskGraph
      <4> QED BY <2>1, <2>3, <3>1, <4>1
    <3>2. CASE f # t
      <4>1. \A u \in Ids(order) \ {f} : status[u] \in Terminal
        BY <1>1, <2>1, <2>6, <3>2 DEF ReleaseInv, ReleaseNeedsReview
      <4> QED BY <1>1, <2>1, <3>2, <4>1 DEF Terminal
    <3> QED BY <3>1, <3>2
  <2>7. Ids(order') = Ids(order)
    BY <2>1
  <2> QED BY <2>2, <2>3, <2>4, <2>5, <2>6, <2>7 DEF ReleaseInv, ReleaseNeedsReview
<1>5. ASSUME NEW t \in Task, NEW s \in Statuses, Moves(t, s) PROVE ReleaseInv'
  <2>1. /\ Started(t) /\ status[t] \notin Terminal /\ t \in Ids(order)
        /\ order' = order /\ deps' = deps /\ attempts' = attempts
        /\ completed \subseteq completed'
        /\ completed' = completed \/ (s \in Terminal /\ completed' = completed \union {t})
        /\ s = "waiting-agent" => TaskType[t] # "final_audit"
        /\ \A u \in Task : status'[u] = IF u = t THEN s ELSE status[u]
    BY <1>1, <1>5 DEF Moves, Open, Types
  <2>2. AuditedGraph(TaskGraph)'
    BY <2>1 DEF ReleaseInv, AuditedGraph, Follows, TaskGraph, Ids
  <2>3. \A u \in completed' : status'[u] \in Terminal
    BY <1>1, <2>1 DEF ReleaseInv, Types
  <2>4. /\ \A u \in Task : Started(u)' => attempts'[u] > 0
        /\ \A u \in Task : attempts'[u] > 0 => deps'[u] \subseteq completed'
        /\ \A u \in Task : status'[u] = "waiting-agent" => TaskType[u] # "final_audit"
    BY <1>2, <2>1 DEF ReleaseInv, Started
  <2>5. ASSUME NEW u \in Ids(order), status[u] \in Terminal PROVE status'[u] \in Terminal
    BY <1>1, <2>1, <2>5
  <2>6. Ids(order') = Ids(order)
    BY <2>1
  <2>7. \A f \in Finals : attempts'[f] > 0 =>
          \A u \in Ids(order) \ Finals : status'[u] \in Terminal
    BY <2>1, <2>5 DEF ReleaseInv
  <2>8. ReleaseNeedsReview'
    BY <2>1, <2>5, <2>6 DEF ReleaseInv, ReleaseNeedsReview
  <2> QED BY <2>2, <2>3, <2>4, <2>6, <2>7, <2>8 DEF ReleaseInv
<1>6. ASSUME NEW t \in Task, NEW p \in Proposal, Supersedes(t, p) PROVE ReleaseInv'
  <2>1. TaskGraph \in Graph /\ TaskGraph.order = order /\ TaskGraph.deps = deps
    BY <1>1 DEF TaskGraph, Graph, Types
  <2>2. /\ t \in Ids(order) \ Finals /\ status[t] = "waiting-agent" /\ Started(t)
        /\ status[t] \notin Terminal
        /\ MergeResult(TaskGraph, p) = "merged" /\ Merge(p)
        /\ attempts' = attempts /\ completed' = completed \union {t}
    <3>1. TaskType[t] \notin {"final_audit", "human_gate"}
      BY <1>6 DEF Supersedes, ReleaseInv, Inv, TaskInv, GateInv
    <3> QED BY <1>6, <3>1 DEF Supersedes, Open, ReleaseInv, AuditedGraph, Started
  <2>3. /\ order' = Extended(TaskGraph, p).order /\ deps' = Extended(TaskGraph, p).deps
        /\ Ids(order') = Ids(order) \union Ids(p.order)
        /\ Ids(order) \intersect Ids(p.order) = {}
    BY <2>1, <2>2, MergeAdds DEF Merge
  <2>4. \A f \in Finals : ~(attempts[f] > 0)
    BY <2>2 DEF ReleaseInv
  <2>5. AuditedGraph(TaskGraph)'
    <3>1. AuditedGraph(Extended(TaskGraph, p))
      BY <2>1, <2>2, MergeKeepsAudited DEF PlanInv, ReleaseInv
    <3>2. TaskGraph'.order = Extended(TaskGraph, p).order /\ TaskGraph'.deps = Extended(TaskGraph, p).deps
      BY <2>3 DEF TaskGraph
    <3> QED BY <3>1, <3>2 DEF AuditedGraph, Follows
  <2>6. /\ \A u \in Task : MergedStatus(p)[u] = IF u \in Ids(p.order) THEN "pending" ELSE status[u]
        /\ MergedStatus(p) \in [Task -> Statuses]
    BY <1>1, <2>2, MergedTasks DEF MergedStatus
  <2>7. \A u \in Task : status'[u] = IF u = t THEN "superseded"
                                    ELSE IF u \in Ids(p.order) THEN "pending" ELSE status[u]
    BY <1>6, <2>6 DEF Supersedes
  <2>8. \A u \in Ids(p.order) : u \in Task /\ status[u] = "absent" /\ attempts[u] = 0
    <3>1. Ids(p.order) \subseteq Task
      BY DEF Proposal, Ids
    <3>2. \A u \in Ids(p.order) : u \notin Ids(order)
      BY <2>3
    <3> QED BY <3>1, <3>2 DEF Inv, TaskInv, AttemptInv
  <2>9. \A u \in completed' : status'[u] \in Terminal
    BY <1>1, <2>2, <2>7, <2>8 DEF ReleaseInv, Terminal, Types
  <2>10. \A u \in Task : Started(u)' => attempts'[u] > 0
    BY <2>2, <2>7 DEF ReleaseInv, Started
  <2>11. ASSUME NEW u \in Task, attempts'[u] > 0 PROVE deps'[u] \subseteq completed'
    <3>1. u \notin Finals /\ u \notin Ids(p.order) /\ attempts[u] > 0
      BY <1>2, <2>2, <2>4, <2>8, <2>11
    <3>2. deps'[u] = deps[u]
      BY <2>1, <2>3, <3>1 DEF Extended, Appended
    <3> QED BY <2>2, <3>1, <3>2 DEF ReleaseInv
  <2>12. \A u \in Task : status'[u] = "waiting-agent" => TaskType[u] # "final_audit"
    BY <2>7 DEF ReleaseInv
  <2> QED BY <2>2, <2>4, <2>5, <2>9, <2>10, <2>11, <2>12 DEF ReleaseInv, ReleaseNeedsReview
<1> QED BY <1>3, <1>4, <1>5, <1>6 DEF ReleaseStep
-----------------------------------------------------------------------------
(* Every step is one of those.                                             *)
LEMMA StillRelease ==
  ASSUME UNCHANGED <<planVars, status, completed, attempts>>
  PROVE  ReleaseStep
BY DEF ReleaseStep, planVars

LEMMA MovesRelease ==
  ASSUME NEW t, Open(t), Started(t), NEW s \in Statuses \ {"absent"},
         s = "waiting-agent" => TaskType[t] # "final_audit",
         status' = [status EXCEPT ![t] = s],
         completed' = completed \/ (s \in Terminal /\ completed' = completed \union {t}),
         UNCHANGED <<order, deps, attempts>>
  PROVE  ReleaseStep
<1>1. t \in Task /\ Moves(t, s)
  BY DEF Open, Moves
<1> QED BY <1>1 DEF ReleaseStep

LEMMA InAttemptStarted ==
  ASSUME Inv, NEW t, InAttempt(t)
  PROVE  Open(t) /\ Started(t)
BY InAttemptOpen DEF InAttempt, Started

LEMMA FailRelease ==
  ASSUME NEW t, Open(t), Started(t), NEW life, Fail(t, life), UNCHANGED <<planVars, attempts>>
  PROVE  ReleaseStep
<1>1. completed' = completed /\ UNCHANGED <<order, deps, attempts>>
  BY DEF Fail, planVars
<1>2. CASE status' = [status EXCEPT ![t] = "pending"]
  BY <1>1, <1>2, MovesRelease DEF Statuses
<1>3. CASE status' = [status EXCEPT ![t] = "blocked"]
  BY <1>1, <1>3, MovesRelease DEF Statuses
<1> QED BY <1>2, <1>3 DEF Fail, Block

LEMMA HandoffRelease ==
  ASSUME NEW t, Open(t), Started(t), Handoff(t), UNCHANGED <<order, deps, attempts>>
  PROVE  ReleaseStep
<1>1. completed' = completed /\ status' = [status EXCEPT ![t] = "waiting-human"]
  BY DEF Handoff
<1> QED BY <1>1, MovesRelease DEF Statuses

(* No observation that passes has follow-up tasks, and only one of an      *)
(* agent has tasks at all.                                                 *)
LEMMA ObservationRelease ==
  ASSUME NEW t, Open(t), Started(t), NEW outcome, NEW p \in Proposal \union {NoProposal},
         NEW life, ApplyObservation(t, outcome, p, life), UNCHANGED attempts,
         outcome = "PASS" => p = NoProposal,
         p = NoProposal \/ status[t] = "waiting-agent"
  PROVE  ReleaseStep
<1>1. CASE outcome = "PASS" /\ ObservePass(t, p, life)
  <2>1. /\ status' = [status EXCEPT ![t] = "complete"] /\ completed' = completed \union {t}
        /\ UNCHANGED <<order, deps>>
    BY <1>1 DEF ObservePass, Complete, planVars
  <2> QED BY <2>1, MovesRelease DEF Statuses, Terminal
<1>2. CASE Handoff(t) /\ UNCHANGED planVars
  BY <1>2, HandoffRelease DEF planVars
<1>3. CASE Replan(t, p, life)
  <2>1. CASE /\ p # NoProposal
             /\ MergeResult(TaskGraph, p) = "merged" /\ Merge(p)
             /\ status' = [MergedStatus(p) EXCEPT ![t] = "superseded"]
             /\ completed' = completed \union {t}
    <3>1. p \in Proposal /\ t \in Task /\ Supersedes(t, p)
      BY <2>1 DEF Supersedes, Open
    <3> QED BY <3>1 DEF ReleaseStep
  <2>2. CASE Handoff(t) /\ UNCHANGED <<order, deps>>
    BY <2>2, HandoffRelease
  <2> QED BY <1>3, <2>1, <2>2 DEF Replan
<1>4. CASE Fail(t, life) /\ UNCHANGED planVars
  BY <1>4, FailRelease
<1> QED BY <1>1, <1>2, <1>3, <1>4 DEF ApplyObservation

LEMMA PassProposesNothing ==
  ASSUME FollowUps = {}, NEW p \in ProposalsWith("PASS")
  PROVE  p = NoProposal
BY DEF ProposalsWith

LEMMA ReleaseRunStep ==
  ASSUME Inv, FollowUps = {}, NEW r \in Runner,
         StartRun(r) \/ RunStep(r) \/ AgentCallsTool(r) \/ Crash(r)
  PROVE  ReleaseStep
<1> DEFINE t == run[r].task
<1>1. Ids(order) \subseteq Task
  BY DEF Inv, Types, Ids
<1>2. Fresh(r) /\ (At(r, "started") \/ InAgent(r)) => Open(t) /\ Started(t)
  BY RunnerInAttempt, InAttemptStarted
<1>3. Fresh(r) /\ InAgent(r) => status[t] = "waiting-agent"
  BY DEF Inv, RunnerInv, Fresh
<1> HIDE DEF t
<1>4. CASE \/ Yield(r) \/ ExhaustSteps(r) \/ AgentCallsTool(r) \/ StopRun(r)
           \/ ResumeAgent(r) \/ EscapeRun(r) \/ Conflict(r) \/ Crash(r) \/ StartRun(r)
           \/ ReturnPaused(r)
  <2>1. UNCHANGED <<planVars, status, completed, attempts>>
    BY <1>4 DEF Yield, ExhaustSteps, AgentCallsTool, StopRun, ResumeAgent, EscapeRun, Conflict,
                Crash, StartRun, ReturnPaused, state, planVars
  <2> QED BY <2>1, StillRelease
<1>5. CASE StartTask(r)
  <2>1. PICK u \in Ids(order) :
          /\ IsFirst(u, ReadyTasks)
          /\ status' = [status EXCEPT ![u] = "running"]
          /\ attempts' = [attempts EXCEPT ![u] = @ + 1]
    BY <1>5 DEF StartTask
  <2>2. Ready(u)
    BY <2>1 DEF IsFirst, ReadyTasks
  <2>3. UNCHANGED <<order, deps, completed>>
    BY <1>5 DEF StartTask, planVars
  <2> QED BY <1>1, <2>1, <2>2, <2>3 DEF ReleaseStep, StartsTask
<1>6. CASE FailMissingPacket(r)
  <2>1. PICK u \in Ids(order) : IsFirst(u, Resumable(r)) /\ Fail(u, Life(r))
    BY <1>6 DEF FailMissingPacket
  <2>2. status[u] = "waiting-agent"
    BY <2>1 DEF IsFirst, Resumable
  <2>3. InAttempt(u)
    BY <1>1, <2>2 DEF InAttempt
  <2> QED BY <1>6, <2>1, <2>3, InAttemptStarted, FailRelease DEF FailMissingPacket
<1>7. CASE OpenGate(r)
  <2>1. Open(t) /\ Started(t) /\ Handoff(t) /\ UNCHANGED <<order, deps, attempts>>
    BY <1>2, <1>7 DEF OpenGate, SaveAndGo, planVars, t
  <2> QED BY <2>1, HandoffRelease
<1>8. CASE Delegate(r)
  <2>1. Fresh(r)
    BY <1>8 DEF Delegate, SaveAndGo
  <2>2. /\ Open(t) /\ Started(t) /\ TaskType[t] \in {"agent", "verifier"}
        /\ status' = [status EXCEPT ![t] = "waiting-agent"]
        /\ completed' = completed /\ UNCHANGED <<order, deps, attempts>>
    BY <1>2, <1>8, <2>1 DEF Delegate, planVars, t
  <2> QED BY <2>2, MovesRelease DEF Statuses
<1>9. CASE ToolReturns(r)
  <2>1. PICK outcome \in ToolOutcomes : ApplyObservation(t, outcome, NoProposal, Life(r))
    BY <1>9 DEF ToolReturns, t
  <2>2. Open(t) /\ Started(t) /\ UNCHANGED attempts
    BY <1>2, <1>9 DEF ToolReturns, SaveAndGo
  <2> QED BY <2>1, <2>2, ObservationRelease
<1>10. CASE ToolRaises(r) \/ AgentRaises(r)
  <2>1. /\ Raised(r) /\ UNCHANGED <<planVars, attempts>> /\ Fresh(r)
        /\ At(r, "started") \/ InAgent(r)
    BY <1>10 DEF ToolRaises, AgentRaises, Raised, SaveAndGo
  <2>2. Open(t) /\ Started(t) /\ (Handoff(t) \/ Fail(t, Life(r)))
    BY <1>2, <2>1 DEF Raised, t
  <2>3. UNCHANGED <<order, deps, attempts>>
    BY <2>1 DEF planVars
  <2> QED BY <2>1, <2>2, <2>3, FailRelease, HandoffRelease
<1>11. CASE AgentReturns(r)
  <2>1. PICK outcome \in Outcomes : \E p \in ProposalsWith(outcome) :
          ApplyObservation(t, outcome, p, Life(r))
    BY <1>11 DEF AgentReturns, t
  <2>2. PICK p \in ProposalsWith(outcome) : ApplyObservation(t, outcome, p, Life(r))
    BY <2>1
  <2>3. p \in Proposal \union {NoProposal} /\ (outcome = "PASS" => p = NoProposal)
    BY ProposalTyped, PassProposesNothing
  <2>4. Fresh(r) /\ InAgent(r) /\ UNCHANGED attempts
    BY <1>11 DEF AgentReturns, SaveAndGo
  <2> QED BY <1>2, <1>3, <2>2, <2>3, <2>4, ObservationRelease
<1> QED BY <1>4, <1>5, <1>6, <1>7, <1>8, <1>9, <1>10, <1>11 DEF RunStep

LEMMA ReleaseCommandStep ==
  ASSUME Inv, FollowUps = {}, NEW t \in Task, Approve(t) \/ Reject(t) \/ ObserveAgent(t)
  PROVE  ReleaseStep
<1>1. status[t] \in {"waiting-human", "waiting-agent"}
  BY DEF Approve, Reject, ObserveAgent, Decide, Inv, TaskInv, OneActionPerWait
<1>2. Open(t) /\ Started(t)
  BY <1>1 DEF Open, Started, Inv, TaskInv, AttemptInv, Terminal
<1>3. CASE Approve(t)
  <2>1. UNCHANGED <<order, deps, attempts>>
    BY <1>3 DEF Approve, planVars
  <2>2. CASE TaskType[t] = "human_gate"
    <3>1. status' = [status EXCEPT ![t] = "complete"] /\ completed' = completed \union {t}
      BY <1>3, <2>2 DEF Approve, Complete
    <3> QED BY <1>2, <2>1, <3>1, MovesRelease DEF Statuses, Terminal
  <2>3. CASE TaskType[t] # "human_gate"
    <3>1. status' = [status EXCEPT ![t] = "pending"] /\ completed' = completed
      BY <1>3, <2>3 DEF Approve
    <3> QED BY <1>2, <2>1, <3>1, MovesRelease DEF Statuses
  <2> QED BY <2>2, <2>3
<1>4. CASE Reject(t)
  <2>1. /\ UNCHANGED <<order, deps, attempts>> /\ completed' = completed
        /\ status' = [status EXCEPT ![t] = "blocked"]
    BY <1>4 DEF Reject, Block, planVars
  <2> QED BY <1>2, <2>1, MovesRelease DEF Statuses
<1>5. CASE ObserveAgent(t)
  <2>1. PICK outcome \in Outcomes : \E p \in ProposalsWith(outcome) :
          ApplyObservation(t, outcome, p, lifecycle)
    BY <1>5 DEF ObserveAgent
  <2>2. PICK p \in ProposalsWith(outcome) : ApplyObservation(t, outcome, p, lifecycle)
    BY <2>1
  <2>3. p \in Proposal \union {NoProposal} /\ (outcome = "PASS" => p = NoProposal)
    BY ProposalTyped, PassProposesNothing
  <2>4. status[t] = "waiting-agent" /\ UNCHANGED attempts
    BY <1>5 DEF ObserveAgent
  <2> QED BY <1>2, <2>2, <2>3, <2>4, ObservationRelease
<1> QED BY <1>3, <1>4, <1>5

LEMMA RestoreRelease ==
  ASSUME SavedRelease, Recover
  PROVE  ReleaseInv'
<1>1. PICK c \in checkpoints : Restore(c)
  BY DEF Recover
<1>2. SoundRelease(c)
  BY <1>1 DEF SavedRelease
<1>3. TaskGraph' = GraphOf(c)
  BY <1>1 DEF Restore, TaskGraph, GraphOf
<1>4. AuditedGraph(TaskGraph)'
  <2>1. AuditedGraph(GraphOf(c))
    BY <1>2 DEF SoundRelease
  <2> QED BY <1>3, <2>1 DEF AuditedGraph, Follows
<1> QED BY <1>1, <1>2, <1>4 DEF Restore, SoundRelease, ReleaseInv, ReleaseNeedsReview, Started, Ids

LEMMA SnapshotRelease == ReleaseInv => SoundRelease(Snapshot)
<1>1. GraphOf(Snapshot) = TaskGraph
  BY DEF GraphOf, Snapshot, TaskGraph
<1> QED BY <1>1 DEF ReleaseInv, ReleaseNeedsReview, SoundRelease, Started, Snapshot

LEMMA SavedReleaseInit ==
  ASSUME Init, ReleaseInv
  PROVE  SavedRelease
<1>1. checkpoints \subseteq {Snapshot}
  BY DEF Init
<1> QED BY <1>1, SnapshotRelease DEF SavedRelease

LEMMA SavedReleaseNext == ReleaseInv' /\ SavedRelease /\ [Next]_vars => SavedRelease'
<1>1. ReleaseInv' => SoundRelease(Snapshot)'
  BY SnapshotRelease, PTL
<1>2. SoundRelease(Snapshot)' <=> SoundRelease(Snapshot')
  BY DEF SoundRelease, AuditedGraph, Follows, GraphOf
<1> QED BY <1>1, <1>2, CheckpointsGrow DEF SavedRelease

LEMMA ReleaseNext ==
  ASSUME FollowUps = {}
  PROVE  Inv /\ PlanInv /\ ReleaseInv /\ SavedRelease /\ [Next]_vars => ReleaseInv'
<1> SUFFICES ASSUME Inv, [Next]_vars, ~Recover PROVE ReleaseStep
  BY ReleaseKept, RestoreRelease
<1>1. ASSUME NEW r \in Runner, StartRun(r) \/ RunStep(r) \/ AgentCallsTool(r) \/ Crash(r)
      PROVE  ReleaseStep
  BY <1>1, ReleaseRunStep
<1>2. ASSUME NEW t \in Task, Approve(t) \/ Reject(t) \/ ObserveAgent(t)
      PROVE  ReleaseStep
  BY <1>2, ReleaseCommandStep
<1>3. CASE (\E r \in Runner : Resume(r)) \/ Pause \/ Reconstruct \/ UNCHANGED vars
  <2>1. UNCHANGED <<planVars, status, completed, attempts>>
    BY <1>3 DEF Resume, Pause, Reconstruct, vars, state, planVars
  <2> QED BY <2>1, StillRelease
<1> QED BY <1>1, <1>2, <1>3 DEF Next

(* Nothing is released around a review: from a graph whose final tasks     *)
(* come last (TLC finds both forms of the default graph to be such), with  *)
(* any replans, the final gate opens only when every other task is passed  *)
(* or superseded.  Follow-up tasks of agents that pass are excluded: with  *)
(* them a task counts as completed that is not.                            *)
THEOREM ReleaseIsReviewed ==
  ASSUME FollowUps = {}, AuditedGraph([order |-> InitialOrder, deps |-> InitialDeps])
  PROVE  Spec => []ReleaseNeedsReview
<1>1. Init => ReleaseInv /\ SavedRelease
  BY ReleaseInit, SavedReleaseInit
<1>2. Inv /\ PlanInv /\ ReleaseInv /\ SavedRelease /\ [Next]_vars => ReleaseInv'
  BY ReleaseNext
<1>3. ReleaseInv => ReleaseNeedsReview
  BY DEF ReleaseInv
<1> QED BY <1>1, <1>2, <1>3, SavedReleaseNext, Invariance, PlanInvariance, PTL DEF Spec
=============================================================================
