----------------------------- MODULE KernelProofs -----------------------------
(***************************************************************************)
(* The parts of the kernel that share no state with others: the run lock   *)
(* file, the adapter of the Codex CLI, the tools that run a program, the   *)
(* context packer and the visit of validate_dag.                           *)
(***************************************************************************)
EXTENDS FileRunLock, CodexAdapter, EngineExecution, ContextPacker, DagVisit, InductionLemmas

(***************************************************************************)
(* The adapter of the Codex CLI for any number of runtimes, rounds and     *)
(* calls.  A round belongs to the one call that made its directory, so the *)
(* answer found there is of the process this call started.                 *)
(***************************************************************************)
HostState == [at : {"idle", "begin", "wait"}, call : 0..MaxCall, request : BOOLEAN,
              session : BOOLEAN, rounds : Nat, cancels : 0..MaxCall]
CliState == [state : {"none", "runs", "ended", "failed"}, round : 0..MaxRound]
Folder == [exists : BOOLEAN, final : 0..MaxCall, events : {"none", "bare", "session"}]

CodexTypes ==
  /\ roundDir \in [Round -> Folder]
  /\ host \in [Host -> HostState]
  /\ cli \in [CallId -> CliState]
  /\ issued \in 0..MaxCall

Started(k) == cli[k].state # "none"

(* A call has one host, and its process is started once.                   *)
CallsApart ==
  /\ \A h \in Host :
       /\ host[h].call <= issued
       /\ host[h].at = "begin" => host[h].call # 0 /\ ~Started(host[h].call)
       /\ host[h].at = "wait" => host[h].call # 0 /\ Started(host[h].call)
  /\ \A g, h \in Host : host[g].call = host[h].call /\ host[h].call # 0 => g = h
  /\ \A k \in CallId : Started(k) => k <= issued

(* Rounds are not shared, and only their process writes into them.         *)
RoundsApart ==
  /\ \A k \in CallId : Started(k) => cli[k].round \in Round /\ roundDir[cli[k].round].exists
  /\ \A k, l \in CallId : Started(k) /\ Started(l) /\ cli[k].round = cli[l].round => k = l
  /\ \A r \in Round : roundDir[r].final # 0 =>
       Started(roundDir[r].final) /\ cli[roundDir[r].final].round = r

CodexInv == CodexTypes /\ CallsApart /\ RoundsApart /\ AnswerIsOwn

LEMMA CodexInvInit == CodexInit => CodexInv
BY CodexAssumption
   DEF CodexInit, CodexInv, CodexTypes, CallsApart, RoundsApart, AnswerIsOwn, Started, HostState,
       CliState, Folder, NewHost, NoCli, NoFolder, Round, CallId

(* Steps that leave processes and directories alone, and take at most one  *)
(* host out of its call.                                                   *)
LEMMA HostStep ==
  ASSUME CodexInv, NEW h \in Host, NEW memory \in HostState,
         host' = [host EXCEPT ![h] = memory],
         memory.at = "idle" \/ memory.at = host[h].at,
         memory.call \in {0, host[h].call}, memory.at = "idle" \/ memory.call = host[h].call,
         UNCHANGED <<cli, roundDir, issued, answers>>
  PROVE  CodexInv'
BY DEF CodexInv, CodexTypes, CallsApart, RoundsApart, AnswerIsOwn, Started

LEMMA EnterStep ==
  ASSUME CodexInv, NEW h \in Host, NEW memory \in HostState, EnterRound(h, memory)
  PROVE  CodexInv'
<1> DEFINE entered == [memory EXCEPT !.at = "begin", !.call = issued + 1]
<1> USE CodexAssumption DEF CodexInv, CodexTypes, CallId
<1>1. /\ issued + 1 \in CallId /\ issued' = issued + 1 /\ issued' \in 0..MaxCall
      /\ host' = [host EXCEPT ![h] = entered]
      /\ UNCHANGED <<cli, roundDir, answers>>
  BY DEF EnterRound
<1>2. entered \in HostState /\ entered.at = "begin" /\ entered.call = issued + 1
  BY <1>1 DEF HostState
<1>3. CodexTypes'
  BY <1>1, <1>2
<1>4. ~Started(issued + 1)
  BY <1>1 DEF CallsApart
<1>5. CallsApart'
  <2>1. \A g \in Host : host[g].call \in 0..MaxCall /\ host[g].call <= issued
    BY DEF CallsApart, HostState
  <2> QED BY <1>1, <1>2, <1>4, <2>1 DEF CallsApart, Started
<1>6. RoundsApart' /\ AnswerIsOwn'
  BY <1>1 DEF RoundsApart, AnswerIsOwn, Started
<1> QED BY <1>3, <1>5, <1>6

(* A process that was started goes into another state.                     *)
LEMMA CliStep ==
  ASSUME CodexInv, NEW k \in CallId, Started(k), NEW state \in {"runs", "ended", "failed"},
         cli' = [cli EXCEPT ![k].state = state], UNCHANGED <<host, roundDir, issued, answers>>
  PROVE  CodexInv'
<1> USE DEF CodexInv, CodexTypes
<1>1. cli' \in [CallId -> CliState]
  BY DEF CliState
<1>2. \A l \in CallId : cli'[l].round = cli[l].round /\ (Started(l)' <=> Started(l))
  BY DEF CliState, Started
<1>3. \A h \in Host : host[h].call # 0 => host[h].call \in CallId
  BY CodexAssumption DEF HostState, CallId
<1>4. \A r \in Round : roundDir[r].final # 0 => roundDir[r].final \in CallId
  BY CodexAssumption DEF Folder, CallId
<1>5. CallsApart'
  BY <1>2, <1>3 DEF CallsApart
<1>6. RoundsApart'
  BY <1>2, <1>4 DEF RoundsApart
<1> QED BY <1>1, <1>5, <1>6 DEF AnswerIsOwn

LEMMA MakeRoundStep ==
  ASSUME CodexInv, NEW h \in Host, MakeRound(h)
  PROVE  CodexInv'
<1> DEFINE r == host[h].rounds + 1
           k == host[h].call
<1> USE CodexAssumption DEF CodexInv, CodexTypes
<1>1. r \in Round /\ k \in CallId /\ ~Started(k) /\ k <= issued /\ r \in 0..MaxRound /\ r \in Nat
  BY DEF MakeRound, HostAt, CallsApart, HostState, CallId, Round
<1>2. CASE roundDir[r].exists
  <2> DEFINE memory == [host[h] EXCEPT !.rounds = r, !.at = "idle"]
  <2>1. memory \in HostState /\ memory.at = "idle" /\ memory.call = host[h].call
    BY <1>1 DEF HostState
  <2>2. host' = [host EXCEPT ![h] = memory] /\ UNCHANGED <<cli, roundDir, issued, answers>>
    BY <1>2 DEF MakeRound
  <2> QED BY <2>1, <2>2, HostStep
<1>3. CASE ~roundDir[r].exists
  <2> DEFINE memory == [host[h] EXCEPT !.rounds = r, !.at = "wait"]
  <2>1. memory \in HostState /\ memory.at = "wait" /\ memory.call = k
    BY <1>1 DEF HostState
  <2>2. /\ host' = [host EXCEPT ![h] = memory] /\ UNCHANGED <<issued, answers>>
        /\ roundDir' = [roundDir EXCEPT ![r].exists = TRUE]
        /\ cli' = [cli EXCEPT ![k] = [state |-> "runs", round |-> r]]
    BY <1>3 DEF MakeRound
  <2>3. CodexTypes'
    <3>1. [state |-> "runs", round |-> r] \in CliState
      BY <1>1 DEF CliState
    <3>2. roundDir' \in [Round -> Folder]
      BY <2>2 DEF Folder
    <3> QED BY <2>1, <2>2, <3>1, <3>2
  <2>4. \A l \in CallId : l # k => cli'[l] = cli[l]
    BY <2>2
  <2>5. cli'[k].state = "runs" /\ cli'[k].round = r
    BY <1>1, <2>2
  <2>6. \A g \in Host : host[g].call # 0 => host[g].call \in CallId
    BY DEF HostState, CallId
  <2>7. CallsApart'
    <3>1. host'[h] = memory /\ (\A g \in Host : g # h => host'[g] = host[g])
      BY <2>2
    <3>2. \A g \in Host : host'[g].call = host[g].call
      BY <2>1, <3>1
    <3>3. cli'[k].state # "none"
      BY <2>5
    <3>4. \A l \in CallId : cli[l].state # "none" => cli'[l].state # "none"
      BY <2>4, <3>3
    <3>5. \A g \in Host : g # h /\ host[g].call # 0 => host[g].call \in CallId /\ host[g].call # k
      BY <2>6 DEF CallsApart
    <3>6. \A g \in Host : host'[g].call <= issued
      BY <3>2 DEF CallsApart
    <3>7. ASSUME NEW g \in Host, host'[g].at = "begin"
          PROVE  host'[g].call # 0 /\ cli'[host'[g].call].state = "none"
      <4>1. g # h /\ host'[g] = host[g]
        BY <2>1, <3>1, <3>7
      <4>2. host[g].call # 0 /\ cli[host[g].call].state = "none"
        BY <3>7, <4>1 DEF CallsApart, Started
      <4> QED BY <2>4, <3>5, <4>1, <4>2
    <3>8. ASSUME NEW g \in Host, host'[g].at = "wait"
          PROVE  host'[g].call # 0 /\ cli'[host'[g].call].state # "none"
      <4>1. CASE g = h
        <5>1. host'[g].call = k /\ k # 0
          BY <1>1, <3>2, <4>1 DEF CallId
        <5> QED BY <3>3, <5>1
      <4>2. CASE g # h
        <5>1. host[g].call # 0 /\ cli[host[g].call].state # "none" /\ host'[g] = host[g]
          BY <3>1, <3>8, <4>2 DEF CallsApart, Started
        <5> QED BY <2>6, <3>4, <5>1
      <4> QED BY <4>1, <4>2
    <3>9. \A f, g \in Host : host'[f].call = host'[g].call /\ host'[f].call # 0 => f = g
      BY <3>2 DEF CallsApart
    <3>10. \A l \in CallId : cli'[l].state # "none" => l <= issued
      BY <1>1, <2>4 DEF CallsApart, Started
    <3> QED BY <2>2, <3>6, <3>7, <3>8, <3>9, <3>10 DEF CallsApart, Started
  <2>8. \A q \in Round : /\ roundDir'[q].final = roundDir[q].final
                         /\ roundDir[q].exists => roundDir'[q].exists
    BY <2>2 DEF Folder
  <2>9. roundDir'[r].exists
    BY <1>1, <2>2 DEF Folder
  <2>10. \A l \in CallId : Started(l) => cli[l].round # r
    BY <1>3 DEF RoundsApart
  <2>11. \A q \in Round : roundDir[q].final # 0 => roundDir[q].final \in CallId
    BY DEF Folder, CallId
  <2>12. \A l \in CallId : cli'[l].state # "none" =>
           cli'[l].round \in Round /\ roundDir'[cli'[l].round].exists
    BY <1>1, <2>4, <2>5, <2>8, <2>9 DEF RoundsApart, Started
  <2>13. \A l, m \in CallId : cli'[l].state # "none" /\ cli'[m].state # "none"
                              /\ cli'[l].round = cli'[m].round => l = m
    BY <2>4, <2>5, <2>10 DEF RoundsApart, Started
  <2>14. ASSUME NEW q \in Round, roundDir'[q].final # 0
         PROVE  cli'[roundDir'[q].final].state # "none" /\ cli'[roundDir'[q].final].round = q
    <3> DEFINE l == roundDir[q].final
    <3>1. roundDir'[q].final = l /\ l # 0 /\ l \in CallId
      BY <2>8, <2>11, <2>14
    <3>2. cli[l].state # "none" /\ cli[l].round = q
      BY <3>1 DEF RoundsApart, Started
    <3>3. cli[k].state = "none"
      BY <1>1 DEF Started
    <3>4. cli'[l] = cli[l]
      BY <2>4, <3>1, <3>2, <3>3
    <3> QED BY <3>1, <3>2, <3>4
  <2>15. RoundsApart'
    BY <2>12, <2>13, <2>14 DEF RoundsApart, Started
  <2> QED BY <2>2, <2>3, <2>7, <2>15 DEF AnswerIsOwn
<1> QED BY <1>2, <1>3

LEMMA CollectStep ==
  ASSUME CodexInv, NEW h \in Host, NEW session \in BOOLEAN, CollectAnswer(h, session)
  PROVE  CodexInv'
<1> DEFINE r == MyRound(h)
           k == host[h].call
           memory == [host[h] EXCEPT !.at = "idle", !.session = @ \/ session]
<1> USE CodexAssumption DEF CodexInv, CodexTypes
<1>1. k \in CallId /\ Started(k) /\ r = cli[k].round /\ r \in Round
  BY DEF CollectAnswer, HostAt, CallsApart, HostState, CallId, RoundsApart, MyRound, MyCli
<1>2. memory \in HostState /\ memory.at = "idle" /\ memory.call = k
  BY DEF HostState
<1>3. host' = [host EXCEPT ![h] = memory] /\ UNCHANGED <<cli, issued>>
  BY DEF CollectAnswer
<1>4. roundDir' \in [Round -> Folder]
  BY DEF CollectAnswer, Folder
<1>5. \A q \in Round : roundDir'[q].final = roundDir[q].final /\ roundDir'[q].exists = roundDir[q].exists
  BY DEF CollectAnswer, Folder
<1>6. AnswerIsOwn'
  <2>1. roundDir[r].final # 0 => roundDir[r].final = k
    <3>1. SUFFICES ASSUME roundDir[r].final # 0 PROVE roundDir[r].final = k
      OBVIOUS
    <3>2. roundDir[r].final \in CallId
      BY <1>1, <3>1 DEF Folder, CallId
    <3> QED BY <1>1, <3>1, <3>2 DEF RoundsApart
  <2>2. answers' \subseteq answers \union {<<k, roundDir[r].final>>} /\
        (answers' # answers => roundDir[r].final # 0)
    BY DEF CollectAnswer, MyRound, MyCli
  <2> QED BY <2>1, <2>2 DEF AnswerIsOwn
<1>7. CallsApart'
  BY <1>2, <1>3 DEF CallsApart, Started
<1>8. RoundsApart'
  BY <1>3, <1>5 DEF RoundsApart, Started
<1> QED BY <1>2, <1>3, <1>4, <1>6, <1>7, <1>8

LEMMA CodexInvNext ==
  ASSUME CodexInv, [CodexNext]_codexVars
  PROVE  CodexInv'
<1> USE CodexAssumption DEF CodexInv, CodexTypes
<1>1. ASSUME NEW h \in Host, RunAgent(h) \/ ResumeAgent(h) PROVE CodexInv'
  <2>1. /\ host[h] \in HostState
        /\ [host[h] EXCEPT !.request = TRUE] \in HostState
        /\ [host[h] EXCEPT !.request = TRUE, !.session = TRUE] \in HostState
    BY DEF HostState
  <2> QED BY <1>1, <2>1, EnterStep DEF RunAgent, ResumeAgent
<1>2. ASSUME NEW h \in Host, CancelLooks(h) PROVE CodexInv'
  <2> DEFINE memory == [host[h] EXCEPT !.cancels = host[h].call]
  <2>1. memory \in HostState /\ memory.at = host[h].at /\ memory.call = host[h].call
    BY DEF HostState
  <2> QED BY <1>2, <2>1, HostStep DEF CancelLooks
<1>3. ASSUME NEW h \in Host, RestartHost(h) PROVE CodexInv'
  <2>1. NewHost \in HostState /\ NewHost.at = "idle" /\ NewHost.call = 0
    BY DEF HostState, NewHost
  <2> QED BY <1>3, <2>1, HostStep DEF RestartHost
<1>4. ASSUME NEW h \in Host, CancelKills(h) PROVE CodexInv'
  <2> DEFINE memory == [host[h] EXCEPT !.cancels = 0]
             k == host[h].cancels
  <2>1. memory \in HostState /\ memory.at = host[h].at /\ memory.call = host[h].call
    BY DEF HostState
  <2>2. k \in CallId
    BY <1>4 DEF CancelKills, HostState, CallId
  <2>3. host' = [host EXCEPT ![h] = memory] /\ UNCHANGED <<roundDir, issued, answers>>
    BY <1>4 DEF CancelKills
  <2>4. CASE cli' = cli
    BY <2>1, <2>3, <2>4, HostStep
  <2>5. CASE cli' = [cli EXCEPT ![k].state = "failed"] /\ cli[k].state = "runs"
    <3>1. cli' \in [CallId -> CliState]
      BY <2>5 DEF CliState
    <3>2. \A l \in CallId : cli'[l].round = cli[l].round /\ (Started(l)' <=> Started(l))
      BY <2>2, <2>5 DEF CliState, Started
    <3>3. \A g \in Host : host'[g].at = host[g].at /\ host'[g].call = host[g].call
      BY <2>1, <2>3
    <3>4. \A g \in Host : host[g].call # 0 => host[g].call \in CallId
      BY DEF HostState, CallId
    <3>5. \A r \in Round : roundDir[r].final # 0 => roundDir[r].final \in CallId
      BY DEF Folder, CallId
    <3>6. CallsApart'
      BY <2>3, <3>2, <3>3, <3>4 DEF CallsApart
    <3>7. RoundsApart'
      BY <2>3, <3>2, <3>5 DEF RoundsApart
    <3> QED BY <2>1, <2>3, <3>1, <3>6, <3>7 DEF AnswerIsOwn
  <2> QED BY <1>4, <2>4, <2>5 DEF CancelKills
<1>5. ASSUME NEW h \in Host, TimeOutCli(h) PROVE CodexInv'
  <2> DEFINE memory == [host[h] EXCEPT !.at = "idle"]
             k == host[h].call
  <2>1. memory \in HostState /\ memory.at = "idle" /\ memory.call = host[h].call
    BY DEF HostState
  <2>2. k \in CallId /\ Started(k)
    BY <1>5 DEF TimeOutCli, HostAt, CallsApart, HostState, CallId
  <2>3. /\ host' = [host EXCEPT ![h] = memory] /\ UNCHANGED <<roundDir, issued, answers>>
        /\ cli' = [cli EXCEPT ![k].state = "failed"]
    BY <1>5 DEF TimeOutCli
  <2>4. cli' \in [CallId -> CliState]
    BY <2>3 DEF CliState
  <2>5. \A l \in CallId : cli'[l].round = cli[l].round /\ (Started(l)' <=> Started(l))
    BY <2>2, <2>3 DEF CliState, Started
  <2>6. \A g \in Host : host[g].call # 0 => host[g].call \in CallId
    BY DEF HostState, CallId
  <2>7. \A r \in Round : roundDir[r].final # 0 => roundDir[r].final \in CallId
    BY DEF Folder, CallId
  <2>8. CallsApart'
    BY <2>1, <2>3, <2>5, <2>6 DEF CallsApart
  <2>9. RoundsApart'
    BY <2>3, <2>5, <2>7 DEF RoundsApart
  <2> QED BY <2>1, <2>3, <2>4, <2>8, <2>9 DEF AnswerIsOwn
<1>6. ASSUME NEW k \in CallId, CliWrites(k) PROVE CodexInv'
  <2>1. Started(k) /\ cli[k].round \in Round
    BY <1>6 DEF CliWrites, Started, RoundsApart
  <2>2. roundDir' = [roundDir EXCEPT ![cli[k].round].final = k] /\ UNCHANGED <<host, cli, issued, answers>>
    BY <1>6 DEF CliWrites
  <2>3. roundDir' \in [Round -> Folder]
    <3>1. k \in 0..MaxCall /\ roundDir[cli[k].round] \in Folder
      BY <2>1 DEF CallId
    <3>2. [roundDir[cli[k].round] EXCEPT !.final = k] \in Folder
      BY <3>1 DEF Folder
    <3> QED BY <2>1, <2>2, <3>2
  <2>4. \A q \in Round : /\ roundDir'[q].exists = roundDir[q].exists
                         /\ roundDir'[q].final = IF q = cli[k].round THEN k ELSE roundDir[q].final
    BY <2>1, <2>2 DEF Folder
  <2>5. RoundsApart'
    BY <2>1, <2>2, <2>4 DEF RoundsApart, Started
  <2> QED BY <2>2, <2>3, <2>5 DEF CallsApart, Started, AnswerIsOwn
<1>7. ASSUME NEW k \in CallId, NEW code \in {"ended", "failed"}, CliEnds(k, code) PROVE CodexInv'
  BY <1>7, CliStep DEF CliEnds, Started
<1>8. CASE UNCHANGED codexVars
  BY <1>8 DEF codexVars, CallsApart, RoundsApart, AnswerIsOwn, Started
<1> QED BY <1>1, <1>2, <1>3, <1>4, <1>5, <1>6, <1>7, <1>8, MakeRoundStep, CollectStep DEF CodexNext

-----------------------------------------------------------------------------
(* For any number of runtimes, rounds and calls.                           *)
THEOREM CodexInvariant == CodexSpec => []CodexInv
BY CodexInvInit, CodexInvNext, PTL DEF CodexSpec

(* No call returns the answer of another call's process.                   *)
THEOREM AnswersAreOwn == CodexSpec => []AnswerIsOwn
<1>1. CodexInv => AnswerIsOwn
  BY DEF CodexInv
<1> QED BY <1>1, CodexInvariant, PTL

-----------------------------------------------------------------------------
(***************************************************************************)
(* EngineExecution for any number of calls.  The new directory lets one    *)
(* call past FreshOutput; the script only moves on, so a receipt that      *)
(* names the approved version names the one that ran; and once the call    *)
(* has seen its group end, nothing writes to the output any more.          *)
(***************************************************************************)
JobAt == {"new", "check", "fresh", "engine", "run", "wait", "hash", "verify", "ended"}
JobState == [at : JobAt, approved : Nat, ran : Nat, code : Nat, seen : Nat, file : Nat,
             survived : BOOLEAN]
GroupState == [parent : BOOLEAN, child : BOOLEAN, pipes : BOOLEAN]

EngineTypes ==
  /\ script \in Nat \ {0}
  /\ output \in [exists : BOOLEAN, file : Nat]
  /\ job \in [Job -> JobState]
  /\ group \in [Job -> GroupState]
  /\ DOMAIN receipt = Job

Ran(j) == job[j].ran > 0
InDirectory(j) == job[j].at \in {"engine", "run", "wait", "hash", "verify"} \/ Ran(j)

OneCall ==
  /\ \A j \in Job : InDirectory(j) => output.exists
  /\ \A i, j \in Job : InDirectory(i) /\ InDirectory(j) => i = j

(* What the call has measured so far.                                      *)
Measures(j) ==
  /\ job[j].at \in {"run", "wait", "hash", "verify"} => Ran(j)
  /\ job[j].at \in {"new", "check", "fresh", "engine"} => ~Ran(j)
  /\ Running(j) => Ran(j)
  /\ job[j].at \in {"fresh", "engine"} => job[j].approved <= script
  /\ job[j].at \in {"run", "wait", "hash", "verify"} =>
       job[j].approved <= job[j].ran /\ job[j].ran <= script
  /\ job[j].at = "verify" => job[j].ran <= job[j].seen
  /\ job[j].at \in {"hash", "verify"} /\ ~job[j].survived => ~Running(j)
  /\ job[j].at = "verify" /\ ~job[j].survived => job[j].file = output.file

Receipts(j) ==
  receipt[j].status = "complete" =>
    LET r == receipt[j] IN
    /\ job[j].at = "ended" /\ Ran(j)
    /\ r.file > 0
    /\ r.survived \/ (r.file = output.file /\ ~Running(j))
    /\ r.script = job[j].approved => r.ran = job[j].approved

EngineInv ==
  /\ EngineTypes /\ OneCall
  /\ \A j \in Job : Measures(j) /\ Receipts(j)

LEMMA EngineInvInit == EngineInit => EngineInv
<1> SUFFICES ASSUME EngineInit PROVE EngineInv
  OBVIOUS
<1>1. NewJob \in JobState /\ NewJob.at = "new" /\ NewJob.ran = 0
  BY DEF NewJob, JobState, JobAt
<1>2. NoGroup \in GroupState /\ ~NoGroup.parent /\ ~NoGroup.child
  BY DEF NoGroup, GroupState
<1>3. NoReceipt.status = "none"
  BY DEF NoReceipt
<1> QED BY <1>1, <1>2, <1>3 DEF EngineInit, EngineInv, EngineTypes, OneCall, InDirectory, Ran,
                                Measures, Running, Receipts

(* A step of one call, j, keeps the invariant if it keeps what is said of  *)
(* j: only a call that is in the directory may write there, and a call is  *)
(* in the directory because it was or because the directory is new.        *)
LEMMA EngineFrame ==
  ASSUME EngineInv, NEW j \in Job, EngineTypes',
         \A k \in Job \ {j} : job'[k] = job[k] /\ group'[k] = group[k] /\ receipt'[k] = receipt[k],
         script <= script', output.exists => output'.exists,
         output'.file = output.file \/ Running(j),
         InDirectory(j)' => output'.exists /\ (InDirectory(j) \/ ~output.exists),
         Measures(j)', Receipts(j)'
  PROVE  EngineInv'
<1>1. ASSUME NEW k \in Job \ {j}
      PROVE /\ InDirectory(k)' <=> InDirectory(k)
            /\ Ran(k)' <=> Ran(k)
            /\ Running(k)' <=> Running(k)
            /\ InDirectory(k) => output'.file = output.file
  <2>1. Running(j) => InDirectory(j)
    BY DEF EngineInv, Measures, InDirectory
  <2> QED BY <2>1 DEF EngineInv, OneCall, InDirectory, Ran, Running
<1>2. OneCall'
  BY <1>1 DEF EngineInv, OneCall
<1>3. ASSUME NEW k \in Job \ {j} PROVE Measures(k)'
  <2>1. /\ job[k] \in JobState /\ script \in Nat /\ script' \in Nat
        /\ job[k].approved \in Nat /\ job[k].ran \in Nat
    BY DEF EngineInv, EngineTypes, JobState
  <2>2. Measures(k)
    BY DEF EngineInv
  <2>3. job[k].at = "verify" => InDirectory(k)
    BY DEF InDirectory
  <2> QED BY <1>1, <2>1, <2>2, <2>3 DEF Measures
<1>4. ASSUME NEW k \in Job \ {j} PROVE Receipts(k)'
  <2>1. Receipts(k)
    BY DEF EngineInv
  <2>2. Ran(k) => InDirectory(k)
    BY DEF InDirectory
  <2> QED BY <1>1, <2>1, <2>2 DEF Receipts
<1> QED BY <1>2, <1>3, <1>4 DEF EngineInv

(* What a call's fields are after a step that sets them.                   *)
LEMMA EngineTypesPrimed ==
  ASSUME EngineTypes, NEW j \in Job, NEW s \in JobState, NEW g \in GroupState,
         script' \in Nat \ {0}, output' \in [exists : BOOLEAN, file : Nat],
         job' = [job EXCEPT ![j] = s], group' = [group EXCEPT ![j] = g], DOMAIN receipt' = Job
  PROVE  /\ EngineTypes'
         /\ job'[j] = s /\ group'[j] = g
         /\ \A k \in Job \ {j} : job'[k] = job[k] /\ group'[k] = group[k]
BY DEF EngineTypes

(* The steps that leave the output and the receipts alone.                 *)
LEMMA EngineQuietStep ==
  ASSUME EngineInv, NEW j \in Job, NEW s \in JobState, NEW g \in GroupState,
         script' = script, output' = output, receipt' = receipt,
         job' = [job EXCEPT ![j] = s], group' = [group EXCEPT ![j] = g],
         InDirectory(j)' => InDirectory(j), Measures(j)', Receipts(j)'
  PROVE  EngineInv'
<1>1. EngineTypes /\ OneCall
  BY DEF EngineInv
<1>2. /\ EngineTypes'
      /\ \A k \in Job \ {j} : job'[k] = job[k] /\ group'[k] = group[k]
  <2>1. script' \in Nat \ {0} /\ output' \in [exists : BOOLEAN, file : Nat] /\ DOMAIN receipt' = Job
    BY <1>1 DEF EngineTypes
  <2> QED BY <1>1, <2>1, EngineTypesPrimed
<1>3. script <= script'
  BY <1>1 DEF EngineTypes
<1>4. InDirectory(j)' => output'.exists
  BY <1>1 DEF OneCall
<1> QED BY <1>2, <1>3, <1>4, EngineFrame
(* What holds before a step of call j.                                     *)
LEMMA EngineBefore ==
  ASSUME EngineInv, NEW j \in Job
  PROVE  /\ job[j] \in JobState /\ group[j] \in GroupState
         /\ script \in Nat \ {0} /\ output.file \in Nat
         /\ Measures(j) /\ Receipts(j)
         /\ InDirectory(j) => output.exists
BY DEF EngineInv, EngineTypes, OneCall

(* The steps after which the call has ended, with nothing done.            *)
LEMMA EngineEnds ==
  ASSUME EngineInv, NEW j \in Job, job[j].at # "ended", Ends(j),
         UNCHANGED <<script, output, group, receipt>>
  PROVE  EngineInv'
<1> DEFINE s == [job[j] EXCEPT !.at = "ended"]
<1>1. /\ job[j] \in JobState /\ group[j] \in GroupState /\ Measures(j) /\ Receipts(j)
  BY EngineBefore
<1>2. /\ s \in JobState /\ s.at = "ended" /\ s.ran = job[j].ran /\ s.approved = job[j].approved
  BY <1>1 DEF JobState, JobAt
<1>3. job' = [job EXCEPT ![j] = s] /\ group' = [group EXCEPT ![j] = group[j]]
  BY DEF Ends, EngineInv, EngineTypes
<1>4. job'[j] = s
  BY <1>3 DEF EngineInv, EngineTypes
<1> HIDE DEF s
<1>5. InDirectory(j)' => InDirectory(j)
  BY <1>2, <1>4 DEF InDirectory, Ran
<1>6. Measures(j)'
  BY <1>1, <1>2, <1>4 DEF Measures, Ran, Running
<1>7. Receipts(j)'
  BY <1>1 DEF Receipts
<1> QED BY <1>1, <1>2, <1>3, <1>5, <1>6, <1>7, EngineQuietStep

LEMMA EngineRequest ==
  ASSUME EngineInv, NEW j \in Job, NEW approved \in 1..MaxScript, RequestRun(j, approved)
  PROVE  EngineInv'
<1> DEFINE s == [job[j] EXCEPT !.at = "check", !.approved = approved]
<1>1. /\ job[j] \in JobState /\ group[j] \in GroupState /\ Measures(j) /\ Receipts(j)
      /\ job[j].at = "new"
  BY EngineBefore DEF RequestRun
<1>0. approved \in Nat
  BY EngineAssumption
<1>2. /\ s \in JobState /\ s.at = "check" /\ s.ran = job[j].ran
  BY <1>0, <1>1 DEF JobState, JobAt
<1>3. job' = [job EXCEPT ![j] = s] /\ group' = [group EXCEPT ![j] = group[j]]
  BY DEF RequestRun, EngineInv, EngineTypes
<1>4. job'[j] = s
  BY <1>3 DEF EngineInv, EngineTypes
<1> HIDE DEF s
<1>5. InDirectory(j)' => InDirectory(j)
  BY <1>2, <1>4 DEF InDirectory, Ran
<1>6. Measures(j)'
  BY <1>1, <1>2, <1>4 DEF Measures, Ran, Running, RequestRun
<1>7. Receipts(j)'
  BY <1>1 DEF Receipts, RequestRun
<1> QED BY <1>1, <1>2, <1>3, <1>5, <1>6, <1>7, EngineQuietStep DEF RequestRun

LEMMA EngineCheck ==
  ASSUME EngineInv, NEW j \in Job, CheckScript(j)
  PROVE  EngineInv'
<1>1. CASE script # job[j].approved
  BY <1>1, EngineEnds DEF CheckScript
<1>2. CASE script = job[j].approved
  <2> DEFINE s == [job[j] EXCEPT !.at = "fresh"]
  <2>1. /\ job[j] \in JobState /\ group[j] \in GroupState /\ Measures(j) /\ Receipts(j)
        /\ job[j].at = "check"
    BY EngineBefore DEF CheckScript
  <2>2. /\ s \in JobState /\ s.at = "fresh" /\ s.ran = job[j].ran /\ s.approved = script
    BY <1>2, <2>1 DEF JobState, JobAt
  <2>3. job' = [job EXCEPT ![j] = s] /\ group' = [group EXCEPT ![j] = group[j]]
    BY <1>2 DEF CheckScript, Step, EngineInv, EngineTypes
  <2>4. job'[j] = s
    BY <2>3 DEF EngineInv, EngineTypes
  <2> HIDE DEF s
  <2>5. InDirectory(j)' => InDirectory(j)
    BY <2>2, <2>4 DEF InDirectory, Ran
  <2>6. Measures(j)'
    BY <2>1, <2>2, <2>4 DEF Measures, Ran, Running, CheckScript, EngineInv, EngineTypes
  <2>7. Receipts(j)'
    BY <2>1 DEF Receipts, CheckScript
  <2> QED BY <2>1, <2>2, <2>3, <2>5, <2>6, <2>7, EngineQuietStep DEF CheckScript
<1> QED BY <1>1, <1>2

LEMMA EngineFresh ==
  ASSUME EngineInv, NEW j \in Job, FreshOutput(j)
  PROVE  EngineInv'
<1>1. CASE output.exists
  BY <1>1, EngineEnds DEF FreshOutput
<1>2. CASE ~output.exists
  <2> DEFINE s == [job[j] EXCEPT !.at = "engine"]
  <2>1. /\ job[j] \in JobState /\ group[j] \in GroupState /\ Measures(j) /\ Receipts(j)
        /\ job[j].at = "fresh" /\ EngineTypes
    BY EngineBefore DEF FreshOutput, EngineInv
  <2>2. /\ s \in JobState /\ s.at = "engine" /\ s.ran = job[j].ran
        /\ s.approved = job[j].approved
    BY <2>1 DEF JobState, JobAt
  <2>3. job' = [job EXCEPT ![j] = s] /\ group' = [group EXCEPT ![j] = group[j]]
    BY <1>2, <2>1 DEF FreshOutput, Step, EngineTypes
  <2>4. /\ output' \in [exists : BOOLEAN, file : Nat]
        /\ output'.exists /\ output'.file = output.file
    BY <1>2, <2>1 DEF FreshOutput, EngineTypes
  <2>5. script' = script /\ receipt' = receipt /\ script' \in Nat \ {0} /\ script <= script'
        /\ DOMAIN receipt' = Job
    BY <2>1 DEF FreshOutput, EngineTypes
  <2> HIDE DEF s
  <2>6. /\ EngineTypes' /\ job'[j] = s /\ group'[j] = group[j]
        /\ \A k \in Job \ {j} : job'[k] = job[k] /\ group'[k] = group[k]
    <3>1. EngineTypes /\ s \in JobState /\ group[j] \in GroupState
      BY <2>1, <2>2
    <3>2. script' \in Nat \ {0} /\ output' \in [exists : BOOLEAN, file : Nat] /\ DOMAIN receipt' = Job
      BY <2>4, <2>5
    <3> QED BY <2>3, <3>1, <3>2, EngineTypesPrimed
  <2>7. Measures(j)'
    BY <2>1, <2>2, <2>5, <2>6 DEF Measures, Ran, Running
  <2>8. Receipts(j)'
    BY <2>1, <2>5 DEF Receipts
  <2>9. output'.file = output.file \/ Running(j)
    BY <2>4
  <2>10. InDirectory(j)' => output'.exists /\ (InDirectory(j) \/ ~output.exists)
    BY <1>2, <2>4
  <2>11. output.exists => output'.exists
    BY <2>4
  <2>12. \A k \in Job \ {j} : receipt'[k] = receipt[k]
    BY <2>5
  <2> QED BY <2>5, <2>6, <2>7, <2>8, <2>9, <2>10, <2>11, <2>12, EngineFrame
<1> QED BY <1>1, <1>2
LEMMA EngineStart ==
  ASSUME EngineInv, NEW j \in Job, StartEngine(j)
  PROVE  EngineInv'
<1> DEFINE s == [job[j] EXCEPT !.at = "run", !.ran = script]
           g == [parent |-> TRUE, child |-> FALSE, pipes |-> FALSE]
<1>1. /\ job[j] \in JobState /\ group[j] \in GroupState /\ Measures(j) /\ Receipts(j)
      /\ script \in Nat \ {0} /\ output.file \in Nat
  BY EngineBefore
<1>2. /\ s \in JobState
      /\ s.at = "run" /\ s.ran = script /\ s.approved = job[j].approved
  BY <1>1 DEF JobState, JobAt, StartEngine
<1>3. /\ g \in GroupState
      /\ TRUE
  BY <1>1 DEF GroupState, StartEngine
<1>4. job' = [job EXCEPT ![j] = s] /\ group' = [group EXCEPT ![j] = g]
  BY DEF StartEngine, EngineInv, EngineTypes
<1>5. job'[j] = s /\ group'[j] = g
  BY <1>4 DEF EngineInv, EngineTypes
<1> HIDE DEF s, g
<1>6. InDirectory(j)' => InDirectory(j)
  BY <1>1, <1>2, <1>5 DEF InDirectory, Ran, Measures, Running, StartEngine
<1>7. Measures(j)'
  BY <1>1, <1>2, <1>3, <1>5 DEF Measures, Ran, Running, StartEngine
<1>8. Receipts(j)'
  BY <1>1, <1>2, <1>3, <1>5 DEF Receipts, Ran, Running, StartEngine
<1> QED BY <1>1, <1>2, <1>3, <1>4, <1>6, <1>7, <1>8, EngineQuietStep DEF StartEngine

LEMMA EngineFork ==
  ASSUME EngineInv, NEW j \in Job, NEW pipes \in BOOLEAN, EngineForks(j, pipes)
  PROVE  EngineInv'
<1> DEFINE s == job[j]
           g == [group[j] EXCEPT !.child = TRUE, !.pipes = pipes]
<1>1. /\ job[j] \in JobState /\ group[j] \in GroupState /\ Measures(j) /\ Receipts(j)
      /\ script \in Nat \ {0} /\ output.file \in Nat
  BY EngineBefore
<1>2. /\ s \in JobState
      /\ s = job[j]
  BY <1>1 DEF JobState, JobAt, EngineForks
<1>3. /\ g \in GroupState
      /\ g.parent = group[j].parent
  BY <1>1 DEF GroupState, EngineForks
<1>4. job' = [job EXCEPT ![j] = s] /\ group' = [group EXCEPT ![j] = g]
  BY DEF EngineForks, EngineInv, EngineTypes
<1>5. job'[j] = s /\ group'[j] = g
  BY <1>4 DEF EngineInv, EngineTypes
<1> HIDE DEF s, g
<1>6. InDirectory(j)' => InDirectory(j)
  BY <1>1, <1>2, <1>5 DEF InDirectory, Ran, Measures, Running, EngineForks
<1>7. Measures(j)'
  BY <1>1, <1>2, <1>3, <1>5 DEF Measures, Ran, Running, EngineForks
<1>8. Receipts(j)'
  BY <1>1, <1>2, <1>3, <1>5 DEF Receipts, Ran, Running, EngineForks
<1> QED BY <1>1, <1>2, <1>3, <1>4, <1>6, <1>7, <1>8, EngineQuietStep DEF EngineForks

LEMMA EngineExit ==
  ASSUME EngineInv, NEW j \in Job, NEW code \in {0, 1}, EngineExits(j, code)
  PROVE  EngineInv'
<1> DEFINE s == [job[j] EXCEPT !.code = code]
           g == [group[j] EXCEPT !.parent = FALSE]
<1>1. /\ job[j] \in JobState /\ group[j] \in GroupState /\ Measures(j) /\ Receipts(j)
      /\ script \in Nat \ {0} /\ output.file \in Nat
  BY EngineBefore
<1>2. /\ s \in JobState
      /\ s.at = job[j].at /\ s.approved = job[j].approved /\ s.ran = job[j].ran
      /\ s.seen = job[j].seen /\ s.file = job[j].file /\ s.survived = job[j].survived
  BY <1>1 DEF JobState, JobAt, EngineExits
<1>3. /\ g \in GroupState
      /\ g.child = group[j].child /\ ~g.parent
  BY <1>1 DEF GroupState, EngineExits
<1>4. job' = [job EXCEPT ![j] = s] /\ group' = [group EXCEPT ![j] = g]
  BY DEF EngineExits, EngineInv, EngineTypes
<1>5. job'[j] = s /\ group'[j] = g
  BY <1>4 DEF EngineInv, EngineTypes
<1> HIDE DEF s, g
<1>6. InDirectory(j)' => InDirectory(j)
  BY <1>1, <1>2, <1>5 DEF InDirectory, Ran, Measures, Running, EngineExits
<1>7. Measures(j)'
  BY <1>1, <1>2, <1>3, <1>5 DEF Measures, Ran, Running, EngineExits
<1>8. Receipts(j)'
  BY <1>1, <1>2, <1>3, <1>5 DEF Receipts, Ran, Running, EngineExits
<1> QED BY <1>1, <1>2, <1>3, <1>4, <1>6, <1>7, <1>8, EngineQuietStep DEF EngineExits

LEMMA EngineChild ==
  ASSUME EngineInv, NEW j \in Job, ChildEnds(j)
  PROVE  EngineInv'
<1> DEFINE s == job[j]
           g == [group[j] EXCEPT !.child = FALSE, !.pipes = FALSE]
<1>1. /\ job[j] \in JobState /\ group[j] \in GroupState /\ Measures(j) /\ Receipts(j)
      /\ script \in Nat \ {0} /\ output.file \in Nat
  BY EngineBefore
<1>2. /\ s \in JobState
      /\ s = job[j]
  BY <1>1 DEF JobState, JobAt, ChildEnds
<1>3. /\ g \in GroupState
      /\ g.parent = group[j].parent /\ ~g.child
  BY <1>1 DEF GroupState, ChildEnds
<1>4. job' = [job EXCEPT ![j] = s] /\ group' = [group EXCEPT ![j] = g]
  BY DEF ChildEnds, EngineInv, EngineTypes
<1>5. job'[j] = s /\ group'[j] = g
  BY <1>4 DEF EngineInv, EngineTypes
<1> HIDE DEF s, g
<1>6. InDirectory(j)' => InDirectory(j)
  BY <1>1, <1>2, <1>5 DEF InDirectory, Ran, Measures, Running, ChildEnds
<1>7. Measures(j)'
  BY <1>1, <1>2, <1>3, <1>5 DEF Measures, Ran, Running, ChildEnds
<1>8. Receipts(j)'
  BY <1>1, <1>2, <1>3, <1>5 DEF Receipts, Ran, Running, ChildEnds
<1> QED BY <1>1, <1>2, <1>3, <1>4, <1>6, <1>7, <1>8, EngineQuietStep DEF ChildEnds

LEMMA EngineCommunicate ==
  ASSUME EngineInv, NEW j \in Job, Communicate(j)
  PROVE  EngineInv'
<1> DEFINE s == [job[j] EXCEPT !.at = "hash", !.survived = group[j].child]
           g == group[j]
<1>1. /\ job[j] \in JobState /\ group[j] \in GroupState /\ Measures(j) /\ Receipts(j)
      /\ script \in Nat \ {0} /\ output.file \in Nat
  BY EngineBefore
<1>2. /\ s \in JobState
      /\ s.at = "hash" /\ s.approved = job[j].approved /\ s.ran = job[j].ran /\ s.survived = group[j].child
  BY <1>1 DEF JobState, JobAt, Communicate, GroupState
<1>3. /\ g \in GroupState
      /\ g = group[j]
  BY <1>1 DEF GroupState, Communicate
<1>4. job' = [job EXCEPT ![j] = s] /\ group' = [group EXCEPT ![j] = g]
  BY DEF Communicate, EngineInv, EngineTypes
<1>5. job'[j] = s /\ group'[j] = g
  BY <1>4 DEF EngineInv, EngineTypes
<1> HIDE DEF s, g
<1>6. InDirectory(j)' => InDirectory(j)
  BY <1>1, <1>2, <1>5 DEF InDirectory, Ran, Measures, Running, Communicate
<1>7. Measures(j)'
  BY <1>1, <1>2, <1>3, <1>5 DEF Measures, Ran, Running, Communicate
<1>8. Receipts(j)'
  BY <1>1, <1>2, <1>3, <1>5 DEF Receipts, Ran, Running, Communicate
<1> QED BY <1>1, <1>2, <1>3, <1>4, <1>6, <1>7, <1>8, EngineQuietStep DEF Communicate

LEMMA EngineHash ==
  ASSUME EngineInv, NEW j \in Job, HashOutput(j)
  PROVE  EngineInv'
<1> DEFINE s == [job[j] EXCEPT !.at = "verify", !.seen = script, !.file = output.file]
           g == group[j]
<1>1. /\ job[j] \in JobState /\ group[j] \in GroupState /\ Measures(j) /\ Receipts(j)
      /\ script \in Nat \ {0} /\ output.file \in Nat
  BY EngineBefore
<1>2. /\ s \in JobState
      /\ s.at = "verify" /\ s.approved = job[j].approved /\ s.ran = job[j].ran
      /\ s.seen = script /\ s.file = output.file /\ s.survived = job[j].survived
  BY <1>1 DEF JobState, JobAt, HashOutput
<1>3. /\ g \in GroupState
      /\ g = group[j]
  BY <1>1 DEF GroupState, HashOutput
<1>4. job' = [job EXCEPT ![j] = s] /\ group' = [group EXCEPT ![j] = g]
  BY DEF HashOutput, HashedScript, EngineInv, EngineTypes
<1>5. job'[j] = s /\ group'[j] = g
  BY <1>4 DEF EngineInv, EngineTypes
<1> HIDE DEF s, g
<1>6. InDirectory(j)' => InDirectory(j)
  BY <1>1, <1>2, <1>5 DEF InDirectory, Ran, Measures, Running, HashOutput
<1>7. Measures(j)'
  BY <1>1, <1>2, <1>3, <1>5 DEF Measures, Ran, Running, HashOutput
<1>8. Receipts(j)'
  BY <1>1, <1>2, <1>3, <1>5 DEF Receipts, Ran, Running, HashOutput
<1> QED BY <1>1, <1>2, <1>3, <1>4, <1>6, <1>7, <1>8, EngineQuietStep DEF HashOutput
LEMMA EngineTimeOut ==
  ASSUME EngineInv, NEW j \in Job, TimeOutEngine(j)
  PROVE  EngineInv'
<1>1. /\ job[j] \in JobState /\ group[j] \in GroupState /\ Measures(j) /\ Receipts(j)
      /\ script \in Nat \ {0} /\ output.file \in Nat /\ job[j].at = "run"
  BY EngineBefore DEF TimeOutEngine
<1>2. NoGroup \in GroupState /\ ~NoGroup.parent /\ ~NoGroup.child
  BY DEF NoGroup, GroupState
<1>3. ASSUME NEW s \in JobState, NEW g \in GroupState,
             s.at = "wait", s.ran = job[j].ran, s.approved = job[j].approved,
             g = group[j] \/ g = NoGroup,
             job' = [job EXCEPT ![j] = s], group' = [group EXCEPT ![j] = g]
      PROVE  EngineInv'
  <2>1. job'[j] = s /\ group'[j] = g
    BY <1>3 DEF EngineInv, EngineTypes
  <2>2. InDirectory(j)' => InDirectory(j)
    BY <1>1, <1>3, <2>1 DEF InDirectory, Ran
  <2>3. Measures(j)'
    BY <1>1, <1>2, <1>3, <2>1 DEF Measures, Ran, Running, TimeOutEngine
  <2>4. Receipts(j)'
    BY <1>1 DEF Receipts, TimeOutEngine
  <2> QED BY <1>3, <2>2, <2>3, <2>4, EngineQuietStep DEF TimeOutEngine
<1>4. CASE group[j].parent
  <2> DEFINE s == [job[j] EXCEPT !.at = "wait", !.code = 9]
  <2>1. s \in JobState /\ s.at = "wait" /\ s.ran = job[j].ran /\ s.approved = job[j].approved
    BY <1>1 DEF JobState, JobAt
  <2>2. job' = [job EXCEPT ![j] = s] /\ group' = [group EXCEPT ![j] = NoGroup]
    BY <1>4 DEF TimeOutEngine
  <2> HIDE DEF s
  <2> QED BY <1>2, <1>3, <2>1, <2>2
<1>5. CASE ~group[j].parent
  <2> DEFINE s == [job[j] EXCEPT !.at = "wait"]
  <2>1. s \in JobState /\ s.at = "wait" /\ s.ran = job[j].ran /\ s.approved = job[j].approved
    BY <1>1 DEF JobState, JobAt
  <2>2. job' = [job EXCEPT ![j] = s] /\ group' = [group EXCEPT ![j] = group[j]]
    BY <1>5 DEF TimeOutEngine, Step, EngineInv, EngineTypes
  <2> HIDE DEF s
  <2> QED BY <1>1, <1>3, <2>1, <2>2
<1> QED BY <1>4, <1>5

(* A program that runs is in the directory, and its call has not returned  *)
(* a receipt that says nothing runs.                                       *)
LEMMA EngineWrite ==
  ASSUME EngineInv, NEW j \in Job, EngineWrites(j)
  PROVE  EngineInv'
<1>1. /\ EngineTypes /\ job[j] \in JobState /\ Measures(j) /\ Receipts(j)
      /\ output.file \in Nat /\ Running(j) /\ InDirectory(j) /\ output.exists
  <2>1. Measures(j) /\ Running(j)
    BY EngineBefore DEF EngineWrites
  <2>2. InDirectory(j)
    BY <2>1 DEF Measures, InDirectory
  <2> QED BY <2>1, <2>2, EngineBefore DEF EngineInv
<1>2. /\ output' \in [exists : BOOLEAN, file : Nat] /\ output'.exists
      /\ script' = script /\ job' = job /\ group' = group /\ receipt' = receipt
  BY <1>1 DEF EngineWrites, EngineTypes
<1>3. EngineTypes'
  BY <1>1, <1>2 DEF EngineTypes
<1>4. Measures(j)'
  BY <1>1, <1>2 DEF Measures, Ran, Running
<1>5. Receipts(j)'
  BY <1>1, <1>2 DEF Receipts, Ran, Running
<1>6. script <= script'
  BY <1>1, <1>2 DEF EngineTypes
<1> QED BY <1>1, <1>2, <1>3, <1>4, <1>5, <1>6, EngineFrame

LEMMA EngineReturn ==
  ASSUME EngineInv, NEW j \in Job, ReturnReceipt(j)
  PROVE  EngineInv'
<1> DEFINE s == [job[j] EXCEPT !.at = "ended"]
           r == [status |-> IF job[j].code = 0 /\ output.file > 0 THEN "complete" ELSE "failed",
                 script |-> job[j].seen, ran |-> job[j].ran,
                 file |-> IF job[j].file = 0 THEN output.file ELSE job[j].file,
                 survived |-> job[j].survived]
<1>1. /\ job[j] \in JobState /\ group[j] \in GroupState /\ Measures(j)
      /\ script \in Nat \ {0} /\ output.file \in Nat /\ job[j].at = "verify"
      /\ EngineTypes /\ (InDirectory(j) => output.exists)
  BY EngineBefore DEF ReturnReceipt, Step, EngineInv
<1>2. /\ s \in JobState /\ s.at = "ended"
      /\ s.ran = job[j].ran /\ s.approved = job[j].approved
  BY <1>1 DEF JobState, JobAt
<1>3. /\ job' = [job EXCEPT ![j] = s] /\ group' = [group EXCEPT ![j] = group[j]]
      /\ receipt' = [receipt EXCEPT ![j] = r]
      /\ script' = script /\ output' = output
  BY <1>1 DEF ReturnReceipt, Step, EngineTypes
<1>4. /\ receipt'[j] = r /\ DOMAIN receipt' = Job
      /\ \A k \in Job \ {j} : receipt'[k] = receipt[k]
  BY <1>1, <1>3 DEF EngineTypes
<1>5. r.status = "complete" =>
        /\ r.file > 0
        /\ r.survived \/ (r.file = output.file /\ ~Running(j))
        /\ r.script = job[j].approved => r.ran = job[j].approved
  <2>1. /\ job[j].file \in Nat /\ job[j].seen \in Nat /\ job[j].ran \in Nat
        /\ job[j].approved \in Nat
    BY <1>1 DEF JobState
  <2>2. /\ job[j].approved <= job[j].ran /\ job[j].ran <= job[j].seen
        /\ job[j].survived \/ (~Running(j) /\ job[j].file = output.file)
    BY <1>1 DEF Measures
  <2> QED BY <1>1, <2>1, <2>2
<1> HIDE DEF s, r
<1>6. /\ EngineTypes' /\ job'[j] = s /\ group'[j] = group[j]
      /\ \A k \in Job \ {j} : job'[k] = job[k] /\ group'[k] = group[k]
  <2>1. script' \in Nat \ {0} /\ output' \in [exists : BOOLEAN, file : Nat] /\ DOMAIN receipt' = Job
    BY <1>1, <1>3, <1>4 DEF EngineTypes
  <2>2. EngineTypes /\ s \in JobState /\ group[j] \in GroupState
    BY <1>1, <1>2
  <2>3. job' = [job EXCEPT ![j] = s] /\ group' = [group EXCEPT ![j] = group[j]]
    BY <1>3
  <2> QED BY <2>1, <2>2, <2>3, EngineTypesPrimed
<1>7. Ran(j) /\ InDirectory(j) /\ Ran(j)'
  BY <1>1, <1>2, <1>6 DEF Measures, Ran, InDirectory
<1>8. Measures(j)'
  BY <1>1, <1>2, <1>6, <1>7 DEF Measures, Running
<1>9. Receipts(j)'
  BY <1>2, <1>3, <1>4, <1>5, <1>6, <1>7 DEF Receipts, Running
<1>10. script <= script' /\ output'.file = output.file
  BY <1>1, <1>3 DEF EngineTypes
<1> QED BY <1>1, <1>3, <1>4, <1>6, <1>7, <1>8, <1>9, <1>10, EngineFrame

LEMMA EngineEdit ==
  ASSUME EngineInv, EditScript
  PROVE  EngineInv'
<1>1. /\ EngineTypes' /\ script <= script' /\ output' = output /\ job' = job /\ group' = group
      /\ receipt' = receipt /\ script \in Nat /\ script' \in Nat
  BY DEF EditScript, EngineInv, EngineTypes
<1>2. OneCall'
  BY <1>1 DEF EngineInv, OneCall, InDirectory, Ran
<1>3. ASSUME NEW k \in Job PROVE Measures(k)' /\ Receipts(k)'
  <2>1. /\ Measures(k) /\ Receipts(k)
        /\ job[k].approved \in Nat /\ job[k].ran \in Nat
    BY DEF EngineInv, EngineTypes, JobState
  <2>2. Measures(k)'
    BY <1>1, <2>1 DEF Measures, Ran, Running
  <2> QED BY <1>1, <2>1, <2>2 DEF Receipts, Ran, Running
<1> QED BY <1>1, <1>2, <1>3 DEF EngineInv

LEMMA EngineInvNext == EngineInv /\ [EngineNext]_engineVars => EngineInv'
<1> SUFFICES ASSUME EngineInv, [EngineNext]_engineVars PROVE EngineInv'
  OBVIOUS
<1>1. ASSUME NEW j \in Job,
             NoEngine(j) \/ WaitEnds(j) \/ HashOutputFails(j) \/ StopRuntime(j)
      PROVE  EngineInv'
  BY <1>1, EngineEnds DEF NoEngine, WaitEnds, HashOutputFails, StopRuntime
<1>2. ASSUME NEW j \in Job,
             \/ CheckScript(j) \/ FreshOutput(j) \/ StartEngine(j)
             \/ EngineWrites(j) \/ ChildEnds(j)
      PROVE  EngineInv'
  BY <1>2, EngineCheck, EngineFresh, EngineStart, EngineWrite, EngineChild
<1>3. ASSUME NEW j \in Job,
             Communicate(j) \/ TimeOutEngine(j) \/ HashOutput(j) \/ ReturnReceipt(j)
      PROVE  EngineInv'
  BY <1>3, EngineCommunicate, EngineTimeOut, EngineHash, EngineReturn
<1>4. CASE UNCHANGED engineVars
  BY <1>4 DEF engineVars, EngineInv, EngineTypes, OneCall, InDirectory, Measures, Receipts, Ran, Running
<1>5. ASSUME NEW j \in Job, NEW approved \in 1..MaxScript, RequestRun(j, approved)
      PROVE  EngineInv'
  BY <1>5, EngineRequest
<1>6. ASSUME NEW j \in Job, NEW pipes \in BOOLEAN, EngineForks(j, pipes)
      PROVE  EngineInv'
  BY <1>6, EngineFork
<1>7. ASSUME NEW j \in Job, NEW code \in {0, 1}, EngineExits(j, code)
      PROVE  EngineInv'
  BY <1>7, EngineExit
<1> QED BY <1>1, <1>2, <1>3, <1>4, <1>5, <1>6, <1>7, EngineEdit DEF EngineNext

(* A receipt that says complete names the output that is there, and the    *)
(* script it names, if approved, is the one that ran, for any number of    *)
(* calls of _engine_execute that ask for the same directory.               *)
THEOREM ReceiptsAreTrue == EngineSpec => []ReceiptIsTrue
<1>1. EngineInv => ReceiptIsTrue
  BY DEF EngineInv, Receipts, ReceiptIsTrue
<1> QED BY <1>1, EngineInvInit, EngineInvNext, PTL DEF EngineSpec

-----------------------------------------------------------------------------
(***************************************************************************)
(* ContextPacker for any artifacts, budget and graph of dependencies.      *)
(* What is known of an artifact depends on how far pack is: behind the     *)
(* scan it is a candidate, or chosen, or did not fit (and the budget only  *)
(* fills up); ahead of it nothing is known but the ancestors, which are    *)
(* closed up to the frontier.                                              *)
(***************************************************************************)
Quotes == [id : Id, content : Nat, score : Nat]
Kept == [id : Id, content : Nat, excerpts : Nat, tokens : Nat]
PackerState ==
  [at : {"ancestors", "scan", "read", "select", "failed", "done"},
   ancestors : SUBSET PackTask, frontier : SUBSET PackTask, next : Nat \ {0},
   candidates : SUBSET Quotes, selected : SUBSET Kept, used : Nat]

ContextTypes ==
  /\ depends \in [PackTask -> SUBSET PackTask]
  /\ allowed \in BOOLEAN
  /\ file \in [Id -> Nat]
  /\ writes \in Nat
  /\ replaced \subseteq Id
  /\ packer \in PackerState

Ancestry ==
  /\ depends[Packed] \subseteq packer.ancestors
  /\ \A t \in packer.ancestors : Ancestor(t)
  /\ packer.frontier \subseteq packer.ancestors
  /\ \A t \in packer.ancestors \ packer.frontier : depends[t] \subseteq packer.ancestors
  /\ ~PackerAt("ancestors") => packer.frontier = {}

MaySee(i) ==
  /\ Artifact[i].producer \in packer.ancestors \union {0}
  /\ External(i) \/ Artifact[i].role

CandidateIds == {q.id : q \in packer.candidates}

(* Content is quoted where it is allowed, and is the recorded one unless   *)
(* the file was replaced before it was read.                               *)
QuotesFairly(q) == q.content # 0 => allowed /\ (q.content = 1 \/ q.id \in replaced)

Candidates ==
  /\ IsFiniteSet(packer.candidates)
  /\ \A q \in packer.candidates : q.id < packer.next /\ MaySee(q.id) /\ QuotesFairly(q)
  /\ \A q, r \in packer.candidates : q.id = r.id => q = r

Selection ==
  /\ packer.used <= Budget
  /\ \A s \in packer.selected : MaySee(s.id) /\ QuotesFairly(s)
  /\ \A i \in Id : i < packer.next /\ MaySee(i) =>
       i \in CandidateIds \union SelectedIds \/ packer.used + Tokens(i, 0) > Budget

Progress ==
  /\ PackerAt("ancestors") => packer.next = 1
  /\ packer.at \in {"ancestors", "scan", "read"} => packer.selected = {}
  /\ PackerAt("ancestors") => packer.candidates = {}
  /\ PackerAt("read") => /\ Current \in Id /\ MaySee(Current) /\ allowed
                         /\ file[Current] = 1 \/ Current \in replaced
  /\ packer.at \in {"select", "done"} => Current \notin Id
  /\ PackerAt("done") => packer.candidates = {}

ContextInv == ContextTypes /\ Ancestry /\ Candidates /\ Selection /\ Progress

(* What ContextAssumption says of one artifact.                            *)
ArtifactState == [producer : Nat, external : BOOLEAN, role : BOOLEAN, text : BOOLEAN,
                  costs : Seq(Nat), terms : Nat, match : Nat]

LEMMA OneArtifact ==
  ASSUME NEW i \in Id
  PROVE  /\ i \in Nat \ {0}
         /\ Artifact[i] \in ArtifactState
         /\ Artifact[i].costs \in Seq(Nat) /\ Len(Artifact[i].costs) \in Nat \ {0}
         /\ \A n \in 0..(Len(Artifact[i].costs) - 1) : Tokens(i, n) \in Nat
<1>1. Artifact \in Seq(ArtifactState)
  BY ContextAssumption DEF ContextAssumption, ArtifactState
<1>2. i \in Nat \ {0} /\ Artifact[i] \in ArtifactState
  BY <1>1 DEF Id
<1>3. Artifact[i].costs \in Seq(Nat)
  BY <1>2 DEF ArtifactState
<1>4. Len(Artifact[i].costs) > 0
  BY ContextAssumption DEF ContextAssumption, Id
<1> QED BY <1>2, <1>3, <1>4 DEF Tokens

(* Finitely many quotes of different artifacts have a most relevant one:   *)
(* the one that the fewest are before.                                     *)
LEMMA MostRelevant ==
  ASSUME NEW S \in SUBSET Quotes, IsFiniteSet(S), S # {},
         \A q, r \in S : q.id = r.id => q = r
  PROVE  \E q \in S : \A r \in S \ {q} : Before(q, r)
<1> DEFINE Ahead(q) == {r \in S : Before(r, q)}
           Ranks == {Cardinality(Ahead(q)) : q \in S}
<1>0. ASSUME NEW q \in S PROVE q.id \in Nat /\ q.score \in Nat
  BY OneArtifact DEF Quotes
<1>1. ASSUME NEW q \in S PROVE IsFiniteSet(Ahead(q)) /\ Cardinality(Ahead(q)) \in Nat
  BY FS_Subset, FS_CardinalityType, Ahead(q) \in SUBSET S
<1>2. PICK q \in S : \A r \in S : Cardinality(Ahead(q)) <= Cardinality(Ahead(r))
  <2> HIDE DEF Ahead
  <2>1. Ranks \subseteq Nat /\ Ranks # {}
    <3>1. \A r \in S : Cardinality(Ahead(r)) \in Nat
      BY <1>1
    <3> QED BY <3>1
  <2>2. PICK n \in Ranks : \A m \in Ranks : n <= m
    BY <2>1, LeastNatural
  <2> QED BY <2>2
<1>3. ASSUME NEW r \in S, Before(r, q) PROVE FALSE
  <2>1. Ahead(r) \subseteq Ahead(q)
    BY <1>0, <1>3 DEF Before
  <2>2. r \in Ahead(q) /\ r \notin Ahead(r)
    BY <1>0, <1>3 DEF Before
  <2> HIDE DEF Ahead
  <2>3. Cardinality(Ahead(r)) <= Cardinality(Ahead(q))
        /\ Cardinality(Ahead(q)) # Cardinality(Ahead(r))
    BY <1>1, <2>1, <2>2, FS_Subset
  <2> QED BY <1>1, <1>2, <2>3
<1>4. ASSUME NEW r \in S \ {q} PROVE Before(q, r)
  BY <1>0, <1>3, q.id # r.id DEF Before
<1> QED BY <1>4

LEMMA BestIsCandidate ==
  ASSUME ContextInv, packer.candidates # {}
  PROVE  Best \in packer.candidates
<1>1. \E a \in packer.candidates : \A b \in packer.candidates \ {a} : Before(a, b)
  BY MostRelevant DEF ContextInv, ContextTypes, PackerState, Candidates
<1> HIDE DEF ContextInv
<1> QED BY <1>1, Zenon DEF Best

(* The tokens of an artifact are natural numbers, and excerpts are taken   *)
(* only as long as they fit.                                               *)
LEMMA PrefixFits ==
  ASSUME ContextTypes, NEW q \in Quotes
  PROVE  /\ Prefix(q) \in Nat
         /\ Tokens(q.id, Prefix(q)) \in Nat
         /\ Prefix(q) = 0 \/ Fits(Tokens(q.id, Prefix(q)))
<1> DEFINE costs == Artifact[q.id].costs
           all == IF q.content = 0 THEN 0 ELSE Len(costs) - 1
           stops == {n \in 0..all : n = all \/ ~Fits(Tokens(q.id, n + 1))}
<1>1. costs \in Seq(Nat) /\ Len(costs) > 0 /\ Len(costs) \in Nat
  BY OneArtifact DEF Quotes
<1>2. all \in Nat /\ all < Len(costs)
  BY <1>1
<1>3. PICK n \in stops : \A m \in stops : n <= m
  <2>1. stops \subseteq Nat /\ all \in stops
    BY <1>2
  <2> HIDE DEF stops
  <2> QED BY <2>1, LeastNatural
<1>4. Prefix(q) \in stops /\ \A m \in stops : Prefix(q) <= m
  <2>1. Prefix(q) = CHOOSE k \in stops : \A m \in stops : k <= m
    BY DEF Prefix
  <2> HIDE DEF stops
  <2> QED BY <1>3, <2>1
<1>5. ASSUME Prefix(q) # 0 PROVE Fits(Tokens(q.id, Prefix(q)))
  <2>1. Prefix(q) - 1 \in 0..all /\ Prefix(q) - 1 \notin stops
    BY <1>2, <1>4, <1>5
  <2> QED BY <2>1, <1>2, <1>4
<1>6. Tokens(q.id, Prefix(q)) \in Nat
  <2>1. Prefix(q) \in 0..(Len(costs) - 1)
    BY <1>1, <1>2, <1>4
  <2> QED BY <2>1, OneArtifact DEF Quotes
<1> QED BY <1>2, <1>4, <1>5, <1>6
LEMMA ContextInvInit == ContextInit => ContextInv
<1> SUFFICES ASSUME ContextInit PROVE ContextInv
  OBVIOUS
<1> USE DEF ContextInit
<1>1. depends \in [PackTask -> SUBSET PackTask] /\ depends[Packed] \in SUBSET PackTask
  BY ContextAssumption DEF ContextAssumption
<1>2. file \in [Id -> Nat]
  <2>1. file \in [Id -> 0..2]
    OBVIOUS
  <2> QED BY <2>1
<1>3. ContextTypes
  BY <1>1, <1>2 DEF ContextTypes, PackerState
<1>4. Ancestry
  BY <1>1 DEF Ancestry, Ancestor, PackerAt
<1>5. Candidates
  BY FS_EmptySet DEF Candidates
<1>6. Selection
  <2>1. packer.used = 0 /\ packer.selected = {} /\ packer.next = 1
    OBVIOUS
  <2>2. \A i \in Id : ~(i < 1)
    BY OneArtifact
  <2>3. Budget \in Nat
    BY ContextAssumption DEF ContextAssumption
  <2> HIDE DEF ContextInit
  <2> QED BY <2>1, <2>2, <2>3 DEF Selection
<1>7. Progress
  BY DEF Progress, PackerAt
<1> QED BY <1>3, <1>4, <1>5, <1>6, <1>7 DEF ContextInv

(* Steps after the ancestors are known leave them as they are.             *)
LEMMA AncestryKept ==
  ASSUME Ancestry, depends' = depends,
         packer'.ancestors = packer.ancestors, packer'.frontier = packer.frontier,
         packer.at = "ancestors" => packer'.at = "ancestors"
  PROVE  Ancestry'
<1>1. \A t : Ancestor(t) => Ancestor(t)'
  BY DEF Ancestor
<1> QED BY <1>1 DEF Ancestry, PackerAt

LEMMA FollowStep ==
  ASSUME ContextInv, NEW t \in PackTask, FollowTask(t)
  PROVE  ContextInv'
<1> USE DEF ContextInv
<1> DEFINE new == NewAncestors(t)
<1>1. /\ packer.at = "ancestors" /\ t \in packer.frontier /\ t \in packer.ancestors
      /\ packer' = [packer EXCEPT !.ancestors = @ \union new,
                                  !.frontier = (@ \ {t}) \union new]
      /\ UNCHANGED projectVars
  BY DEF FollowTask, PackerAt, Ancestry
<1>2. new \subseteq PackTask /\ new \subseteq depends[t] /\ depends[t] \subseteq packer.ancestors \union new
  BY DEF ContextTypes, NewAncestors
<1> HIDE DEF new
<1>3. packer \in PackerState
  BY DEF ContextTypes
<1>4. /\ packer' \in PackerState
      /\ packer'.ancestors = packer.ancestors \union new
      /\ packer'.frontier = (packer.frontier \ {t}) \union new
      /\ packer'.at = "ancestors" /\ packer'.next = packer.next
      /\ packer'.candidates = packer.candidates /\ packer'.selected = packer.selected
      /\ packer'.used = packer.used
  BY <1>1, <1>2, <1>3 DEF PackerState
<1>5. ContextTypes'
  BY <1>1, <1>4 DEF ContextTypes, projectVars
<1>6. Ancestry'
  <2>1. \A u : Ancestor(u) => Ancestor(u)'
    BY <1>1 DEF Ancestor, projectVars
  <2>2. Ancestor(t)
    BY <1>1 DEF Ancestry
  <2>3. \A u \in new : Ancestor(u)
    BY <1>2, <2>2 DEF Ancestor
  <2>4. \A u \in packer'.ancestors : Ancestor(u)'
    BY <1>4, <2>1, <2>3 DEF Ancestry
  <2>5. \A u \in packer'.ancestors \ packer'.frontier : depends[u] \subseteq packer'.ancestors
    BY <1>2, <1>4 DEF Ancestry
  <2> QED BY <1>1, <1>4, <2>4, <2>5 DEF Ancestry, PackerAt, projectVars
<1>7. packer.next = 1 /\ packer.candidates = {} /\ packer.selected = {}
  BY <1>1 DEF Progress, PackerAt
<1>8. Candidates' /\ Progress'
  BY <1>1, <1>4, <1>7 DEF Candidates, Progress, PackerAt
<1>9. Selection'
  <2>1. \A i \in Id : ~(i < 1)
    BY OneArtifact
  <2> QED BY <1>4, <1>7, <2>1 DEF Selection
<1> QED BY <1>5, <1>6, <1>8, <1>9

(* What is known of a candidate or of an artifact passed over stays true   *)
(* when the files do not change.                                           *)
LEMMA SeenKept ==
  ASSUME packer'.ancestors = packer.ancestors
  PROVE  \A i : MaySee(i)' = MaySee(i)
BY DEF MaySee, External

(* Pack moves from one loop to the next.                                   *)
LEMMA MoveOn ==
  ASSUME ContextInv, UNCHANGED projectVars, ~PackerAt("done"),
         NEW place \in {"scan", "read", "select", "failed", "done"},
         packer' = [packer EXCEPT !.at = place],
         place = "scan" => packer.frontier = {} /\ packer.selected = {},
         place = "read" => /\ packer.at = "scan" /\ Current \in Id /\ MaySee(Current) /\ allowed
                           /\ file[Current] = 1,
         place = "select" => Current \notin Id,
         place = "done" => Current \notin Id /\ packer.candidates = {},
         PackerAt("ancestors") => place = "scan"
  PROVE  ContextInv'
<1> USE DEF ContextInv
<1>1. packer \in PackerState
  BY DEF ContextTypes
<1>2. /\ packer' \in PackerState
      /\ packer'.at = place /\ packer'.ancestors = packer.ancestors
      /\ packer'.frontier = packer.frontier /\ packer'.next = packer.next
      /\ packer'.candidates = packer.candidates /\ packer'.selected = packer.selected
      /\ packer'.used = packer.used
  BY <1>1 DEF PackerState
<1>3. ContextTypes'
  BY <1>2 DEF ContextTypes, projectVars
<1>4. Ancestry'
  <2>1. packer.frontier = {}
    BY DEF Ancestry, PackerAt
  <2>2. \A t : Ancestor(t) => Ancestor(t)'
    BY DEF Ancestor, projectVars
  <2> QED BY <1>2, <2>1, <2>2 DEF Ancestry, PackerAt, projectVars
<1>5. \A i : MaySee(i)' = MaySee(i)
  BY <1>2, SeenKept
<1>6. Candidates' /\ Selection'
  BY <1>2, <1>5 DEF Candidates, Selection, CandidateIds, SelectedIds, QuotesFairly, projectVars
<1>7. Progress'
  BY <1>2, <1>5 DEF Progress, PackerAt, Current, projectVars
<1> QED BY <1>3, <1>4, <1>6, <1>7

(* The scan goes past an artifact, which becomes a candidate if the task   *)
(* may see it.                                                             *)
LEMMA ScanStep ==
  ASSUME ContextInv, UNCHANGED projectVars, packer.at \in {"scan", "read"}, Current \in Id,
         NEW new \in SUBSET Quotes,
         \A q \in new : q.id = Current /\ MaySee(Current) /\ QuotesFairly(q),
         \A q, r \in new : q = r,
         MaySee(Current) => new # {},
         packer' = [packer EXCEPT !.at = "scan", !.next = @ + 1,
                                  !.candidates = @ \union new]
  PROVE  ContextInv'
<1> USE DEF ContextInv
<1>1. packer \in PackerState /\ packer.next \in Nat /\ packer.next # 0
  BY DEF ContextTypes, PackerState
<1>2. /\ packer'.at = "scan" /\ packer'.ancestors = packer.ancestors
      /\ packer'.frontier = packer.frontier /\ packer'.next = packer.next + 1
      /\ packer'.candidates = packer.candidates \union new
      /\ packer'.selected = packer.selected /\ packer'.used = packer.used
      /\ packer' \in PackerState
  <2>1. packer.candidates \union new \in SUBSET Quotes /\ packer.next + 1 \in Nat \ {0}
    BY <1>1 DEF PackerState
  <2> QED BY <1>1, <2>1 DEF PackerState
<1>3. ContextTypes'
  BY <1>2 DEF ContextTypes, projectVars
<1>4. Ancestry'
  BY <1>2, AncestryKept DEF PackerAt, projectVars
<1>5. \A i : MaySee(i)' = MaySee(i)
  BY <1>2, SeenKept
<1>6. \A q : QuotesFairly(q) => QuotesFairly(q)'
  BY DEF QuotesFairly, projectVars
<1>7. Candidates'
  <2>1. IsFiniteSet(new)
    <3>1. CASE new = {}
      BY <3>1, FS_EmptySet
    <3>2. ASSUME NEW q \in new PROVE IsFiniteSet(new)
      BY <3>2, FS_Singleton, new = {q}
    <3> QED BY <3>1, <3>2
  <2>2. IsFiniteSet(packer'.candidates)
    <3>1. IsFiniteSet(packer.candidates)
      BY DEF Candidates
    <3>2. IsFiniteSet(packer.candidates \union new)
      BY <2>1, <3>1, FS_Union
    <3> QED BY <1>2, <3>2
  <2>3. ASSUME NEW q \in packer'.candidates
        PROVE  q.id < packer'.next /\ MaySee(q.id)' /\ QuotesFairly(q)'
    <3>1. CASE q \in new
      BY <1>1, <1>2, <1>5, <1>6, <3>1 DEF Current
    <3>2. CASE q \in packer.candidates
      <4>1. q.id \in Nat /\ q.id < packer.next
        BY <3>2, OneArtifact DEF Candidates, ContextTypes, PackerState, Quotes
      <4> QED BY <1>1, <1>2, <1>5, <1>6, <3>2, <4>1 DEF Candidates
    <3> QED BY <1>2, <3>1, <3>2
  <2>4. ASSUME NEW q \in packer'.candidates, NEW r \in packer'.candidates, q.id = r.id
        PROVE  q = r
    <3>1. \A c \in packer.candidates : c.id < packer.next
      BY DEF Candidates
    <3>2. \A c \in new : c.id = packer.next
      BY DEF Current
    <3>3. \A c \in packer.candidates : c.id # packer.next
      BY <1>1, <3>1
    <3> QED BY <1>2, <2>4, <3>2, <3>3 DEF Candidates
  <2> QED BY <2>2, <2>3, <2>4 DEF Candidates
<1>8. Selection'
  <2>1. CandidateIds \subseteq CandidateIds' /\ SelectedIds' = SelectedIds
    BY <1>2 DEF CandidateIds, SelectedIds
  <2>2. ASSUME NEW i \in Id, i < packer'.next, MaySee(i)
        PROVE  i \in CandidateIds' \union SelectedIds' \/ packer'.used + Tokens(i, 0) > Budget
    <3>1. CASE i < packer.next
      BY <1>2, <2>1, <2>2, <3>1 DEF Selection
    <3>2. CASE i = Current
      BY <1>2, <2>2, <3>2 DEF CandidateIds
    <3>3. i < packer.next \/ i = Current
      BY <1>1, <1>2, <2>2, OneArtifact DEF Current
    <3> QED BY <3>1, <3>2, <3>3
  <2> QED BY <1>2, <1>5, <1>6, <2>2 DEF Selection
<1>9. Progress'
  BY <1>2 DEF Progress, PackerAt
<1> QED BY <1>3, <1>4, <1>7, <1>8, <1>9

LEMMA AddStep ==
  ASSUME ContextInv, UNCHANGED projectVars, packer.at \in {"scan", "read"}, Current \in Id,
         NEW q \in Quotes, q.id = Current, MaySee(Current), QuotesFairly(q), Add(q)
  PROVE  ContextInv'
<1> DEFINE new == {q}
<1>1. /\ new \in SUBSET Quotes /\ new # {}
      /\ \A r \in new : r.id = Current /\ MaySee(Current) /\ QuotesFairly(r)
      /\ \A r, s \in new : r = s
  OBVIOUS
<1>2. packer' = [packer EXCEPT !.at = "scan", !.next = @ + 1, !.candidates = @ \union new]
  BY DEF Add
<1> HIDE DEF new
<1> QED BY <1>1, <1>2, ScanStep

(* The best candidate is taken if it fits, and dropped if it does not:     *)
(* then its prefix is empty, so its reference does not fit, now or later.  *)
LEMMA SelectStep == ContextInv /\ SelectNext => ContextInv'
<1> SUFFICES ASSUME ContextInv, SelectNext PROVE ContextInv'
  OBVIOUS
<1> DEFINE best == Best
           tokens == Tokens(best.id, Prefix(best))
           kept == [id |-> best.id, content |-> best.content, excerpts |-> Prefix(best),
                    tokens |-> tokens]
<1>1. /\ packer.at = "select" /\ UNCHANGED projectVars
      /\ packer' = IF Fits(tokens)
                   THEN [packer EXCEPT !.candidates = @ \ {best}, !.used = @ + tokens,
                                       !.selected = @ \union {kept}]
                   ELSE [packer EXCEPT !.candidates = @ \ {best}]
  BY DEF SelectNext, PackerAt
<1>2. best \in packer.candidates
  BY BestIsCandidate DEF SelectNext
<1>3. /\ packer \in PackerState /\ best \in Quotes
      /\ packer.used \in Nat /\ Budget \in Nat
  BY <1>2, ContextAssumption DEF ContextInv, ContextTypes, PackerState, ContextAssumption
<1>4. /\ Prefix(best) \in Nat /\ tokens \in Nat
      /\ Prefix(best) = 0 \/ Fits(tokens)
  BY <1>3, PrefixFits DEF ContextInv
<1>5. best.id \in Id /\ best.content \in Nat /\ Tokens(best.id, 0) \in Nat
  BY <1>3, OneArtifact DEF Quotes
<1>6. ~Fits(tokens) => packer.used + Tokens(best.id, 0) > Budget
  BY <1>3, <1>4, <1>5 DEF Fits
<1>7. kept \in Kept /\ kept.id = best.id /\ kept.content = best.content
  BY <1>4, <1>5 DEF Kept
<1>8. Fits(tokens) => packer.used + tokens <= Budget
  BY DEF Fits
<1> HIDE DEF best, tokens, kept
<1>9. /\ packer'.at = "select" /\ packer'.ancestors = packer.ancestors
      /\ packer'.frontier = packer.frontier /\ packer'.next = packer.next
      /\ packer'.candidates = packer.candidates \ {best}
      /\ \/ /\ packer'.selected = packer.selected \union {kept}
            /\ packer'.used = packer.used + tokens /\ packer'.used <= Budget
         \/ /\ packer'.selected = packer.selected /\ packer'.used = packer.used
            /\ packer.used + Tokens(best.id, 0) > Budget
      /\ packer' \in PackerState
  <2>1. packer.selected \union {kept} \in SUBSET Kept /\ packer.used + tokens \in Nat
        /\ packer.candidates \ {best} \in SUBSET Quotes
    BY <1>3, <1>4, <1>7 DEF PackerState
  <2>2. CASE Fits(tokens)
    BY <1>1, <1>3, <1>8, <2>1, <2>2 DEF PackerState
  <2>3. CASE ~Fits(tokens)
    BY <1>1, <1>3, <1>6, <2>1, <2>3 DEF PackerState
  <2> QED BY <2>2, <2>3
<1>10. ContextTypes'
  BY <1>1, <1>9 DEF ContextInv, ContextTypes, projectVars
<1>11. Ancestry'
  BY <1>1, <1>9, AncestryKept DEF ContextInv, projectVars
<1>12. \A i : MaySee(i)' = MaySee(i)
  BY <1>9, SeenKept
<1>13. \A q : QuotesFairly(q)' = QuotesFairly(q)
  BY <1>1 DEF QuotesFairly, projectVars
<1>14. Candidates'
  <2>1. IsFiniteSet(packer.candidates \ {best})
    BY FS_Subset, packer.candidates \ {best} \in SUBSET packer.candidates
       DEF ContextInv, Candidates
  <2> QED BY <1>9, <1>12, <1>13, <2>1 DEF ContextInv, Candidates
<1>15. Selection'
  <2>1. \A i \in CandidateIds : i = best.id \/ i \in CandidateIds'
    BY <1>9 DEF CandidateIds
  <2>2. \A i \in SelectedIds : i \in SelectedIds'
    BY <1>9 DEF SelectedIds
  <2>3. best.id \in SelectedIds' \/ packer'.used + Tokens(best.id, 0) > Budget
    BY <1>7, <1>9 DEF SelectedIds
  <2>4. packer.used <= packer'.used /\ packer'.used \in Nat
    BY <1>3, <1>4, <1>9
  <2>5. ASSUME NEW i \in Id, i < packer.next, MaySee(i)
        PROVE  i \in CandidateIds' \union SelectedIds' \/ packer'.used + Tokens(i, 0) > Budget
    <3>1. CASE i \in CandidateIds \union SelectedIds
      BY <2>1, <2>2, <2>3, <3>1
    <3>2. CASE packer.used + Tokens(i, 0) > Budget
      <4>1. Tokens(i, 0) \in Nat
        BY OneArtifact
      <4> QED BY <1>3, <2>4, <3>2, <4>1
    <3> QED BY <2>5, <3>1, <3>2 DEF ContextInv, Selection
  <2>6. ASSUME NEW s \in packer'.selected PROVE MaySee(s.id) /\ QuotesFairly(s)
    <3>1. MaySee(best.id) /\ QuotesFairly(best)
      BY <1>2 DEF ContextInv, Candidates
    <3>2. QuotesFairly(kept)
      BY <1>7, <3>1 DEF QuotesFairly
    <3> QED BY <1>7, <1>9, <3>1, <3>2 DEF ContextInv, Selection
  <2>7. packer'.used <= Budget
    BY <1>9 DEF ContextInv, Selection
  <2> QED BY <1>9, <1>12, <1>13, <2>5, <2>6, <2>7 DEF Selection
<1>16. Progress'
  BY <1>1, <1>9 DEF ContextInv, Progress, PackerAt, Current
<1> QED BY <1>10, <1>11, <1>14, <1>15, <1>16 DEF ContextInv

(* Others write to the project: what pack has hashed and not yet read is   *)
(* recorded as replaced.                                                   *)
LEMMA ProjectStep ==
  ASSUME ContextInv, NEW i \in Id, NEW content \in {0, 2}, WriteProject(i, content)
  PROVE  ContextInv'
<1> USE DEF ContextInv
<1>1. /\ file' = [file EXCEPT ![i] = content] /\ writes' = writes + 1
      /\ packer' = packer /\ depends' = depends /\ allowed' = allowed
      /\ replaced \subseteq replaced' /\ replaced' \subseteq replaced \union {i}
      /\ packer.at = "read" /\ i = Current => Current \in replaced'
  BY DEF WriteProject, PackerAt
<1>2. ContextTypes'
  BY <1>1 DEF ContextTypes
<1>3. \A j : MaySee(j)' = MaySee(j)
  BY <1>1, SeenKept
<1>4. \A q : QuotesFairly(q) => QuotesFairly(q)'
  BY <1>1 DEF QuotesFairly
<1>5. Ancestry'
  BY <1>1, AncestryKept
<1>6. Candidates' /\ Selection'
  BY <1>1, <1>3, <1>4 DEF Candidates, Selection, CandidateIds, SelectedIds
<1>7. Progress'
  <2>1. packer.at = "read" => file'[Current] = 1 \/ Current \in replaced'
    BY <1>1 DEF Progress, PackerAt, ContextTypes
  <2> QED BY <1>1, <1>3, <2>1 DEF Progress, PackerAt, Current
<1> QED BY <1>2, <1>5, <1>6, <1>7

LEMMA ContextInvNext == ContextInv /\ [ContextNext]_packVars => ContextInv'
<1> SUFFICES ASSUME ContextInv, [ContextNext]_packVars PROVE ContextInv'
  OBVIOUS
<1>0. packer \in PackerState /\ packer.next \in Nat
  BY DEF ContextInv, ContextTypes, PackerState
<1>1. CASE AncestorsKnown
  BY <1>1, MoveOn DEF AncestorsKnown, PackerAt, ContextInv, Progress
<1>2. CASE SkipArtifact
  <2> DEFINE new == {}
  <2>1. packer' = [packer EXCEPT !.at = "scan", !.next = @ + 1, !.candidates = @ \union new]
    BY <1>0, <1>2 DEF SkipArtifact, Scans, PackerAt, PackerState
  <2>2. ~MaySee(Current) /\ UNCHANGED projectVars /\ packer.at \in {"scan", "read"} /\ Current \in Id
    BY <1>2 DEF SkipArtifact, Scans, PackerAt, Admitted, Related, MaySee
  <2>3. /\ new \in SUBSET Quotes
        /\ \A q \in new : q.id = Current /\ MaySee(Current) /\ QuotesFairly(q)
        /\ \A q, r \in new : q = r
    OBVIOUS
  <2> HIDE DEF new
  <2> QED BY <2>1, <2>2, <2>3, ScanStep
<1>3. CASE Refer
  <2>1. Quote(0) \in Quotes /\ Quote(0).id = Current /\ Quote(0).content = 0
    <3>1. /\ Current \in Id /\ Artifact[Current].terms \in Nat /\ Artifact[Current].match \in Nat
      BY <1>3, OneArtifact DEF Refer, Scans, ArtifactState
    <3> QED BY <3>1 DEF Quote, Quotes
  <2>2. MaySee(Current) /\ QuotesFairly(Quote(0))
    BY <1>3, <2>1 DEF Refer, Admitted, Related, MaySee, QuotesFairly
  <2> QED BY <1>3, <2>1, <2>2, AddStep DEF Refer, Scans, PackerAt
<1>4. CASE VerifyHash
  <2>1. MaySee(Current) /\ allowed /\ file[Current] = 1 /\ Current \in Id
    BY <1>4 DEF VerifyHash, Scans, Readable, Admitted, Related, MaySee
  <2> QED BY <1>4, <2>1, MoveOn DEF VerifyHash, Scans, PackerAt
<1>5. CASE ReadText
  <2> DEFINE quote == [id |-> Current, content |-> file[Current], score |-> Artifact[Current].match]
  <2>1. packer.at = "read" /\ Current \in Id /\ MaySee(Current) /\ allowed
        /\ file[Current] \in Nat /\ (file[Current] = 1 \/ Current \in replaced)
        /\ Artifact[Current].match \in Nat /\ UNCHANGED projectVars
    BY <1>5, OneArtifact DEF ReadText, PackerAt, ContextInv, Progress, ContextTypes, ArtifactState
  <2>2. CASE file[Current] = 0
    BY <1>5, <2>1, <2>2, MoveOn DEF ReadText, PackerAt
  <2>3. CASE file[Current] # 0
    <3>1. quote \in Quotes /\ quote.id = Current /\ QuotesFairly(quote)
      BY <2>1 DEF Quotes, QuotesFairly
    <3>2. Add(quote)
      BY <1>5, <2>3 DEF ReadText
    <3> HIDE DEF quote
    <3> QED BY <2>1, <3>1, <3>2, AddStep
  <2> QED BY <2>2, <2>3
<1>6. CASE Scanned
  BY <1>6, MoveOn DEF Scanned, PackerAt
<1>7. CASE EndPack
  BY <1>7, MoveOn DEF EndPack, PackerAt, ContextInv, Progress
<1>8. CASE UNCHANGED packVars
  BY <1>8 DEF packVars, projectVars, ContextInv, ContextTypes, Ancestry, Ancestor, Candidates,
              Selection, Progress, MaySee, External, QuotesFairly, CandidateIds, SelectedIds,
              PackerAt, Current
<1> QED BY <1>1, <1>2, <1>3, <1>4, <1>5, <1>6, <1>7, <1>8, FollowStep, SelectStep, ProjectStep
        DEF ContextNext

(* The context that pack ends with is exactly what its task may and can    *)
(* see, for any artifacts, dependencies, budget and changes of the files.  *)
THEOREM ContextIsExact == ContextSpec => []PackIsExact
<1>1. ContextInv => PackIsExact
  <2> SUFFICES ASSUME ContextInv, PackerAt("done") PROVE PackIsExact
    BY DEF PackIsExact
  <2>1. /\ packer.used <= Budget /\ packer.candidates = {} /\ Current \notin Id
        /\ packer.frontier = {} /\ CandidateIds = {}
    BY DEF ContextInv, Selection, Progress, Ancestry, PackerAt, CandidateIds
  <2>2. \A t : Ancestor(t) <=> t \in packer.ancestors
    <3>1. packer.ancestors \in SUBSET PackTask
      BY DEF ContextInv, ContextTypes, PackerState
    <3> QED BY <2>1, <3>1 DEF ContextInv, Ancestry, Ancestor
  <2>3. \A i \in Id : i < packer.next
    <3>1. Id = 1..Len(Artifact) /\ Len(Artifact) \in Nat
      BY ContextAssumption DEF ContextAssumption, Id
    <3>2. packer.next \in Nat \ {0}
      BY DEF ContextInv, ContextTypes, PackerState
    <3> QED BY <2>1, <3>1, <3>2 DEF Current
  <2> DEFINE visible(i) == /\ Artifact[i].producer = 0 \/ Ancestor(Artifact[i].producer)
                           /\ External(i) \/ Artifact[i].role
  <2>4. \A i \in Id : visible(i) <=> MaySee(i)
    BY <2>2 DEF MaySee
  <2>5. \A i \in SelectedIds : MaySee(i)
    BY DEF ContextInv, Selection, SelectedIds
  <2>6. ASSUME NEW i \in Id, i \notin SelectedIds, MaySee(i)
        PROVE  packer.used + Tokens(i, 0) > Budget
    BY <2>1, <2>3, <2>6 DEF ContextInv, Selection
  <2>7. \A s \in packer.selected : s.content # 0 =>
          allowed /\ (s.content = 1 \/ s.id \in replaced)
    BY DEF ContextInv, Selection, QuotesFairly
  <2> QED BY <2>1, <2>4, <2>5, <2>6, <2>7 DEF PackIsExact
<1> QED BY <1>1, ContextInvInit, ContextInvNext, PTL DEF ContextSpec

-----------------------------------------------------------------------------
(***************************************************************************)
(* DagVisit for any list of tasks and any graph.  The stack is a path of   *)
(* the graph, so a call of a node that is under way closes a cycle; and    *)
(* the nodes that were left are closed and acyclic, because each is left   *)
(* when all it depends on was left before it.                              *)
(***************************************************************************)
VisitFrame == [node : Ids(List), rest : SUBSET Ids(List)]

DagTypes ==
  /\ edges \in [Task -> SUBSET Ids(List)]
  /\ next \in Nat \ {0}
  /\ stack \in Seq(VisitFrame)
  /\ visited \subseteq Ids(List)
  /\ finding \in {"none", "valid", "cycle"}

(* The frames are those of the nodes under way, each called by the next.   *)
Framed(frames) ==
  /\ visiting = {frames[i].node : i \in DOMAIN frames}
  /\ visiting \intersect visited = {}
  /\ IsFiniteSet(visiting) /\ Len(frames) = Cardinality(visiting)
  /\ \A i, j \in DOMAIN frames : frames[i].node = frames[j].node => i = j
  /\ \A i \in DOMAIN frames :
       i + 1 \in DOMAIN frames => frames[i].node \in edges[frames[i + 1].node]

(* The loop of a frame has left behind only visited nodes and the call     *)
(* that is under way.                                                      *)
Looped(frames, called) ==
  \A i \in DOMAIN frames :
    /\ frames[i].rest \subseteq edges[frames[i].node]
    /\ edges[frames[i].node] \ frames[i].rest \subseteq
         visited \union (IF i = 1 THEN called ELSE {frames[i - 1].node})

Left ==
  /\ \A t \in visited : edges[t] \subseteq visited
  /\ \A S \in SUBSET visited : S # {} => \E t \in S : edges[t] \intersect S = {}

Listed == \A i \in DOMAIN List : i < next => List[i] \in visited \union visiting

VisitInv ==
  /\ DagTypes /\ Framed(stack) /\ Left /\ Listed
  /\ finding = "none" => Looped(stack, {})
  /\ VerdictIsAcyclic

LEMMA VisitInvInit == VisitInit => VisitInv
<1> SUFFICES ASSUME VisitInit PROVE VisitInv
  OBVIOUS
<1>1. DagTypes
  BY ListAssumption DEF VisitInit, DagTypes, ListAssumption
<1>2. Framed(stack)
  BY FS_EmptySet DEF VisitInit, Framed
<1>3. Listed
  BY ListAssumption DEF VisitInit, Listed, ListAssumption
<1> QED BY <1>1, <1>2, <1>3 DEF VisitInit, VisitInv, Left, Looped, VerdictIsAcyclic

(* A path from a node back to itself is a set without a first task.        *)
LEMMA ClosedPath ==
  ASSUME DagTypes, NEW frames \in Seq(VisitFrame), Framed(frames), frames # <<>>,
         NEW d \in visiting, d \in edges[frames[1].node]
  PROVE  ~Acyclic(Checked)
<1>1. PICK k \in DOMAIN frames : frames[k].node = d
  BY DEF Framed
<1> DEFINE S == {frames[i].node : i \in 1..k}
<1>2. DOMAIN frames = 1..Len(frames) /\ Len(frames) \in Nat /\ k \in Nat /\ k >= 1
  BY <1>1
<1>3. S \in SUBSET Ids(Checked.order) /\ S # {}
  <2>1. \A i \in 1..k : frames[i] \in VisitFrame
    BY <1>1, <1>2
  <2>2. \A i \in 1..k : frames[i].node \in Ids(List)
    BY <2>1 DEF VisitFrame
  <2>3. frames[k].node \in S
    BY <1>2
  <2> QED BY <2>2, <2>3 DEF Checked
<1>4. ASSUME NEW i \in 1..k PROVE edges[frames[i].node] \intersect S # {}
  <2>1. CASE i = 1
    BY <1>1, <1>2, <2>1
  <2>2. CASE i # 1
    <3>1. i - 1 \in 1..k /\ i - 1 \in DOMAIN frames /\ (i - 1) + 1 = i /\ i \in DOMAIN frames
      BY <1>1, <1>2, <2>2
    <3>2. frames[i - 1].node \in edges[frames[i].node]
      BY <3>1 DEF Framed
    <3> QED BY <3>1, <3>2
  <2> QED BY <2>1, <2>2
<1>5. \A t \in S : edges[t] \intersect S # {}
  BY <1>4
<1>6. Checked.deps = edges
  BY DEF Checked
<1> HIDE DEF S
<1> QED BY <1>3, <1>5, <1>6 DEF Acyclic

(* A call of visit, from the frames below it.                              *)
LEMMA VisitCall ==
  ASSUME VisitInv, finding = "none", edges' = edges, visited' = visited,
         NEW frames \in Seq(VisitFrame), Framed(frames), NEW d \in Ids(List), Looped(frames, {d}),
         frames # <<>> => d \in edges[frames[1].node],
         Visit(d, frames)
  PROVE  /\ stack' \in Seq(VisitFrame) /\ Framed(stack)'
         /\ finding' \in {"none", "cycle"}
         /\ finding' = "none" => Looped(stack, {})'
         /\ finding' = "cycle" => ~Acyclic(Checked)
         /\ visiting \subseteq visiting' /\ d \in visited \union visiting'
<1>1. CASE d \in visiting /\ finding' = "cycle" /\ stack' = frames /\ UNCHANGED visiting
  <2>1. frames # <<>>
    BY <1>1 DEF Framed
  <2>2. ~Acyclic(Checked)
    BY <1>1, <2>1, ClosedPath DEF VisitInv
  <2>3. Framed(stack)'
    BY <1>1 DEF Framed
  <2> QED BY <1>1, <2>2, <2>3
<1>2. CASE d \in visited \ visiting /\ stack' = frames /\ UNCHANGED <<visiting, finding>>
  BY <1>2 DEF Framed, Looped
<1>3. CASE /\ d \notin visited \union visiting /\ visiting' = visiting \union {d}
           /\ stack' = <<[node |-> d, rest |-> edges[d]]>> \o frames
           /\ UNCHANGED finding
  <2> DEFINE frame == [node |-> d, rest |-> edges[d]]
  <2>1. frame \in VisitFrame /\ frame.node = d /\ frame.rest = edges[d] /\ edges[d] \subseteq Ids(List)
    <3>1. Ids(List) \subseteq Task
      BY ListAssumption DEF ListAssumption, Ids
    <3> QED BY <3>1 DEF VisitInv, DagTypes, VisitFrame
  <2> HIDE DEF frame
  <2>2. stack' = <<frame>> \o frames
    BY <1>3 DEF frame
  <2>3. /\ stack' \in Seq(VisitFrame) /\ Len(stack') = Len(frames) + 1 /\ Len(frames) \in Nat
        /\ DOMAIN stack' = 1..(Len(frames) + 1) /\ DOMAIN frames = 1..Len(frames)
        /\ stack'[1] = frame
        /\ \A i \in 2..(Len(frames) + 1) : stack'[i] = frames[i - 1]
    BY <2>1, <2>2
  <2>4. /\ IsFiniteSet(visiting') /\ Cardinality(visiting') = Cardinality(visiting) + 1
    BY <1>3, FS_AddElement DEF Framed
  <2>5. visiting' = {stack'[i].node : i \in DOMAIN stack'}
    <3>1. \A t \in visiting' : \E i \in DOMAIN stack' : t = stack'[i].node
      <4>1. stack'[1].node = d /\ 1 \in DOMAIN stack'
        BY <2>1, <2>3
      <4>2. ASSUME NEW i \in DOMAIN frames
            PROVE  i + 1 \in DOMAIN stack' /\ stack'[i + 1].node = frames[i].node
        BY <2>3
      <4>3. ASSUME NEW t \in visiting PROVE \E i \in DOMAIN stack' : t = stack'[i].node
        <5>1. PICK i \in DOMAIN frames : t = frames[i].node
          BY DEF Framed
        <5> QED BY <4>2, <5>1
      <4> QED BY <1>3, <4>1, <4>3
    <3>2. ASSUME NEW i \in DOMAIN stack' PROVE stack'[i].node \in visiting'
      <4>1. CASE i = 1
        BY <1>3, <2>1, <2>3, <4>1
      <4>2. CASE i # 1
        <5>1. i - 1 \in DOMAIN frames /\ stack'[i] = frames[i - 1]
          BY <2>3, <4>2
        <5> QED BY <1>3, <5>1 DEF Framed
      <4> QED BY <4>1, <4>2
    <3> QED BY <3>1, <3>2
  <2>6. ASSUME NEW i \in DOMAIN stack', NEW j \in DOMAIN stack', stack'[i].node = stack'[j].node
        PROVE  i = j
    <3>1. \A k \in DOMAIN stack' :
            \/ k = 1 /\ stack'[k].node = d
            \/ k - 1 \in DOMAIN frames /\ stack'[k] = frames[k - 1]
      BY <2>1, <2>3
    <3>2. \A k \in DOMAIN frames : frames[k].node # d
      BY <1>3 DEF Framed
    <3>3. CASE i = 1
      BY <2>3, <2>6, <3>1, <3>2, <3>3
    <3>4. CASE i # 1
      <4>1. i - 1 = j - 1
        <5>1. i - 1 \in DOMAIN frames /\ stack'[i] = frames[i - 1]
          BY <3>1, <3>4
        <5>2. j - 1 \in DOMAIN frames /\ stack'[j] = frames[j - 1]
          BY <2>6, <3>1, <3>2, <5>1
        <5> QED BY <2>6, <5>1, <5>2 DEF Framed
      <4> QED BY <2>3, <4>1
    <3> QED BY <3>3, <3>4
  <2>7. ASSUME NEW i \in DOMAIN stack', i + 1 \in DOMAIN stack'
        PROVE  stack'[i].node \in edges[stack'[i + 1].node]
    <3>1. CASE i = 1
      <4>1. frames # <<>> /\ stack'[2] = frames[1]
        BY <2>3, <2>7, <3>1
      <4> QED BY <2>1, <2>3, <3>1, <4>1
    <3>2. CASE i # 1
      <4>1. i - 1 \in DOMAIN frames /\ (i - 1) + 1 \in DOMAIN frames
            /\ stack'[i] = frames[i - 1] /\ stack'[i + 1] = frames[(i - 1) + 1]
        BY <2>3, <2>7, <3>2
      <4> QED BY <4>1 DEF Framed
    <3> QED BY <3>1, <3>2
  <2>8. Framed(stack)'
    <3>1. visiting' \intersect visited' = {}
      BY <1>3 DEF Framed
    <3>2. Len(stack') = Cardinality(visiting')
      BY <2>3, <2>4 DEF Framed
    <3> QED BY <2>4, <2>5, <2>6, <2>7, <3>1, <3>2 DEF Framed
  <2>9. Looped(stack, {})'
    <3> SUFFICES ASSUME NEW i \in DOMAIN stack'
                 PROVE  /\ stack'[i].rest \subseteq edges[stack'[i].node]
                        /\ edges[stack'[i].node] \ stack'[i].rest \subseteq
                             visited \union (IF i = 1 THEN {} ELSE {stack'[i - 1].node})
      BY DEF Looped
    <3>1. CASE i = 1
      BY <2>1, <2>3, <3>1
    <3>2. CASE i = 2
      <4>1. stack'[i] = frames[1] /\ 1 \in DOMAIN frames /\ stack'[i - 1].node = d
        BY <2>1, <2>3, <3>2
      <4> QED BY <3>2, <4>1 DEF Looped
    <3>3. CASE i > 2
      <4>1. /\ i - 1 \in DOMAIN frames /\ i - 1 # 1 /\ stack'[i] = frames[i - 1]
            /\ stack'[i - 1] = frames[(i - 1) - 1]
        BY <2>3, <3>3
      <4>2. /\ frames[i - 1].rest \subseteq edges[frames[i - 1].node]
            /\ edges[frames[i - 1].node] \ frames[i - 1].rest \subseteq
                 visited \union {frames[(i - 1) - 1].node}
        BY <4>1 DEF Looped
      <4> QED BY <2>3, <3>3, <4>1, <4>2
    <3> QED BY <2>3, <3>1, <3>2, <3>3
  <2> QED BY <1>3, <2>3, <2>8, <2>9
<1> QED BY <1>1, <1>2, <1>3 DEF Visit
LEMMA VisitNextStep == VisitInv /\ VisitNext => VisitInv'
<1> SUFFICES ASSUME VisitInv, VisitNext PROVE VisitInv'
  OBVIOUS
<1>1. /\ finding = "none" /\ stack = <<>> /\ next <= Len(List) /\ next' = next + 1
      /\ Visit(List[next], <<>>) /\ edges' = edges /\ visited' = visited
      /\ next \in Nat \ {0}
  BY DEF VisitNext, VisitInv, DagTypes
<1>2. next \in DOMAIN List /\ List[next] \in Ids(List)
  BY <1>1, ListAssumption DEF ListAssumption, Ids
<1>3. Framed(<<>>) /\ Looped(<<>>, {List[next]}) /\ <<>> \in Seq(VisitFrame)
  BY <1>1 DEF VisitInv, Looped
<1>4. /\ stack' \in Seq(VisitFrame) /\ Framed(stack)'
      /\ finding' \in {"none", "cycle"}
      /\ finding' = "none" => Looped(stack, {})'
      /\ finding' = "cycle" => ~Acyclic(Checked)
      /\ visiting \subseteq visiting' /\ List[next] \in visited \union visiting'
  BY <1>1, <1>2, <1>3, VisitCall
<1>5. Listed'
  <2>1. \A i \in DOMAIN List : i < next' => i < next \/ i = next
    BY <1>1, ListAssumption DEF ListAssumption
  <2> QED BY <1>1, <1>4, <2>1 DEF VisitInv, Listed
<1>6. DagTypes' /\ Left'
  BY <1>1, <1>4 DEF VisitInv, DagTypes, Left
<1>7. VerdictIsAcyclic'
  BY <1>1, <1>4 DEF VerdictIsAcyclic, Checked
<1> QED BY <1>4, <1>5, <1>6, <1>7 DEF VisitInv

LEMMA VisitDependencyStep == VisitInv /\ VisitDependency => VisitInv'
<1> SUFFICES ASSUME VisitInv, VisitDependency PROVE VisitInv'
  OBVIOUS
<1>1. /\ finding = "none" /\ stack # <<>> /\ stack \in Seq(VisitFrame)
      /\ edges' = edges /\ visited' = visited /\ next' = next
  BY DEF VisitDependency, VisitInv, DagTypes
<1> DEFINE top(d) == [stack[1] EXCEPT !.rest = @ \ {d}]
<1>2. PICK d \in stack[1].rest : Visit(d, <<top(d)>> \o Tail(stack))
  BY DEF VisitDependency
<1>3. /\ 1 \in DOMAIN stack /\ stack[1] \in VisitFrame
      /\ top(d) \in VisitFrame /\ top(d).node = stack[1].node
      /\ top(d).rest = stack[1].rest \ {d} /\ d \in Ids(List)
  <2>1. 1 \in DOMAIN stack /\ stack[1] \in VisitFrame
    BY <1>1
  <2> QED BY <1>2, <2>1 DEF VisitFrame
<1>4. d \in edges[stack[1].node]
  BY <1>1, <1>2, <1>3 DEF VisitInv, Looped
<1> DEFINE frames == <<top(d)>> \o Tail(stack)
<1>5. /\ frames \in Seq(VisitFrame) /\ Len(frames) = Len(stack) /\ DOMAIN frames = DOMAIN stack
      /\ frames[1] = top(d)
      /\ \A i \in DOMAIN stack : i # 1 => frames[i] = stack[i]
  <2> HIDE DEF top
  <2> QED BY <1>1, <1>3
<1>6. Visit(d, frames)
  BY <1>2
<1> HIDE DEF frames
<1>7. \A i \in DOMAIN stack : frames[i].node = stack[i].node
  BY <1>3, <1>5
<1>8. Framed(frames)
  <2>1. {frames[i].node : i \in DOMAIN frames} = {stack[i].node : i \in DOMAIN stack}
    BY <1>5, <1>7
  <2> QED BY <1>5, <1>7, <2>1 DEF VisitInv, Framed
<1>9. Looped(frames, {d})
  <2> SUFFICES ASSUME NEW i \in DOMAIN stack
               PROVE  /\ frames[i].rest \subseteq edges[frames[i].node]
                      /\ edges[frames[i].node] \ frames[i].rest \subseteq
                           visited \union (IF i = 1 THEN {d} ELSE {frames[i - 1].node})
    BY <1>5 DEF Looped
  <2>1. /\ stack[i].rest \subseteq edges[stack[i].node]
        /\ edges[stack[i].node] \ stack[i].rest \subseteq
             visited \union (IF i = 1 THEN {} ELSE {stack[i - 1].node})
    BY <1>1 DEF VisitInv, Looped
  <2>2. CASE i = 1
    BY <1>3, <1>5, <2>1, <2>2
  <2>3. CASE i # 1
    <3>1. i - 1 \in DOMAIN stack
      BY <1>1, <2>3
    <3> QED BY <1>5, <1>7, <2>1, <2>3, <3>1
  <2> QED BY <2>2, <2>3
<1>10. d \in edges[frames[1].node]
  BY <1>3, <1>4, <1>7
<1>11. /\ stack' \in Seq(VisitFrame) /\ Framed(stack)'
       /\ finding' \in {"none", "cycle"}
       /\ finding' = "none" => Looped(stack, {})'
       /\ finding' = "cycle" => ~Acyclic(Checked)
       /\ visiting \subseteq visiting'
  BY <1>1, <1>3, <1>5, <1>6, <1>8, <1>9, <1>10, VisitCall
<1>12. DagTypes' /\ Left' /\ Listed' /\ VerdictIsAcyclic'
  BY <1>1, <1>11 DEF VisitInv, DagTypes, Left, Listed, VerdictIsAcyclic, Checked
<1> QED BY <1>11, <1>12 DEF VisitInv

(* The node that is left depends only on nodes that were left before.      *)
LEMMA ReturnStep == VisitInv /\ Return => VisitInv'
<1> SUFFICES ASSUME VisitInv, Return PROVE VisitInv'
  OBVIOUS
<1> DEFINE v == stack[1].node
<1>1. /\ finding = "none" /\ finding' = "none" /\ stack # <<>> /\ stack[1].rest = {}
      /\ visiting' = visiting \ {v} /\ visited' = visited \union {v}
      /\ stack' = Tail(stack) /\ edges' = edges /\ next' = next
      /\ stack \in Seq(VisitFrame) /\ Looped(stack, {}) /\ Framed(stack) /\ Left
  BY DEF Return, Leave, VisitInv, DagTypes
<1>2. /\ DOMAIN stack = 1..Len(stack) /\ Len(stack) \in Nat \ {0} /\ 1 \in DOMAIN stack
      /\ stack' \in Seq(VisitFrame) /\ Len(stack') = Len(stack) - 1
      /\ DOMAIN stack' = 1..(Len(stack) - 1)
      /\ \A i \in DOMAIN stack' : i + 1 \in DOMAIN stack /\ stack'[i] = stack[i + 1]
  BY <1>1
<1>3. v \in visiting /\ v \notin visited /\ edges[v] \subseteq visited /\ v \in Ids(List)
  <2>1. stack[1] \in VisitFrame
    BY <1>1, <1>2
  <2> QED BY <1>1, <1>2, <2>1 DEF Framed, Looped, VisitFrame
<1> HIDE DEF v
<1>4. DagTypes'
  BY <1>1, <1>2, <1>3 DEF VisitInv, DagTypes
<1>5. Left'
  <2>1. \A t \in visited' : edges[t] \subseteq visited'
    BY <1>1, <1>3 DEF Left
  <2>2. ASSUME NEW S \in SUBSET visited', S # {}
        PROVE  \E t \in S : edges[t] \intersect S = {}
    <3>1. CASE S \intersect visited = {}
      BY <1>1, <1>3, <2>2, <3>1
    <3>2. CASE S \intersect visited # {}
      <4>1. PICK t \in S \intersect visited : edges[t] \intersect (S \intersect visited) = {}
        BY <1>1, <3>2 DEF Left
      <4>2. edges[t] \subseteq visited
        BY <1>1 DEF Left
      <4> QED BY <4>1, <4>2
    <3> QED BY <3>1, <3>2
  <2> QED BY <1>1, <2>1, <2>2 DEF Left
<1>6. Listed'
  BY <1>1 DEF VisitInv, Listed
<1>7. Framed(stack)'
  <2>1. IsFiniteSet(visiting') /\ Cardinality(visiting') = Cardinality(visiting) - 1
    BY <1>1, <1>3, FS_RemoveElement DEF Framed
  <2>2. visiting' = {stack'[i].node : i \in DOMAIN stack'}
    <3>1. ASSUME NEW i \in DOMAIN stack' PROVE stack'[i].node \in visiting'
      <4>1. i + 1 \in DOMAIN stack /\ stack'[i] = stack[i + 1] /\ i + 1 # 1
        BY <1>2
      <4>2. stack[i + 1].node \in visiting
        BY <1>1, <4>1 DEF Framed
      <4>3. stack[i + 1].node # stack[1].node
        BY <1>1, <1>2, <4>1 DEF Framed
      <4> QED BY <1>1, <4>1, <4>2, <4>3 DEF v
    <3>2. ASSUME NEW t \in visiting' PROVE \E i \in DOMAIN stack' : t = stack'[i].node
      <4>1. PICK j \in DOMAIN stack : t = stack[j].node
        BY <1>1 DEF Framed
      <4>2. j # 1
        BY <1>1, <4>1 DEF v
      <4>3. j - 1 \in DOMAIN stack' /\ stack'[j - 1] = stack[(j - 1) + 1] /\ (j - 1) + 1 = j
        BY <1>2, <4>2
      <4> QED BY <4>1, <4>3
    <3> QED BY <3>1, <3>2
  <2>3. ASSUME NEW i \in DOMAIN stack', NEW j \in DOMAIN stack', stack'[i].node = stack'[j].node
        PROVE  i = j
    <3>1. i + 1 = j + 1
      BY <1>1, <1>2, <2>3 DEF Framed
    <3> QED BY <1>2, <3>1
  <2>4. ASSUME NEW i \in DOMAIN stack', i + 1 \in DOMAIN stack'
        PROVE  stack'[i].node \in edges[stack'[i + 1].node]
    BY <1>1, <1>2, <2>4 DEF Framed
  <2>5. visiting' \intersect visited' = {} /\ Len(stack') = Cardinality(visiting')
    BY <1>1, <1>2, <2>1 DEF Framed
  <2> QED BY <1>1, <2>1, <2>2, <2>3, <2>4, <2>5 DEF Framed
<1>8. Looped(stack, {})'
  <2> SUFFICES ASSUME NEW i \in DOMAIN stack'
               PROVE  /\ stack'[i].rest \subseteq edges[stack'[i].node]
                      /\ edges[stack'[i].node] \ stack'[i].rest \subseteq
                           visited' \union (IF i = 1 THEN {} ELSE {stack'[i - 1].node})
    BY <1>1 DEF Looped
  <2>1. i + 1 \in DOMAIN stack /\ stack'[i] = stack[i + 1] /\ i + 1 # 1 /\ (i + 1) - 1 = i
    BY <1>2
  <2>2. /\ stack[i + 1].rest \subseteq edges[stack[i + 1].node]
        /\ edges[stack[i + 1].node] \ stack[i + 1].rest \subseteq visited \union {stack[i].node}
    <3> DEFINE j == i + 1
    <3>1. /\ stack[j].rest \subseteq edges[stack[j].node]
          /\ edges[stack[j].node] \ stack[j].rest \subseteq visited \union {stack[j - 1].node}
      BY <1>1, <2>1 DEF Looped
    <3> QED BY <2>1, <3>1
  <2>3. CASE i = 1
    BY <1>1, <2>1, <2>2, <2>3 DEF v
  <2>4. CASE i # 1
    <3>1. i - 1 \in DOMAIN stack' /\ stack'[i - 1] = stack[(i - 1) + 1] /\ (i - 1) + 1 = i
      BY <1>2, <2>4
    <3> QED BY <1>1, <2>1, <2>2, <2>4, <3>1
  <2> QED BY <2>3, <2>4
<1> QED BY <1>1, <1>4, <1>5, <1>6, <1>7, <1>8 DEF VisitInv, VerdictIsAcyclic

LEMMA FinishStep == VisitInv /\ Finish => VisitInv'
<1> SUFFICES ASSUME VisitInv, Finish PROVE VisitInv'
  OBVIOUS
<1>1. /\ finding' = "valid" /\ stack = <<>> /\ next > Len(List)
      /\ UNCHANGED <<edges, next, stack, visiting, visited>>
  BY DEF Finish
<1>2. Acyclic(Checked)
  <2>1. visiting = {}
    BY <1>1 DEF VisitInv, Framed
  <2>2. Ids(List) \subseteq visited
    <3>1. \A i \in DOMAIN List : i < next
      BY <1>1, ListAssumption DEF ListAssumption, VisitInv, DagTypes
    <3> QED BY <2>1, <3>1 DEF VisitInv, Listed, Ids
  <2> QED BY <2>2 DEF VisitInv, Left, Acyclic, Checked
<1>3. DagTypes' /\ Framed(stack)' /\ Left' /\ Listed'
  BY <1>1 DEF VisitInv, DagTypes, Framed, Left, Listed
<1> QED BY <1>1, <1>2, <1>3 DEF VisitInv, VerdictIsAcyclic, Checked

LEMMA VisitInvNext == VisitInv /\ [DagNext]_visitVars => VisitInv'
<1>1. VisitInv /\ UNCHANGED visitVars => VisitInv'
  BY DEF visitVars, VisitInv, DagTypes, Framed, Left, Listed, Looped, VerdictIsAcyclic, Checked
<1> QED BY <1>1, VisitNextStep, VisitDependencyStep, ReturnStep, FinishStep DEF DagNext

(* The visit of validate_dag refuses exactly the graphs with a cycle, its  *)
(* recursion is as deep as its set visiting is large, and visited stays    *)
(* closed under dependencies, for any list of tasks, any graph and any     *)
(* order in which the dependencies are followed.                           *)
THEOREM VisitFindsCycles == DagSpec => []VisitIsRight
<1>1. VisitInv => VisitIsRight
  BY DEF VisitInv, VisitIsRight, VisitedIsClosed, Framed, Left
<1> QED BY <1>1, VisitInvInit, VisitInvNext, PTL DEF DagSpec

(***************************************************************************)
(* The run lock file.  With one process per owner it implements the lock   *)
(* of the contract, for any number of processes and wherever they stop.    *)
(*                                                                         *)
(* What makes reading and unlinking safe although they are separate steps  *)
(* is in LockInv: a process that has compared the owner is the creator of  *)
(* the file, so only it can remove the file, and nobody creates one while  *)
(* it is there.                                                            *)
(***************************************************************************)
LockInv ==
  /\ TypeOK
  /\ creator = NoOwner <=> lockFile = NoOwner
  /\ lockFile \in Owner => lockFile = OwnerOf[creator]
  /\ \A p \in Process :
       /\ doing[p] = "write" => creator = p /\ lockFile = Empty /\ p \notin holds
       /\ doing[p] = "unlink" => creator = p
       /\ p \in holds => creator = p /\ lockFile = OwnerOf[p]

(* The owner of the file, as the row of run_locks has it. *)
FileHolder == IF creator = NoOwner THEN NoOwner ELSE OwnerOf[creator]

FileHolding == holds \union {p \in Process : doing[p] = "write"}

LEMMA LockInvInit == Init => LockInv
BY OwnerAssumption DEF Init, LockInv, TypeOK, Place

LEMMA LockInvNext ==
  ASSUME Lock!OneProcessPerOwner, LockInv, [Next]_vars
  PROVE  LockInv'
<1> USE OwnerAssumption DEF LockInv, TypeOK, Place, Goto
<1>1. ASSUME NEW p \in Process, CreateFile(p) PROVE LockInv'
  BY <1>1 DEF CreateFile
<1>2. ASSUME NEW p \in Process, WriteOwner(p) PROVE LockInv'
  BY <1>2 DEF WriteOwner
<1>3. ASSUME NEW p \in Process, NothingToRelease(p) PROVE LockInv'
  BY <1>3 DEF NothingToRelease
<1>4. ASSUME NEW p \in Process, FindFile(p) PROVE LockInv'
  BY <1>4 DEF FindFile
<1>5. ASSUME NEW p \in Process, CompareOwner(p) PROVE LockInv'
  <2>1. creator = p
    BY <1>5 DEF CompareOwner, OwnerMatches, Lock!OneProcessPerOwner
  <2> QED BY <1>5, <2>1 DEF CompareOwner
<1>6. ASSUME NEW p \in Process, RefuseRelease(p) PROVE LockInv'
  BY <1>6 DEF RefuseRelease
<1>7. ASSUME NEW p \in Process, UnlinkFile(p) PROVE LockInv'
  BY <1>7 DEF UnlinkFile
<1>8. ASSUME NEW p \in Process, Exit(p) PROVE LockInv'
  BY <1>8 DEF Exit
<1>9. CASE UNCHANGED vars
  BY <1>9 DEF vars
<1> QED BY <1>1, <1>2, <1>3, <1>4, <1>5, <1>6, <1>7, <1>8, <1>9 DEF Next

(* Which step of the contract each step of the file lock is. *)
LEMMA LockStepMaps ==
  ASSUME LockInv, Next
  PROVE  [Lock!Next]_(Lock!vars)
<1> USE OwnerAssumption DEF LockInv, TypeOK, Place, Goto
<1>0. Lock!vars = <<FileHolder, FileHolding>> /\ Lock!vars' = <<FileHolder', FileHolding'>>
  BY DEF Lock!vars, FileHolder, FileHolding
<1>1. ASSUME NEW p \in Process, CreateFile(p) PROVE Lock!Acquire(p)
  BY <1>1 DEF CreateFile, Lock!Acquire
<1>2. ASSUME NEW p \in Process, WriteOwner(p) PROVE UNCHANGED <<FileHolder, FileHolding>>
  BY <1>2 DEF WriteOwner, FileHolder, FileHolding
<1>3. ASSUME NEW p \in Process, NothingToRelease(p) PROVE UNCHANGED <<FileHolder, FileHolding>>
  BY <1>3 DEF NothingToRelease, FileHolder, FileHolding
<1>4. ASSUME NEW p \in Process, FindFile(p) \/ CompareOwner(p) \/ RefuseRelease(p)
      PROVE  UNCHANGED <<FileHolder, FileHolding>>
  BY <1>4 DEF FindFile, CompareOwner, RefuseRelease, FileHolder, FileHolding
<1>5. ASSUME NEW p \in Process, UnlinkFile(p) PROVE Lock!Release(p)
  BY <1>5 DEF UnlinkFile, Lock!Release
<1>6. ASSUME NEW p \in Process, Exit(p) PROVE Lock!Exit(p)
  BY <1>6 DEF Exit, Lock!Exit
<1> QED BY <1>0, <1>1, <1>2, <1>3, <1>4, <1>5, <1>6 DEF Next, Lock!Next

-----------------------------------------------------------------------------
LEMMA LockInvariance == ASSUME Lock!OneProcessPerOwner PROVE Spec => []LockInv
<1>1. LockInv /\ [Next]_vars => LockInv'
  BY LockInvNext
<1> QED BY <1>1, LockInvInit, PTL DEF Spec

(* Creating, reading and unlinking .run.lock in separate steps is as good  *)
(* as the transactions of the contract, as long as no two processes use    *)
(* the same owner name.                                                    *)
THEOREM LockFileImplementsLock ==
  ASSUME Lock!OneProcessPerOwner
  PROVE  Spec => ImplementsRunLock
<1>1. Init => Lock!Init
  BY DEF Init, Lock!Init
<1>2. LockInv /\ [Next]_vars => [Lock!Next]_(Lock!vars)
  <2>1. LockInv /\ Next => [Lock!Next]_(Lock!vars)
    BY LockStepMaps
  <2>2. UNCHANGED vars => UNCHANGED Lock!vars
    BY DEF vars, Lock!vars
  <2> QED BY <2>1, <2>2
<1> QED BY <1>1, <1>2, LockInvariance, PTL DEF Spec, ImplementsRunLock, Lock!Spec

(* At most one process holds the run lock. *)
THEOREM LockFileExcludes == Spec => []HoldersExclude
<1>1. ASSUME Lock!OneProcessPerOwner
      PROVE  Spec => []HoldersExclude
  <2>1. ASSUME LockInv, NEW p \in FileHolding PROVE creator = p
    BY <2>1 DEF LockInv, TypeOK, FileHolding
  <2>2. LockInv => \A p, q \in FileHolding : p = q
    BY <2>1
  <2>3. LockInv => HoldersExclude
    BY <2>2 DEF HoldersExclude, Lock!MutualExclusion, FileHolding
  <2> QED BY <1>1, <2>3, LockInvariance, PTL
<1>2. ASSUME ~Lock!OneProcessPerOwner
      PROVE  Spec => []HoldersExclude
  <2>1. HoldersExclude
    BY <1>2 DEF HoldersExclude, Lock!MutualExclusion
  <2> QED BY <2>1, PTL
<1> QED BY <1>1, <1>2
==============================================================================
