---------------------------- MODULE CodexAdapter ----------------------------
(***************************************************************************)
(* adapters/codex_cli.py: the rounds of one agent run.  Each round is a    *)
(* process of the Codex CLI with a directory of its own, which the adapter *)
(* numbers from memory.  The memory is lost with the process of the        *)
(* runtime, the directories stay; a CLI process may go on after it, and    *)
(* two runtimes may work on the run.                                       *)
(***************************************************************************)
EXTENDS Integers, FiniteSets

CONSTANTS
  Host,      \* processes of the runtime, each with its adapter
  MaxRound,  \* bound on the numbers of rounds
  MaxCall    \* bound on the calls of the adapters

ASSUME CodexAssumption == MaxRound \in Nat /\ MaxCall \in Nat

VARIABLES
  persist,   \* persist_sessions of the adapters
  roundDir,  \* round -> its directory: its final answer and its events.jsonl
  stored,    \* request.json is there
  host,      \* host -> memory of its adapter and the call it is in
  cli,       \* call -> the CLI process it started
  issued,    \* number of calls
  answers    \* history: the call and the call whose process wrote the answer

codexVars == <<persist, roundDir, stored, host, cli, issued, answers>>

Round == 1..MaxRound
CallId == 1..MaxCall
NoFolder == [exists |-> FALSE, final |-> 0, events |-> "none"]
NewHost == [at |-> "idle", call |-> 0, request |-> FALSE, session |-> FALSE, rounds |-> 0,
            cancels |-> 0]
NoCli == [state |-> "none", round |-> 0]

CodexInit ==
  /\ persist \in BOOLEAN
  /\ roundDir = [r \in Round |-> NoFolder]
  /\ stored = FALSE
  /\ host = [h \in Host |-> NewHost]
  /\ cli = [k \in CallId |-> NoCli]
  /\ issued = 0 /\ answers = {}

HostAt(h, place) == host[h].at = place
MyCli(h) == cli[host[h].call]
MyRound(h) == MyCli(h).round

EnterRound(h, memory) ==
  /\ HostAt(h, "idle") /\ issued < MaxCall
  /\ issued' = issued + 1
  /\ host' = [host EXCEPT ![h] = [memory EXCEPT !.at = "begin", !.call = issued + 1]]
  /\ UNCHANGED <<persist, roundDir, stored, cli, answers>>

RunAgent(h) == EnterRound(h, [host[h] EXCEPT !.request = TRUE])

(* The last round that left its events reported a session.                 *)
LastSession ==
  \E r \in Round : /\ roundDir[r].events = "session"
                    /\ \A s \in Round : s > r => roundDir[s].events = "none"

(* Without sessions only a host that knows the request can go on; with     *)
(* them request and session are read back.  Otherwise KeyError.            *)
ResumeAgent(h) ==
  IF persist
  THEN /\ host[h].request \/ stored
       /\ host[h].session \/ LastSession
       /\ EnterRound(h, [host[h] EXCEPT !.request = TRUE, !.session = TRUE])
  ELSE host[h].request /\ EnterRound(h, host[h])

(* Mutant: a directory that exists is used. *)
MutMakeRound(h) ==
  LET r == host[h].rounds + 1 IN
  /\ HostAt(h, "begin") /\ r \in Round
  /\ stored' = TRUE
  /\ host' = [host EXCEPT ![h].rounds = r, ![h].at = "wait"]
  /\ roundDir' = [roundDir EXCEPT ![r].exists = TRUE]
  /\ cli' = [cli EXCEPT ![host[h].call] = [state |-> "runs", round |-> r]]
  /\ UNCHANGED <<persist, issued, answers>>

(* The request is written, the round counted, its directory made and the   *)
(* process started; a directory of an earlier host ends the call, with the *)
(* round counted.                                                          *)
MakeRound(h) ==
  LET r == host[h].rounds + 1 IN
  /\ HostAt(h, "begin") /\ r \in Round
  /\ stored' = TRUE
  /\ host' = [host EXCEPT ![h].rounds = r,
                          ![h].at = IF roundDir[r].exists THEN "idle" ELSE "wait"]
  /\ IF roundDir[r].exists THEN UNCHANGED <<roundDir, cli>>
     ELSE /\ roundDir' = [roundDir EXCEPT ![r].exists = TRUE]
          /\ cli' = [cli EXCEPT ![host[h].call] = [state |-> "runs", round |-> r]]
  /\ UNCHANGED <<persist, issued, answers>>

-----------------------------------------------------------------------------
(* The CLI: it may write the final answer, and ends with or without an     *)
(* error.                                                                  *)
CliWrites(k) ==
  /\ cli[k].state = "runs"
  /\ roundDir' = [roundDir EXCEPT ![cli[k].round].final = k]
  /\ UNCHANGED <<persist, stored, host, cli, issued, answers>>

CliEnds(k, code) ==
  /\ cli[k].state = "runs"
  /\ cli' = [cli EXCEPT ![k].state = code]
  /\ UNCHANGED <<persist, roundDir, stored, host, issued, answers>>

(* The timeout kills the group and raises.                                 *)
TimeOutCli(h) ==
  /\ HostAt(h, "wait") /\ MyCli(h).state = "runs"
  /\ cli' = [cli EXCEPT ![host[h].call].state = "failed"]
  /\ host' = [host EXCEPT ![h].at = "idle"]
  /\ UNCHANGED <<persist, roundDir, stored, issued, answers>>

(* cancel finds the process of a call running, and kills it if it still    *)
(* is, also when the call is over by then.                                 *)
CancelLooks(h) ==
  /\ HostAt(h, "wait") /\ MyCli(h).state = "runs" /\ host[h].cancels = 0
  /\ host' = [host EXCEPT ![h].cancels = host[h].call]
  /\ UNCHANGED <<persist, roundDir, stored, cli, issued, answers>>

CancelKills(h) ==
  /\ host[h].cancels # 0
  /\ host' = [host EXCEPT ![h].cancels = 0]
  /\ cli' = IF cli[host[h].cancels].state = "runs"
            THEN [cli EXCEPT ![host[h].cancels].state = "failed"] ELSE cli
  /\ UNCHANGED <<persist, roundDir, stored, issued, answers>>

(* The events are kept, with the session the CLI reports; then an exit     *)
(* code or a missing answer is an error.                                   *)
CollectAnswer(h, session) ==
  /\ HostAt(h, "wait") /\ MyCli(h).state \in {"ended", "failed"}
  /\ host' = [host EXCEPT ![h].at = "idle", ![h].session = @ \/ session]
  /\ roundDir' = [roundDir EXCEPT ![MyRound(h)].events = IF session THEN "session" ELSE "bare"]
  /\ answers' = IF MyCli(h).state = "ended" /\ roundDir[MyRound(h)].final # 0
                THEN answers \union {<<host[h].call, roundDir[MyRound(h)].final>>}
                ELSE answers
  /\ UNCHANGED <<persist, stored, cli, issued>>

(* The process of the runtime ends; its CLI process goes on.               *)
RestartHost(h) ==
  /\ host[h] # NewHost
  /\ host' = [host EXCEPT ![h] = NewHost]
  /\ UNCHANGED <<persist, roundDir, stored, cli, issued, answers>>

CodexNext ==
  \/ \E h \in Host :
       \/ RunAgent(h) \/ ResumeAgent(h) \/ MakeRound(h)
       \/ TimeOutCli(h) \/ CancelLooks(h) \/ CancelKills(h) \/ RestartHost(h)
  \/ \E h \in Host, session \in BOOLEAN : CollectAnswer(h, session)
  \/ \E k \in CallId : CliWrites(k)
  \/ \E k \in CallId, code \in {"ended", "failed"} : CliEnds(k, code)

CodexSpec == CodexInit /\ [][CodexNext]_codexVars

-----------------------------------------------------------------------------
(* What the adapter returns as the observation of a call was written by    *)
(* the CLI process of this call: never an answer of an earlier round, of a *)
(* process that outlived its runtime, or of the other runtime, although    *)
(* rounds are numbered from a memory that restarts at one.                 *)
AnswerIsOwn == \A answer \in answers : answer[1] = answer[2]
=============================================================================
