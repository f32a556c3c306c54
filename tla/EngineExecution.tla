-------------------------- MODULE EngineExecution --------------------------
(***************************************************************************)
(* The tools of native_tools.py that run a program (python_execute,        *)
(* _engine_execute, latex_compile) over sandbox.py and isolation.py: the   *)
(* script is compared with the hash that was approved, a new directory is  *)
(* made for its output, the program runs in a process group of its own,    *)
(* and a receipt with the hashes of what it left is written and returned.  *)
(* Calls may name the same directory; the script may be edited.            *)
(*                                                                         *)
(* Scripts and output are version numbers, 0 when there is no output.      *)
(***************************************************************************)
EXTENDS Integers

CONSTANTS
  Job,        \* calls of the tools
  MaxScript,  \* bound on the versions of the script
  MaxOutput   \* bound on the writes of the programs

ASSUME EngineAssumption == MaxScript \in Nat \ {0} /\ MaxOutput \in Nat

VARIABLES
  script,   \* version of the script in the project
  output,   \* the output directory: whether it exists, what is in it
  job,      \* call -> where it is
  group,    \* call -> its process group: parent and child, if they run
  receipt   \* call -> the receipt it returned

engineVars == <<script, output, job, group, receipt>>

NoReceipt == [status |-> "none", script |-> 0, ran |-> 0, file |-> 0, survived |-> FALSE]
NewJob == [at |-> "new", approved |-> 0, ran |-> 0, code |-> 0, seen |-> 0, file |-> 0,
           survived |-> FALSE]
NoGroup == [parent |-> FALSE, child |-> FALSE, pipes |-> FALSE]

EngineInit ==
  /\ script = 1
  /\ output = [exists |-> FALSE, file |-> 0]
  /\ job = [j \in Job |-> NewJob]
  /\ group = [j \in Job |-> NoGroup]
  /\ receipt = [j \in Job |-> NoReceipt]

Step(j, from, to) == job[j].at = from /\ job' = [job EXCEPT ![j].at = to]
Ends(j) == job' = [job EXCEPT ![j].at = "ended"]
Running(j) == group[j].parent \/ group[j].child

EditScript ==
  /\ script < MaxScript
  /\ script' = script + 1
  /\ UNCHANGED <<output, job, group, receipt>>

RequestRun(j, approved) ==
  /\ job[j].at = "new" /\ approved <= script
  /\ job' = [job EXCEPT ![j].at = "check", ![j].approved = approved]
  /\ UNCHANGED <<script, output, group, receipt>>

CheckScript(j) ==
  /\ job[j].at = "check"
  /\ IF script = job[j].approved THEN Step(j, "check", "fresh") ELSE Ends(j)
  /\ UNCHANGED <<script, output, group, receipt>>

(* Mutant: a directory that exists is used. *)
MutFreshOutput(j) ==
  /\ Step(j, "fresh", "engine")
  /\ output' = [output EXCEPT !.exists = TRUE]
  /\ UNCHANGED <<script, group, receipt>>

FreshOutput(j) ==
  /\ job[j].at = "fresh"
  /\ IF output.exists THEN Ends(j) /\ UNCHANGED output
     ELSE Step(j, "fresh", "engine") /\ output' = [output EXCEPT !.exists = TRUE]
  /\ UNCHANGED <<script, group, receipt>>

(* No such engine, or a path the policy refuses: the directory stays, and  *)
(* the same call can never succeed.                                        *)
NoEngine(j) ==
  /\ job[j].at = "engine"
  /\ Ends(j)
  /\ UNCHANGED <<script, output, group, receipt>>

StartEngine(j) ==
  /\ job[j].at = "engine"
  /\ job' = [job EXCEPT ![j].at = "run", ![j].ran = script]
  /\ group' = [group EXCEPT ![j] = [parent |-> TRUE, child |-> FALSE, pipes |-> FALSE]]
  /\ UNCHANGED <<script, output, receipt>>

-----------------------------------------------------------------------------
(* What a program may do: write output, start a process in its group that  *)
(* may hold the pipes, exit; the child ends at some time.                  *)
EngineWrites(j) ==
  /\ Running(j) /\ output.file < MaxOutput
  /\ output' = [output EXCEPT !.file = @ + 1]
  /\ UNCHANGED <<script, job, group, receipt>>

EngineForks(j, pipes) ==
  /\ group[j].parent /\ ~group[j].child
  /\ group' = [group EXCEPT ![j].child = TRUE, ![j].pipes = pipes]
  /\ UNCHANGED <<script, output, job, receipt>>

EngineExits(j, code) ==
  /\ group[j].parent
  /\ group' = [group EXCEPT ![j].parent = FALSE]
  /\ job' = [job EXCEPT ![j].code = code]
  /\ UNCHANGED <<script, output, receipt>>

ChildEnds(j) ==
  /\ group[j].child
  /\ group' = [group EXCEPT ![j].child = FALSE, ![j].pipes = FALSE]
  /\ UNCHANGED <<script, output, job, receipt>>

(* communicate returns when the parent has exited and nobody holds the     *)
(* pipes any more.                                                         *)
Communicate(j) ==
  /\ job[j].at \in {"run", "wait"} /\ ~group[j].parent /\ ~group[j].pipes
  /\ job' = [job EXCEPT ![j].at = "hash", ![j].survived = group[j].child]
  /\ UNCHANGED <<script, output, group, receipt>>

(* The timeout: the group is killed if the parent still runs; if only a    *)
(* child does, nothing is.                                                 *)
TimeOutEngine(j) ==
  /\ job[j].at = "run" /\ (group[j].parent \/ group[j].pipes)
  /\ IF group[j].parent
     THEN /\ group' = [group EXCEPT ![j] = NoGroup]
          /\ job' = [job EXCEPT ![j].at = "wait", ![j].code = 9]
     ELSE Step(j, "run", "wait") /\ UNCHANGED group
  /\ UNCHANGED <<script, output, receipt>>

(* The second communicate waits fifteen seconds.                           *)
WaitEnds(j) ==
  /\ job[j].at = "wait" /\ group[j].pipes
  /\ Ends(j)
  /\ UNCHANGED <<script, output, group, receipt>>

-----------------------------------------------------------------------------
(* The receipt names the script as it is after the run.                    *)
HashedScript(j) == script

(* _command_receipt: hashes and writes; a declared input that is missing   *)
(* ends the call without a receipt.                                        *)
HashOutput(j) ==
  /\ job[j].at = "hash"
  /\ job' = [job EXCEPT ![j].at = "verify", ![j].seen = HashedScript(j), ![j].file = output.file]
  /\ UNCHANGED <<script, output, group, receipt>>

HashOutputFails(j) ==
  /\ job[j].at = "hash"
  /\ Ends(j)
  /\ UNCHANGED <<script, output, group, receipt>>

(* _verify_required_outputs: the output must be there; one that came after *)
(* the hashes is hashed now.                                               *)
ReturnReceipt(j) ==
  /\ Step(j, "verify", "ended")
  /\ receipt' = [receipt EXCEPT ![j] =
       [status |-> IF job[j].code = 0 /\ output.file > 0 THEN "complete" ELSE "failed",
        script |-> job[j].seen, ran |-> job[j].ran,
        file |-> IF job[j].file = 0 THEN output.file ELSE job[j].file,
        survived |-> job[j].survived]]
  /\ UNCHANGED <<script, output, group>>

(* The process of the runtime ends; the group goes on.                     *)
StopRuntime(j) ==
  /\ job[j].at \notin {"new", "ended"}
  /\ Ends(j)
  /\ UNCHANGED <<script, output, group, receipt>>

EngineNext ==
  \/ EditScript
  \/ \E j \in Job, approved \in 1..MaxScript : RequestRun(j, approved)
  \/ \E j \in Job :
       \/ CheckScript(j) \/ FreshOutput(j) \/ NoEngine(j) \/ StartEngine(j)
       \/ EngineWrites(j) \/ ChildEnds(j)
       \/ Communicate(j) \/ TimeOutEngine(j) \/ WaitEnds(j)
       \/ HashOutput(j) \/ HashOutputFails(j) \/ ReturnReceipt(j) \/ StopRuntime(j)
  \/ \E j \in Job, pipes \in BOOLEAN : EngineForks(j, pipes)
  \/ \E j \in Job, code \in {0, 1} : EngineExits(j, code)

EngineSpec == EngineInit /\ [][EngineNext]_engineVars

-----------------------------------------------------------------------------
(* A receipt that says complete stays true: the output it names is there   *)
(* with the hash it names, whatever other calls ask for the same           *)
(* directory, as long as no process of its group outlived the call; and if *)
(* it names the approved script, that script is the one that ran, although *)
(* the script could change between its check, its run and the receipt.     *)
ReceiptIsTrue ==
  \A j \in Job : receipt[j].status = "complete" =>
    /\ receipt[j].file > 0
    /\ receipt[j].survived \/ receipt[j].file = output.file
    /\ receipt[j].script = job[j].approved => receipt[j].ran = job[j].approved
=============================================================================
