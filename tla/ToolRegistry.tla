---------------------------- MODULE ToolRegistry ----------------------------
(***************************************************************************)
(* research_os/tools.py: ToolRegistry.execute with its idempotency ledger, *)
(* and the tool it matters most for, artifact_write (native_tools.py),     *)
(* which every agent uses to produce files.                                *)
(*                                                                         *)
(* execute runs in a process that drives an agent (a caller).  It looks up *)
(* the ledger, runs the tool in a thread of its own and waits for it up to *)
(* the timeout of the tool; then it writes the ledger record.  A thread    *)
(* that is not waited for any more goes on.  All processes of a project    *)
(* share the files, the temporary files and the ledger.                    *)
(*                                                                         *)
(* Contents stand for their hashes.  Requests refused before the lookup    *)
(* are in AgentExecutor.  Left out: errors of the file system other than a *)
(* missing or existing file, and payloads above the size limit, which fail *)
(* like an existing file.                                                  *)
(***************************************************************************)
EXTENDS Naturals, Sequences

CONSTANTS
  Caller,     \* processes that drive agents in one project directory
  Key, Path, Content,
  None,       \* no file, no record, no expected hash, no result
  Request,    \* inputs of artifact_write the agents send
  MaxThreads  \* bound on the tool threads of a behaviour

Inputs == [key : Key, path : Path, content : Content, expected : Content \union {None}]
Artifact == [path : Path, content : Content]
Record == [request : Request, artifact : Artifact]

ASSUME RegistryAssumption ==
  /\ Request \subseteq Inputs
  /\ None \notin Content \union Record
  /\ MaxThreads \in Nat

VARIABLES
  files,      \* path -> content of the file, or None
  temp,       \* path -> content of <path>.tmp, or None
  ledger,     \* key -> record: the request and the artifact of its result
  threads,    \* every tool thread started so far
  call,       \* caller -> where it is in execute
  raced,      \* history: two calls on a key or a path were under way at once
  delivered   \* history: key -> requests that were answered "complete"

diskVars == <<files, temp>>
historyVars == <<raced, delivered>>
registryVars == <<files, temp, ledger, threads, call, raced, delivered>>

Ended == {"done", "failed"}
ThreadPlaces == {"exists", "write", "replace", "verify", "unlink", "report"} \union Ended
Places == {"out", "lookup", "waiting", "record", "complete", "error"}

(* A call that is not in execute has neither a request nor a result. *)
NoCall == [at |-> "out", request |-> None, thread |-> 0, artifact |-> None]

RegistryInit ==
  /\ files = [p \in Path |-> None]
  /\ temp = [p \in Path |-> None]
  /\ ledger = [k \in Key |-> None]
  /\ threads = << >>
  /\ call = [c \in Caller |-> NoCall]
  /\ raced = FALSE
  /\ delivered = [k \in Key |-> {}]

-----------------------------------------------------------------------------
(* ToolRegistry.execute, the steps of the caller.                          *)

In(c, at) == call[c].at = at
Alive(i) == threads[i].at \notin Ended
Mine(c) == threads[call[c].thread]

Enter(c, q) ==
  /\ In(c, "out")
  /\ call' = [call EXCEPT ![c] = [NoCall EXCEPT !.at = "lookup", !.request = q]]
  /\ UNCHANGED <<diskVars, ledger, threads, historyVars>>

Complete(c, artifact) ==
  /\ call' = [call EXCEPT ![c].at = "complete", ![c].artifact = artifact]
  /\ delivered' = [delivered EXCEPT ![call[c].request.key] = @ \union {call[c].request}]

(* Mutant: the input hash of the record is not compared. *)
MutSameInputs(record, q) == TRUE

SameInputs(record, q) == record.request = q

Recorded(c) == ledger[call[c].request.key]

(* The artifact of the record is there and has the recorded hash. *)
Unchanged(artifact) == files[artifact.path] = artifact.content

Replay(c) ==
  /\ In(c, "lookup")
  /\ Recorded(c) # None
  /\ SameInputs(Recorded(c), call[c].request)
  /\ Unchanged(Recorded(c).artifact)
  /\ Complete(c, Recorded(c).artifact)
  /\ UNCHANGED <<diskVars, ledger, threads, raced>>

(* The key was used with other inputs, or the artifact is missing or       *)
(* changed.                                                                *)
RefuseReplay(c) ==
  /\ In(c, "lookup")
  /\ Recorded(c) # None
  /\ ~(SameInputs(Recorded(c), call[c].request) /\ Unchanged(Recorded(c).artifact))
  /\ call' = [call EXCEPT ![c].at = "error"]
  /\ UNCHANGED <<diskVars, ledger, threads, historyVars>>

Overlap(q1, q2) == q1.key = q2.key \/ q1.path = q2.path

(* No record: the tool is started in a thread. *)
StartTool(c) ==
  LET q == call[c].request
  IN /\ In(c, "lookup")
     /\ Recorded(c) = None
     /\ threads' = Append(threads, [by |-> c, request |-> q, at |-> "exists", digest |-> None])
     /\ call' = [call EXCEPT ![c].at = "waiting", ![c].thread = Len(threads) + 1]
     /\ raced' = (\/ raced
                  \/ \E i \in DOMAIN threads : Alive(i) /\ Overlap(threads[i].request, q)
                  \/ \E d \in Caller : call[d].at \in {"waiting", "record"}
                                       /\ Overlap(call[d].request, q))
     /\ UNCHANGED <<diskVars, ledger, delivered>>

ToolReturned(c) ==
  /\ In(c, "waiting")
  /\ Mine(c).at = "done"
  /\ call' = [call EXCEPT ![c].at = "record"]
  /\ UNCHANGED <<diskVars, ledger, threads, historyVars>>

ToolRaised(c) ==
  /\ In(c, "waiting")
  /\ Mine(c).at = "failed"
  /\ call' = [call EXCEPT ![c].at = "error"]
  /\ UNCHANGED <<diskVars, ledger, threads, historyVars>>

(* Mutant: the pool is a context manager, which waits for the thread. *)
MutToolTimesOut(c) ==
  /\ In(c, "waiting")
  /\ ~Alive(call[c].thread)
  /\ call' = [call EXCEPT ![c].at = "error"]
  /\ UNCHANGED <<diskVars, ledger, threads, historyVars>>

(* future.result(timeout): the thread is left running. *)
ToolTimesOut(c) ==
  /\ In(c, "waiting")
  /\ Alive(call[c].thread)
  /\ call' = [call EXCEPT ![c].at = "error"]
  /\ UNCHANGED <<diskVars, ledger, threads, historyVars>>

(* The result of the tool becomes the replay record (atomic_json). *)
WriteRecord(c) ==
  LET q == call[c].request
      artifact == [path |-> q.path, content |-> Mine(c).digest]
  IN /\ In(c, "record")
     /\ ledger' = [ledger EXCEPT ![q.key] = [request |-> q, artifact |-> artifact]]
     /\ Complete(c, artifact)
     /\ UNCHANGED <<diskVars, threads, raced>>

ExecuteStep(c) ==
  \/ Replay(c) \/ RefuseReplay(c) \/ StartTool(c)
  \/ ToolReturned(c) \/ ToolRaised(c) \/ ToolTimesOut(c) \/ WriteRecord(c)

-----------------------------------------------------------------------------
(* artifact_write, the steps of a thread.                                  *)

GoTo(i, at) == threads' = [threads EXCEPT ![i].at = at]

(* Mutant: an existing artifact is overwritten. *)
MutCheckAbsent(i) ==
  /\ threads[i].at = "exists"
  /\ GoTo(i, "write")
  /\ UNCHANGED <<diskVars, ledger, call, historyVars>>

CheckAbsent(i) ==
  /\ threads[i].at = "exists"
  /\ GoTo(i, IF files[threads[i].request.path] = None THEN "write" ELSE "failed")
  /\ UNCHANGED <<diskVars, ledger, call, historyVars>>

WriteTemp(i) ==
  /\ threads[i].at = "write"
  /\ temp' = [temp EXCEPT ![threads[i].request.path] = threads[i].request.content]
  /\ GoTo(i, "replace")
  /\ UNCHANGED <<files, ledger, call, historyVars>>

(* temporary.replace(output); another thread may have taken the temporary  *)
(* file, or have put its content there.                                    *)
Replace(i) ==
  LET p == threads[i].request.path
  IN /\ threads[i].at = "replace"
     /\ IF temp[p] = None
        THEN GoTo(i, "failed") /\ UNCHANGED diskVars
        ELSE /\ files' = [files EXCEPT ![p] = temp[p]]
             /\ temp' = [temp EXCEPT ![p] = None]
             /\ GoTo(i, "verify")
     /\ UNCHANGED <<ledger, call, historyVars>>

(* The hash of what is there now against the expected one. *)
Verify(i) ==
  LET q == threads[i].request
      there == files[q.path]
  IN /\ threads[i].at = "verify"
     /\ GoTo(i, IF there = None THEN "failed"
                ELSE IF q.expected \in {None, there} THEN "report" ELSE "unlink")
     /\ UNCHANGED <<diskVars, ledger, call, historyVars>>

Unlink(i) ==
  /\ threads[i].at = "unlink"
  /\ files' = [files EXCEPT ![threads[i].request.path] = None]
  /\ GoTo(i, "failed")
  /\ UNCHANGED <<temp, ledger, call, historyVars>>

(* _artifact: path, size and hash of the file, read once more. *)
Report(i) ==
  LET there == files[threads[i].request.path]
  IN /\ threads[i].at = "report"
     /\ threads' = [threads EXCEPT ![i].at = IF there = None THEN "failed" ELSE "done",
                                   ![i].digest = there]
     /\ UNCHANGED <<diskVars, ledger, call, historyVars>>

ToolStep(i) ==
  \/ CheckAbsent(i) \/ WriteTemp(i) \/ Replace(i)
  \/ Verify(i) \/ Unlink(i) \/ Report(i)

(* The process of c stops: its threads stop with it.  Files remain. *)
StopProcess(c) ==
  /\ call' = [call EXCEPT ![c] = NoCall]
  /\ threads' = [i \in DOMAIN threads |->
                   IF threads[i].by = c /\ Alive(i)
                   THEN [threads[i] EXCEPT !.at = "failed"] ELSE threads[i]]
  /\ UNCHANGED <<diskVars, ledger, historyVars>>

-----------------------------------------------------------------------------
(* Whatever timed out, failed, was killed or was repeated: as long as no   *)
(* two calls on one key or one path overlapped, all calls that were        *)
(* answered "complete" under a key were the same call, so a key stands for *)
(* one effect (tools.py:67-70, 89-95).                                     *)
OneRequestPerKey ==
  ~raced => \A k \in Key : \A q1, q2 \in delivered[k] : q1 = q2

(* As long as no two calls on one key or one path overlapped, the artifact *)
(* of every record is on disk with the content its request asked for: late *)
(* threads, refused hashes and repeated writes never touch it              *)
(* (native_tools.py:196, 206, 209).                                        *)
RecordedIntact ==
  ~raced => \A k \in Key : ledger[k] # None =>
    /\ files[ledger[k].request.path] = ledger[k].request.content
    /\ ledger[k].artifact = [path |-> ledger[k].request.path,
                             content |-> ledger[k].request.content]
=============================================================================
