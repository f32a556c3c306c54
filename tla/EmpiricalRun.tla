---------------------------- MODULE EmpiricalRun ----------------------------
(***************************************************************************)
(* empirical.py and run_review of stata_bridge.py: callers run requests    *)
(* under one run_id.  The directory of the run is made once; a run that    *)
(* finished is verified and returned again to a caller with the same       *)
(* request and inputs, and one that was interrupted is kept and refused.   *)
(* Meanwhile the input file changes, processes stop, and run_review is     *)
(* also used on its own.                                                   *)
(*                                                                         *)
(* A content is a number: of the input file its version, of a file of the  *)
(* run 1 when it was first written and more when it was written again.     *)
(***************************************************************************)
EXTENDS Integers, FiniteSets

CONSTANTS
  Runner,     \* processes that call run
  Model,      \* spec_ids of every request
  Unmatched,  \* models Stata cannot compare (HC3): not-supported
  MaxVersion, \* bound on the versions of the input file
  MaxCalls,   \* bound on the calls of run
  MaxRewrites \* bound on the standalone uses of the Stata bridge

ASSUME EmpiricalAssumption == Unmatched \subseteq Model /\ MaxVersion \in Nat \ {0}

VARIABLES
  input,   \* version of the input file
  run,     \* runner -> its call
  dir,     \* the directory of the run_id
  given,   \* runner -> the bundle run returned to it last
  zip,     \* the backup of the run: its state and the contents it holds
  calls

empVars == <<input, run, dir, given, zip, calls>>

(* The requests that use the run_id differ in whether Stata is an engine.  *)
Request == [stata : BOOLEAN]
File == {"raw", "models", "stata"}
NoFiles == [f \in File |-> 0]
NoBundle == [status |-> "none", fingerprint |-> <<>>, hashes |-> NoFiles,
             models |-> [m \in Model |-> "todo"]]
NoDir == [exists |-> FALSE, files |-> NoFiles, bundle |-> NoBundle]
NoCall == [at |-> "idle", request |-> [stata |-> FALSE], signed |-> 0, status |-> "none",
           models |-> [m \in Model |-> "todo"], hashes |-> NoFiles]
NoZip == [state |-> "none", holds |-> NoFiles, receipt |-> FALSE]

EmpInit ==
  /\ input = 1
  /\ run = [p \in Runner |-> NoCall]
  /\ dir = NoDir
  /\ given = [p \in Runner |-> NoBundle]
  /\ zip = NoZip
  /\ calls = 0

Fingerprint(p) == <<run[p].request, run[p].signed>>
Bundled == dir.bundle # NoBundle
(* verify: every artifact of the bundle is there with its hash.            *)
Verified == Bundled /\ dir.files = dir.bundle.hashes
At(p, place) == run[p].at = place
GoOn(p, place) == run' = [run EXCEPT ![p].at = place]
Raise(p) == run' = [run EXCEPT ![p] = NoCall]

ChangeInput ==
  /\ input < MaxVersion
  /\ input' = input + 1
  /\ UNCHANGED <<run, dir, given, zip, calls>>

-----------------------------------------------------------------------------
(* The request is validated and the inputs are hashed.                     *)
Call(p, request) ==
  /\ At(p, "idle") /\ calls < MaxCalls
  /\ run' = [run EXCEPT ![p] = [NoCall EXCEPT !.at = "look", !.request = request,
                                              !.signed = input]]
  /\ calls' = calls + 1
  /\ given' = [given EXCEPT ![p] = NoBundle]
  /\ UNCHANGED <<input, dir, zip>>

FindNothing(p) ==
  /\ At(p, "look") /\ ~dir.exists
  /\ GoOn(p, "mkdir")
  /\ UNCHANGED <<input, dir, given, zip, calls>>

(* Mutant: the fingerprint of the earlier run is not compared. *)
MutSameRun(p) == TRUE

SameRun(p) == dir.bundle.fingerprint = Fingerprint(p)

ReturnPrevious(p) ==
  /\ At(p, "look") /\ Verified /\ SameRun(p)
  /\ given' = [given EXCEPT ![p] = dir.bundle]
  /\ GoOn(p, "idle")
  /\ UNCHANGED <<input, dir, zip, calls>>

(* An interrupted run, a changed artifact, or another request.             *)
RefuseRunId(p) ==
  /\ At(p, "look") /\ dir.exists
  /\ ~(Verified /\ SameRun(p))
  /\ Raise(p)
  /\ UNCHANGED <<input, dir, given, zip, calls>>

(* Mutant: mkdir accepts an existing directory. *)
MutMakeDirectory(p) ==
  /\ At(p, "mkdir")
  /\ GoOn(p, "copy") /\ dir' = [dir EXCEPT !.exists = TRUE]
  /\ UNCHANGED <<input, given, zip, calls>>

(* mkdir fails when another caller made the directory in the meantime.     *)
MakeDirectory(p) ==
  /\ At(p, "mkdir")
  /\ IF dir.exists THEN Raise(p) /\ UNCHANGED dir
     ELSE GoOn(p, "copy") /\ dir' = [dir EXCEPT !.exists = TRUE]
  /\ UNCHANGED <<input, given, zip, calls>>

CopyInput(p) ==
  /\ At(p, "copy")
  /\ dir' = [dir EXCEPT !.files["raw"] = input]
  /\ GoOn(p, "compare")
  /\ UNCHANGED <<input, given, zip, calls>>

UnchangedInput(p) == dir.files["raw"] = run[p].signed

(* Any exception in the processing of the data is the status failed.       *)
Fail(p) == run' = [run EXCEPT ![p].at = "hash", ![p].status = "failed"]

IntakeFails(p) ==
  /\ At(p, "compare")
  /\ Fail(p)
  /\ UNCHANGED <<input, dir, given, zip, calls>>

Intake(p) ==
  /\ At(p, "compare") /\ UnchangedInput(p)
  /\ GoOn(p, "estimate")
  /\ UNCHANGED <<input, dir, given, zip, calls>>

(* A model that fails does not stop the others.  One that fails late, for  *)
(* instance in its figure, has written coefficients.csv before.            *)
ModelResult == {"complete", "failed", "late"}

Estimate(p, m, result) ==
  /\ At(p, "estimate") /\ run[p].models[m] = "todo"
  /\ run' = [run EXCEPT ![p].models[m] = result]
  /\ dir' = [dir EXCEPT !.files["models"] = 1]
  /\ UNCHANGED <<input, given, zip, calls>>

AllModels(p, S) == \A m \in Model : run[p].models[m] \in S

Estimated(p) ==
  /\ At(p, "estimate") /\ AllModels(p, ModelResult)
  /\ run' = [run EXCEPT
       ![p].status = IF AllModels(p, {"complete"}) THEN "complete" ELSE "partial",
       ![p].at = IF run[p].request.stata THEN "stata" ELSE "hash"]
  /\ UNCHANGED <<input, dir, given, zip, calls>>

(* The models run_review compares.                                         *)
Comparable(p) == Model \ Unmatched

(* Stata writes its results and log.  A missing result of Stata or missing *)
(* coefficients of Python make the whole run failed; a difference makes it *)
(* partial.                                                                *)
StataReview(p, ended, differs) ==
  /\ At(p, "stata")
  /\ dir' = [dir EXCEPT !.files["stata"] = 1]
  /\ IF ended /\ \A m \in Comparable(p) : run[p].models[m] # "failed"
     THEN run' = [run EXCEPT ![p].at = "hash",
                             ![p].status = IF differs /\ Comparable(p) # {} THEN "partial" ELSE @]
     ELSE Fail(p)
  /\ UNCHANGED <<input, given, zip, calls>>

HashArtifacts(p) ==
  /\ At(p, "hash")
  /\ run' = [run EXCEPT ![p].hashes = dir.files, ![p].at = "bundle"]
  /\ UNCHANGED <<input, dir, given, zip, calls>>

(* The bundle is written in one step (a temporary file and a rename).      *)
WriteBundle(p) ==
  /\ At(p, "bundle")
  /\ dir' = [dir EXCEPT !.bundle = [status |-> run[p].status, fingerprint |-> Fingerprint(p),
                                    hashes |-> run[p].hashes, models |-> run[p].models]]
  /\ GoOn(p, "verify")
  /\ UNCHANGED <<input, given, zip, calls>>

ReturnBundle(p) ==
  /\ At(p, "verify")
  /\ IF Verified THEN GoOn(p, "idle") /\ given' = [given EXCEPT ![p] = dir.bundle]
     ELSE Raise(p) /\ UNCHANGED given
  /\ UNCHANGED <<input, dir, zip, calls>>

Stop(p) ==
  /\ run[p].at # "idle"
  /\ Raise(p)
  /\ UNCHANGED <<input, dir, given, zip, calls>>

-----------------------------------------------------------------------------
(* stata_bridge.py --run-dir repeats the review in a directory that has    *)
(* data: it rewrites the log, the results and the receipt of Stata.        *)
ReviewAgain ==
  /\ dir.files["models"] > 0 /\ dir.files["stata"] <= MaxRewrites
  /\ dir' = [dir EXCEPT !.files["stata"] = @ + 1]
  /\ UNCHANGED <<input, run, given, zip, calls>>

(* backup: verify, create the archive (never over another one), copy the   *)
(* artifacts, read them back, write the receipt.                           *)
BackupBegins ==
  /\ Verified /\ zip.state = "none"
  /\ zip' = [zip EXCEPT !.state = "open"]
  /\ UNCHANGED <<input, run, dir, given, calls>>

BackupCopies ==
  /\ zip.state = "open"
  /\ zip' = [zip EXCEPT !.state = "closed", !.holds = dir.files]
  /\ UNCHANGED <<input, run, dir, given, calls>>

BackupReadsBack ==
  /\ zip.state = "closed"
  /\ zip' = [zip EXCEPT !.state = "ended", !.receipt = (zip.holds = dir.files)]
  /\ UNCHANGED <<input, run, dir, given, calls>>

BackupStops ==
  /\ zip.state \in {"open", "closed"}
  /\ zip' = [zip EXCEPT !.state = "ended"]
  /\ UNCHANGED <<input, run, dir, given, calls>>

EmpNext ==
  \/ ChangeInput
  \/ \E p \in Runner, request \in Request : Call(p, request)
  \/ \E p \in Runner : FindNothing(p) \/ ReturnPrevious(p) \/ RefuseRunId(p)
  \/ \E p \in Runner : MakeDirectory(p) \/ CopyInput(p) \/ IntakeFails(p) \/ Intake(p)
  \/ \E p \in Runner, m \in Model, result \in ModelResult : Estimate(p, m, result)
  \/ \E p \in Runner : Estimated(p)
  \/ \E p \in Runner, ended, differs \in BOOLEAN : StataReview(p, ended, differs)
  \/ \E p \in Runner : HashArtifacts(p) \/ WriteBundle(p) \/ ReturnBundle(p) \/ Stop(p)
  \/ ReviewAgain
  \/ BackupBegins \/ BackupCopies \/ BackupReadsBack \/ BackupStops

EmpSpec == EmpInit /\ [][EmpNext]_empVars

-----------------------------------------------------------------------------
(* Whatever run returns was made for this request and these inputs: its    *)
(* fingerprint is the caller's, the results that are not failed were       *)
(* computed from the version of the inputs the caller hashed, although     *)
(* they change while the run reads them, and complete means that every     *)
(* model is.                                                               *)
ReturnedIsRequested ==
  \A p \in Runner : given[p] # NoBundle =>
    /\ given[p].fingerprint = Fingerprint(p)
    /\ given[p].status # "failed" => given[p].hashes["raw"] = run[p].signed
    /\ given[p].status = "complete" => \A m \in Model : given[p].models[m] = "complete"

(* Two callers that start under one run_id never write into one directory: *)
(* a bundle is never written over, and its inputs and models never change. *)
BundleIsFinal ==
  [][Bundled => /\ dir'.bundle = dir.bundle
                /\ \A f \in {"raw", "models"} : dir'.files[f] = dir.files[f]]_empVars
=============================================================================
