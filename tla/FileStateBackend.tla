-------------------------- MODULE FileStateBackend --------------------------
(***************************************************************************)
(* research_os/store.py, class ResearchStateStore (FileStateBackend), step *)
(* by step.                                                                *)
(*                                                                         *)
(* Canonical state is spread over files: state.json, events.jsonl,         *)
(* backend-meta.json (version and event counter) and checkpoints/.  Each   *)
(* file is replaced atomically, but save() writes them one after the other *)
(* under an O_EXCL lock file, load_with_version() reads two of them        *)
(* without that lock, and a process that stops inside the lock leaves the  *)
(* lock file behind.  As in StateBackend, a state is the set of updates it *)
(* incorporates.                                                           *)
(***************************************************************************)
EXTENDS Naturals, Sequences, FiniteSetsExt

CONSTANTS Client, Update,
          MaxVersion,  \* bound on the version when a call starts
          MaxFiles,    \* bound on checkpoint files and event lines when a call starts
          MaxDamaged,  \* how many checkpoint files may go bad on the disk
          MayCrash,    \* whether processes may be stopped half way
          MayTimeOut   \* whether a live process may hold the lock for ten seconds

ASSUME BoundAssumption == MaxVersion \in Nat /\ MaxFiles \in Nat
ASSUME DamageAssumption == MaxDamaged \in Nat
ASSUME CrashAssumption == MayCrash \in BOOLEAN /\ MayTimeOut \in BOOLEAN

VARIABLES
  stateFile,    \* state.json: the updates it incorporates
  meta,         \* backend-meta.json: [state_version, event_sequence]
  eventsFile,   \* events.jsonl: the event_sequence of each line
  checkpoints,  \* content of each checkpoint file, by sequence number
  damaged,      \* sequence numbers whose bytes no longer match their name
  lockFile,     \* .state-write.lock exists
  issued,       \* updates already used (ghost)
  acked,        \* [version, content] of every save that returned (ghost)
  crashed,      \* a process has stopped between taking and releasing the lock (ghost)
  at,           \* where each client is
  loaded,       \* [version, content] each client works from
  new,          \* content each client is writing
  metaCopy,     \* the meta record each client read under the lock
  own,          \* whether the client's state is what its own save returned (ghost)
  listed,       \* number of checkpoint files recover_latest found
  cand          \* the file recover_latest is trying, 0 when none is left

files == <<stateFile, meta, eventsFile, checkpoints>>
ghosts == <<issued, acked, crashed>>
local == <<loaded, new, metaCopy, own, listed, cand>>
vars == <<files, damaged, lockFile, ghosts, at, local>>

Nothing == [version |-> 0, content |-> {}]
NoMeta == [state_version |-> 0, event_sequence |-> 0]

(* Places where the client holds the lock. *)
Inside == {"check", "state", "event", "meta", "checkpoint", "receipt", "unlock"}
Place == Inside \union {"idle", "loading", "lock", "try"}

Recovering(c) == listed[c] > 0

(* create(): state, meta, the run.created event and the first checkpoint. *)
Init ==
  /\ stateFile = {}
  /\ meta = [state_version |-> 1, event_sequence |-> 1]
  /\ eventsFile = <<1>>
  /\ checkpoints = <<{}>>
  /\ damaged = {}
  /\ lockFile = FALSE
  /\ issued = {}
  /\ acked = {}
  /\ crashed = FALSE
  /\ at = [c \in Client |-> "idle"]
  /\ loaded = [c \in Client |-> Nothing]
  /\ new = [c \in Client |-> {}]
  /\ metaCopy = [c \in Client |-> NoMeta]
  /\ own = [c \in Client |-> FALSE]
  /\ listed = [c \in Client |-> 0]
  /\ cand = [c \in Client |-> 0]

-----------------------------------------------------------------------------
Goto(c, place) == at' = [at EXCEPT ![c] = place]

(* The call of c is over and it keeps the state in view. *)
Return(c, view) ==
  /\ Goto(c, "idle")
  /\ loaded' = [loaded EXCEPT ![c] = view]
  /\ new' = [new EXCEPT ![c] = {}]
  /\ metaCopy' = [metaCopy EXCEPT ![c] = NoMeta]
  /\ own' = [own EXCEPT ![c] = view # Nothing]
  /\ listed' = [listed EXCEPT ![c] = 0]
  /\ cand' = [cand EXCEPT ![c] = 0]

(* save() raises, or the lock of a recovery cannot be had: recover_latest  *)
(* records the exception and tries the next older file.                    *)
Raise(c) ==
  IF Recovering(c)
    THEN /\ Goto(c, "try")
         /\ cand' = [cand EXCEPT ![c] = @ - 1]
         /\ new' = [new EXCEPT ![c] = {}]
         /\ UNCHANGED <<loaded, metaCopy, own, listed>>
    ELSE Return(c, Nothing)

(* load_with_version reads state.json first ... *)
ReadState(c) ==
  /\ at[c] = "idle"
  /\ loaded' = [loaded EXCEPT ![c] = [version |-> 0, content |-> stateFile]]
  /\ own' = [own EXCEPT ![c] = FALSE]
  /\ Goto(c, "loading")
  /\ UNCHANGED <<files, damaged, lockFile, ghosts, new, metaCopy, listed, cand>>

(* ... and backend-meta.json afterwards, without the lock in between. *)
ReadMeta(c) ==
  /\ at[c] = "loading"
  /\ loaded' = [loaded EXCEPT ![c].version = meta.state_version]
  /\ Goto(c, "idle")
  /\ UNCHANGED <<files, damaged, lockFile, ghosts, new, metaCopy, own, listed, cand>>

-----------------------------------------------------------------------------
(* Calls start below the bounds; those under way may pass them by one each. *)
WithinBounds ==
  /\ meta.state_version < MaxVersion
  /\ Len(checkpoints) < MaxFiles
  /\ Len(eventsFile) < MaxFiles

(* The client changes its copy of the state and calls save.  The change is *)
(* one nobody has made before; which one does not matter.                  *)
CallSave(c) ==
  LET u == CHOOSE v \in Update \ issued : TRUE
  IN /\ at[c] = "idle"
     /\ WithinBounds
     /\ loaded[c].version > 0
     /\ issued # Update
     /\ issued' = issued \union {u}
     /\ new' = [new EXCEPT ![c] = loaded[c].content \union {u}]
     /\ Goto(c, "lock")
     /\ UNCHANGED <<files, damaged, lockFile, acked, crashed,
                    loaded, metaCopy, own, listed, cand>>

(* os.open(O_CREAT | O_EXCL) creates the lock file ... *)
TakeLock(c) ==
  /\ at[c] = "lock"
  /\ ~lockFile
  /\ lockFile' = TRUE
  /\ Goto(c, "check")
  /\ UNCHANGED <<files, damaged, ghosts, local>>

(* ... or ten seconds of retries end in RunLockError: certain when the     *)
(* process that created the file is gone, possible while it is slow.       *)
Stale == lockFile /\ \A c \in Client : at[c] \notin Inside

(* Mutants: the timeout ends the wait but not the save; it never comes. *)
MutGoOnUnlocked(c) ==
  /\ at[c] = "lock"
  /\ lockFile
  /\ Goto(c, "check")
  /\ UNCHANGED <<files, damaged, lockFile, ghosts, local>>

MutNoTimeout(c) == FALSE

LockTimeout(c) ==
  /\ at[c] = "lock"
  /\ lockFile
  /\ MayTimeOut \/ Stale
  /\ Raise(c)
  /\ UNCHANGED <<files, damaged, lockFile, ghosts>>

ExpectedVersion(c) == Recovering(c) \/ loaded[c].version = meta.state_version

(* The version check fails: the lock is released, StateConflictError. *)
StateConflict(c) ==
  /\ at[c] = "check"
  /\ ~ExpectedVersion(c)
  /\ lockFile' = FALSE
  /\ Raise(c)
  /\ UNCHANGED <<files, damaged, ghosts>>

(* Mutant: the version is not incremented. *)
MutSameVersion(c) == meta

NextMeta(c) == [meta EXCEPT !.state_version = @ + 1]

(* The meta record is read once, and its version incremented in memory. *)
CheckVersion(c) ==
  /\ at[c] = "check"
  /\ ExpectedVersion(c)
  /\ metaCopy' = [metaCopy EXCEPT ![c] = NextMeta(c)]
  /\ Goto(c, "state")
  /\ UNCHANGED <<files, damaged, lockFile, ghosts, loaded, new, own, listed, cand>>

WriteState(c) ==
  /\ at[c] = "state"
  /\ stateFile' = new[c]
  /\ Goto(c, "event")
  /\ UNCHANGED <<meta, eventsFile, checkpoints, damaged, lockFile, ghosts, local>>

(* _append_event_unlocked: one more line, synced to the disk ... *)
AppendEvent(c) ==
  /\ at[c] = "event"
  /\ metaCopy' = [metaCopy EXCEPT ![c].event_sequence = @ + 1]
  /\ eventsFile' = Append(eventsFile, metaCopy[c].event_sequence + 1)
  /\ Goto(c, "meta")
  /\ UNCHANGED <<stateFile, meta, checkpoints, damaged, lockFile, ghosts,
                 loaded, new, own, listed, cand>>

(* Mutant: the event counter is not written back. *)
MutEventNotCounted(c) ==
  /\ at[c] = "meta"
  /\ meta' = [meta EXCEPT !.state_version = metaCopy[c].state_version]
  /\ Goto(c, "checkpoint")
  /\ UNCHANGED <<stateFile, eventsFile, checkpoints, damaged, lockFile, ghosts, local>>

(* ... and then the meta file, which makes the new version current. *)
WriteMeta(c) ==
  /\ at[c] = "meta"
  /\ meta' = metaCopy[c]
  /\ Goto(c, "checkpoint")
  /\ UNCHANGED <<stateFile, eventsFile, checkpoints, damaged, lockFile, ghosts, local>>

(* Mutant: the state before the save is checkpointed. *)
MutCheckpointOld(c) ==
  /\ at[c] = "checkpoint"
  /\ checkpoints' = Append(checkpoints, loaded[c].content)
  /\ Goto(c, "receipt")
  /\ UNCHANGED <<stateFile, meta, eventsFile, damaged, lockFile, ghosts, local>>

(* checkpoint: a file numbered after those that exist ... *)
WriteCheckpoint(c) ==
  /\ at[c] = "checkpoint"
  /\ checkpoints' = Append(checkpoints, new[c])
  /\ Goto(c, "receipt")
  /\ UNCHANGED <<stateFile, meta, eventsFile, damaged, lockFile, ghosts, local>>

(* ... and state.json once more, now with the receipt of that file. *)
WriteReceipt(c) ==
  /\ at[c] = "receipt"
  /\ stateFile' = new[c]
  /\ Goto(c, "unlock")
  /\ UNCHANGED <<meta, eventsFile, checkpoints, damaged, lockFile, ghosts, local>>

(* The lock file is unlinked and the call returns the version it wrote. *)
Unlock(c) ==
  /\ at[c] = "unlock"
  /\ lockFile' = FALSE
  /\ LET saved == [version |-> metaCopy[c].state_version, content |-> new[c]]
     IN /\ acked' = acked \union {saved}
        /\ Return(c, IF Recovering(c) THEN Nothing ELSE saved)
  /\ UNCHANGED <<files, damaged, issued, crashed>>

-----------------------------------------------------------------------------
(* recover_latest lists the checkpoint files once, newest first. *)
CallRecover(c) ==
  /\ at[c] = "idle"
  /\ WithinBounds
  /\ listed' = [listed EXCEPT ![c] = Len(checkpoints)]
  /\ cand' = [cand EXCEPT ![c] = Len(checkpoints)]
  /\ loaded' = [loaded EXCEPT ![c] = Nothing]
  /\ own' = [own EXCEPT ![c] = FALSE]
  /\ Goto(c, "try")
  /\ UNCHANGED <<files, damaged, lockFile, ghosts, new, metaCopy>>

(* The file's hash does not match its name. *)
SkipDamaged(c) ==
  /\ at[c] = "try"
  /\ cand[c] \in damaged
  /\ cand' = [cand EXCEPT ![c] = @ - 1]
  /\ UNCHANGED <<files, damaged, lockFile, ghosts, at, loaded, new, metaCopy, own, listed>>

(* The file is good: its content is written as the next version, under the *)
(* lock but without any version check.                                     *)
TryCheckpoint(c) ==
  /\ at[c] = "try"
  /\ cand[c] \in DOMAIN checkpoints \ damaged
  /\ new' = [new EXCEPT ![c] = checkpoints[cand[c]]]
  /\ Goto(c, "lock")
  /\ UNCHANGED <<files, damaged, lockFile, ghosts, loaded, metaCopy, own, listed, cand>>

(* No file is left: RuntimeError("No valid checkpoint is available"). *)
RecoverFails(c) ==
  /\ at[c] = "try"
  /\ cand[c] = 0
  /\ Return(c, Nothing)
  /\ UNCHANGED <<files, damaged, lockFile, ghosts>>

-----------------------------------------------------------------------------
(* The process stops; every file, the lock file included, stays. *)
Crash(c) ==
  /\ MayCrash
  /\ at[c] # "idle" \/ loaded[c] # Nothing
  /\ crashed' = (crashed \/ at[c] \in Inside)
  /\ Return(c, Nothing)
  /\ UNCHANGED <<files, damaged, lockFile, issued, acked>>

(* Nothing in the code removes a lock file whose owner is gone; a person   *)
(* who notices can delete it.                                              *)
ClearStaleLock ==
  /\ Stale
  /\ lockFile' = FALSE
  /\ UNCHANGED <<files, damaged, ghosts, at, local>>

(* A checkpoint file is corrupted on the disk. *)
Damage ==
  /\ Cardinality(damaged) < MaxDamaged
  /\ \E i \in DOMAIN checkpoints \ damaged : damaged' = damaged \union {i}
  /\ UNCHANGED <<files, lockFile, ghosts, at, local>>

SaveStep(c) ==
  \/ TakeLock(c) \/ LockTimeout(c) \/ StateConflict(c) \/ CheckVersion(c)
  \/ WriteState(c) \/ AppendEvent(c) \/ WriteMeta(c) \/ WriteCheckpoint(c)
  \/ WriteReceipt(c) \/ Unlock(c)

RecoverStep(c) == SkipDamaged(c) \/ TryCheckpoint(c) \/ RecoverFails(c)

Next ==
  \/ \E c \in Client :
       \/ ReadState(c)
       \/ ReadMeta(c)
       \/ CallSave(c)
       \/ SaveStep(c)
       \/ CallRecover(c)
       \/ RecoverStep(c)
       \/ Crash(c)
  \/ ClearStaleLock
  \/ Damage

Spec == Init /\ [][Next]_vars

(* A call that was made keeps running unless its process is stopped. *)
FairSpec ==
  Spec /\ \A c \in Client : WF_vars(ReadMeta(c) \/ SaveStep(c) \/ RecoverStep(c))

-----------------------------------------------------------------------------
(* The lock file really excludes: at most one process is between taking    *)
(* and releasing it, whoever crashed or recovered before.                  *)
WriteLockExcludes ==
  \A c, d \in Client :
    at[c] \in Inside => lockFile /\ (at[d] \in Inside => c = d)

(* Two saves never return the same version with different states: the      *)
(* compare-and-swap lets one writer through per version, also when a       *)
(* writer died between state.json and backend-meta.json.                   *)
AckedVersionsUnique ==
  \A a, b \in acked : a.version = b.version => a = b

(* One writer at a time, one state per version: how the store keeps        *)
(* concurrent saves apart.                                                 *)
WritersExclude == WriteLockExcludes /\ AckedVersionsUnique

(* A save that returned can be recovered: its state is in a checkpoint     *)
(* file ("A checkpoint is written after every transition").                *)
AckedIsCheckpointed ==
  \A a \in acked : \E i \in DOMAIN checkpoints : checkpoints[i] = a.content

(* Event numbers never go back and never leave a gap.  They repeat only    *)
(* after a process stopped between the event line and the meta file;       *)
(* before that they are strict, as test_event_sequence_is_strict... of     *)
(* test_state_backends.py has it for one process.                          *)
EventSequenceOrdered ==
  /\ \A i \in 2 .. Len(eventsFile) :
       eventsFile[i] \in {eventsFile[i - 1], eventsFile[i - 1] + 1}
  /\ ~crashed => \A i \in DOMAIN eventsFile : eventsFile[i] = i

(* A runner that goes on from the state its own save returned is safe from *)
(* the torn load: as long as its version is current, so is its state.      *)
(* (Not after a crash inside the lock, which may leave a newer state.json  *)
(* under the old version.)                                                 *)
OwnStateIsCurrent ==
  ~crashed /\ ~lockFile =>
    \A c \in Client :
      own[c] /\ loaded[c].version = meta.state_version => loaded[c].content = stateFile

(* docs/state-backends.md: a stale writer receives StateConflictError      *)
(* before its state is committed.  So a save (not a recovery) never        *)
(* replaces a state.json holding updates the writer has not seen.          *)
SaveKeepsUpdates(c) ==
  at[c] = "state" /\ at'[c] = "event" /\ ~Recovering(c) => stateFile \subseteq stateFile'

StaleWriterRejected == [][\A c \in Client : SaveKeepsUpdates(c)]_vars

(* Every call comes to an end, also when a crash has left the lock file:   *)
(* waiting for the lock times out.                                         *)
CallsReturn == \A c \in Client : at[c] # "idle" ~> at[c] = "idle"
=============================================================================
