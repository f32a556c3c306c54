------------------------- MODULE SQLiteStateBackend -------------------------
(***************************************************************************)
(* research_os/state_backends.py, class SQLiteStateBackend, step by step.  *)
(*                                                                         *)
(* save() runs in one BEGIN IMMEDIATE transaction, so its reads and writes *)
(* of the database are isolated, but three things it does are outside the  *)
(* database: the checkpoint file is written before the commit, and the     *)
(* mirrors state.json and events.jsonl are written after it, by which time *)
(* another process may be saving or mirroring.  A process can stop, or a   *)
(* write can raise an exception, between any two of these steps: SQLite    *)
(* then rolls the transaction back, the files stay, and what was committed *)
(* stays too although save() raises.                                       *)
(*                                                                         *)
(* recover_latest() walks the checkpoint files that existed when it        *)
(* started, newest first, and saves the first one it can; any exception,   *)
(* the version conflict of its own save and a failure after its COMMIT     *)
(* included, sends it on to the next older file.                           *)
(***************************************************************************)
EXTENDS Naturals, Sequences, FiniteSets

CONSTANTS Client, Update, NoOwner, MaxVersion,
          MaxFiles,    \* bound on the checkpoint files when a call starts
          MaxDamaged,  \* how many checkpoint files may go bad on the disk
          MayCrash,    \* whether processes may be stopped half way
          MayTimeOut,  \* whether a lock may be held longer than ten seconds
          FailAt       \* steps of save at which a file or database operation may fail

ASSUME OwnerAssumption == NoOwner \notin Client /\ IsFiniteSet(Client)
ASSUME BoundAssumption == MaxVersion \in Nat /\ MaxFiles \in Nat
ASSUME DamageAssumption == MaxDamaged \in Nat
ASSUME CrashAssumption == MayCrash \in BOOLEAN /\ MayTimeOut \in BOOLEAN
ASSUME FailAssumption ==
  FailAt \subseteq {"check", "commit", "mirror", "read", "export", "fill"}

VARIABLES
  row,          \* canonical_state: [version, content]
  eventRows,    \* the events table: the version committed with each row
  writer,       \* client inside BEGIN IMMEDIATE, or NoOwner
  checkpoints,  \* content of each checkpoint file, by sequence number
  damaged,      \* sequence numbers whose bytes no longer match their name
  mirror,       \* state.json: [version, content]; version is a ghost
  eventsFile,   \* events.jsonl: the rows it was last rewritten with
  issued,       \* updates already used (ghost)
  at,           \* where each client is
  loaded,       \* [version, content] each client works from
  new,          \* content each client is saving
  rows,         \* event rows each client read for the export
  listed,       \* number of checkpoint files recover_latest found
  cand          \* the file recover_latest is trying, 0 when none is left

db == <<row, eventRows>>
files == <<checkpoints, damaged, mirror, eventsFile>>
local == <<loaded, new, rows, listed, cand>>
vars == <<db, writer, files, issued, at, local>>

Nothing == [version |-> 0, content |-> {}]

(* "idle": between calls.  "begin" .. "fill": inside save.                 *)
(* "try": recover_latest is about to try cand.                             *)
Place == {"idle", "begin", "check", "commit", "mirror", "read", "export", "fill", "try"}

Recovering(c) == listed[c] > 0

Init ==
  /\ row = [version |-> 1, content |-> {}]
  /\ eventRows = <<1>>
  /\ writer = NoOwner
  /\ checkpoints = <<{}>>
  /\ damaged = {}
  /\ mirror = row
  /\ eventsFile = eventRows
  /\ issued = {}
  /\ at = [c \in Client |-> "idle"]
  /\ loaded = [c \in Client |-> Nothing]
  /\ new = [c \in Client |-> {}]
  /\ rows = [c \in Client |-> <<>>]
  /\ listed = [c \in Client |-> 0]
  /\ cand = [c \in Client |-> 0]

-----------------------------------------------------------------------------
Goto(c, place) == at' = [at EXCEPT ![c] = place]

(* The call of c is over and it keeps the state in view. *)
Return(c, view) ==
  /\ Goto(c, "idle")
  /\ loaded' = [loaded EXCEPT ![c] = view]
  /\ new' = [new EXCEPT ![c] = {}]
  /\ rows' = [rows EXCEPT ![c] = <<>>]
  /\ listed' = [listed EXCEPT ![c] = 0]
  /\ cand' = [cand EXCEPT ![c] = 0]

(* save() raises: in recover_latest the exception is recorded and the next *)
(* older file is tried, elsewhere it ends the call and the state is        *)
(* dropped.                                                                *)
Raise(c) ==
  IF Recovering(c)
    THEN /\ Goto(c, "try")
         /\ cand' = [cand EXCEPT ![c] = @ - 1]
         /\ loaded' = [loaded EXCEPT ![c] = Nothing]
         /\ new' = [new EXCEPT ![c] = {}]
         /\ UNCHANGED <<rows, listed>>
    ELSE Return(c, Nothing)

(* load_with_version reads state and version in one SELECT.  Creating the  *)
(* schema first needs the write lock, so it waits while a save holds it.   *)
LoadWithVersion(c) ==
  /\ at[c] = "idle"
  /\ writer = NoOwner
  /\ loaded' = [loaded EXCEPT ![c] = row]
  /\ UNCHANGED <<db, writer, files, issued, at, new, rows, listed, cand>>

(* Calls start below the bounds; those under way may pass them by one each. *)
WithinBounds == row.version < MaxVersion /\ Len(checkpoints) < MaxFiles

(* The client changes its copy of the state and calls save.  The change is *)
(* one nobody has made before; which one does not matter.                  *)
CallSave(c) ==
  LET u == CHOOSE v \in Update \ issued : TRUE
  IN /\ at[c] = "idle"
     /\ WithinBounds
     /\ loaded[c].version > 0
     /\ issued # Update
     /\ issued' = issued \union {u}
     /\ new' = [new EXCEPT ![c] = loaded[c].content \union {u}]
     /\ Goto(c, "begin")
     /\ UNCHANGED <<db, writer, files, loaded, rows, listed, cand>>

(* BEGIN IMMEDIATE takes the database write lock ... *)
BeginImmediate(c) ==
  /\ at[c] = "begin"
  /\ writer = NoOwner
  /\ writer' = c
  /\ Goto(c, "check")
  /\ UNCHANGED <<db, files, issued, local>>

(* ... or gives up after the ten seconds of connect(timeout=10), as the     *)
(* load of a recovery may.                                                 *)
BusyTimeout(c) ==
  /\ MayTimeOut
  /\ at[c] = "begin" \/ (at[c] = "try" /\ cand[c] > 0 /\ cand[c] \notin damaged)
  /\ writer # NoOwner
  /\ Raise(c)
  /\ UNCHANGED <<db, writer, files, issued>>

(* Mutant: no version check. *)
MutNoVersionCheck(c) == TRUE

ExpectedVersion(c) == loaded[c].version = row.version

(* The version check fails: rollback, StateConflictError. *)
StateConflict(c) ==
  /\ at[c] = "check"
  /\ ~ExpectedVersion(c)
  /\ writer' = NoOwner
  /\ Raise(c)
  /\ UNCHANGED <<db, files, issued>>

(* The check passes: the checkpoint file is written, numbered after the    *)
(* files already there, before anything is committed.                      *)
WriteCheckpoint(c) ==
  /\ at[c] = "check"
  /\ ExpectedVersion(c)
  /\ checkpoints' = Append(checkpoints, new[c])
  /\ Goto(c, "commit")
  /\ UNCHANGED <<db, writer, damaged, mirror, eventsFile, issued, local>>

(* UPDATE, INSERT of the event and COMMIT take effect together. *)
CommitSave(c) ==
  /\ at[c] = "commit"
  /\ row' = [version |-> row.version + 1, content |-> new[c]]
  /\ eventRows' = Append(eventRows, row.version + 1)
  /\ writer' = NoOwner
  /\ loaded' = [loaded EXCEPT ![c] = [version |-> row.version + 1, content |-> new[c]]]
  /\ Goto(c, "mirror")
  /\ UNCHANGED <<files, issued, new, rows, listed, cand>>

(* Mutant: state.json is replaced before the transaction ends. *)
MutMirrorEarly(c) ==
  /\ at[c] = "commit"
  /\ mirror' = [version |-> row.version + 1, content |-> new[c]]
  /\ UNCHANGED <<db, writer, checkpoints, damaged, eventsFile, issued, at, local>>

(* After the transaction: state.json is replaced with this client's copy. *)
MirrorState(c) ==
  /\ at[c] = "mirror"
  /\ mirror' = loaded[c]
  /\ Goto(c, "read")
  /\ UNCHANGED <<db, writer, checkpoints, damaged, eventsFile, issued, local>>

(* _export_events selects the rows, closes the connection, and then        *)
(* rewrites events.jsonl in place: write_text opens the file, which makes  *)
(* it empty, and then writes what was read from its start on, perhaps over *)
(* the longer export of another process.  save then returns.               *)
ReadEvents(c) ==
  /\ at[c] = "read"
  /\ rows' = [rows EXCEPT ![c] = eventRows]
  /\ Goto(c, "export")
  /\ UNCHANGED <<db, writer, files, issued, loaded, new, listed, cand>>

TruncateEvents(c) ==
  /\ at[c] = "export"
  /\ eventsFile' = <<>>
  /\ Goto(c, "fill")
  /\ UNCHANGED <<db, writer, checkpoints, damaged, mirror, issued, local>>

ExportEvents(c) ==
  /\ at[c] = "fill"
  /\ eventsFile' = IF Len(rows[c]) < Len(eventsFile) THEN eventsFile ELSE rows[c]
  /\ Return(c, IF Recovering(c) THEN Nothing ELSE loaded[c])
  /\ UNCHANGED <<db, writer, checkpoints, damaged, mirror, issued>>

(* Calls that may still commit, and the bound for a recovery that failed    *)
(* after its COMMIT and becomes one of them again.                         *)
UnderWay == {c \in Client : at[c] \in {"begin", "check", "commit", "try"}}
RoomLeft == row.version + Cardinality(UnderWay) <= MaxVersion

(* A file or database operation raises: the checkpoint file, the COMMIT,   *)
(* or, when the state is already canonical, a mirror or the export.        *)
SaveFails(c) ==
  /\ at[c] \in FailAt
  /\ Recovering(c) => c \in UnderWay \/ RoomLeft
  /\ writer' = IF writer = c THEN NoOwner ELSE writer
  /\ Raise(c)
  /\ UNCHANGED <<db, files, issued>>

-----------------------------------------------------------------------------
(* recover_latest lists the checkpoint files once, newest first. *)
CallRecover(c) ==
  /\ at[c] = "idle"
  /\ WithinBounds
  /\ listed' = [listed EXCEPT ![c] = Len(checkpoints)]
  /\ cand' = [cand EXCEPT ![c] = Len(checkpoints)]
  /\ loaded' = [loaded EXCEPT ![c] = Nothing]
  /\ Goto(c, "try")
  /\ UNCHANGED <<db, writer, files, issued, new, rows>>

(* Mutant: the damaged file is not left behind. *)
MutSkipNothing(c) == at[c] = "try" /\ cand[c] \in damaged /\ UNCHANGED vars

(* The file's hash does not match its name. *)
SkipDamaged(c) ==
  /\ at[c] = "try"
  /\ cand[c] > 0
  /\ cand[c] \in damaged
  /\ cand' = [cand EXCEPT ![c] = @ - 1]
  /\ UNCHANGED <<db, writer, files, issued, at, loaded, new, rows, listed>>

(* The file is good: load the current version and save the file's content  *)
(* as its successor.                                                       *)
TryCheckpoint(c) ==
  /\ at[c] = "try"
  /\ cand[c] > 0
  /\ cand[c] \notin damaged
  /\ writer = NoOwner
  /\ loaded' = [loaded EXCEPT ![c] = row]
  /\ new' = [new EXCEPT ![c] = checkpoints[cand[c]]]
  /\ Goto(c, "begin")
  /\ UNCHANGED <<db, writer, files, issued, rows, listed, cand>>

(* No file is left: RuntimeError("No valid checkpoint is available"). *)
RecoverFails(c) ==
  /\ at[c] = "try"
  /\ cand[c] = 0
  /\ Return(c, Nothing)
  /\ UNCHANGED <<db, writer, files, issued>>

-----------------------------------------------------------------------------
(* The process stops: an open transaction is rolled back, files stay.      *)
Crash(c) ==
  /\ MayCrash
  /\ at[c] # "idle" \/ loaded[c] # Nothing
  /\ writer' = IF writer = c THEN NoOwner ELSE writer
  /\ Return(c, Nothing)
  /\ UNCHANGED <<db, files, issued>>

(* A checkpoint file is corrupted on the disk. *)
Damage ==
  /\ Cardinality(damaged) < MaxDamaged
  /\ \E i \in DOMAIN checkpoints \ damaged : damaged' = damaged \union {i}
  /\ UNCHANGED <<db, writer, checkpoints, mirror, eventsFile, issued, at, local>>

SaveStep(c) ==
  \/ BeginImmediate(c) \/ BusyTimeout(c) \/ StateConflict(c)
  \/ WriteCheckpoint(c) \/ CommitSave(c)
  \/ MirrorState(c) \/ ReadEvents(c) \/ TruncateEvents(c) \/ ExportEvents(c)

RecoverStep(c) == SkipDamaged(c) \/ TryCheckpoint(c) \/ RecoverFails(c)

Next ==
  \/ \E c \in Client :
       \/ LoadWithVersion(c)
       \/ CallSave(c)
       \/ SaveStep(c)
       \/ SaveFails(c)
       \/ CallRecover(c)
       \/ RecoverStep(c)
       \/ Crash(c)
  \/ Damage

Spec == Init /\ [][Next]_vars

(* A call that was made keeps running unless its process is stopped.  Each *)
(* of its steps changes its place or the file it tries.                    *)
FairSpec == Spec /\ \A c \in Client : WF_<<at, cand>>(SaveStep(c) \/ RecoverStep(c))

-----------------------------------------------------------------------------
(* Refinement.  The abstract save happens at COMMIT; until then its update *)
(* and its checkpoint file do not exist.  recover_latest holds no state.   *)
InFlight(c) == ~Recovering(c) /\ at[c] \in {"begin", "check", "commit"}

(* The updates of c that its save has not yet committed.                   *)
Pending(c) == new[c] \ loaded[c].content

(* The last file is of no save yet while its client is about to commit.    *)
KeptFiles == {j \in DOMAIN checkpoints :
                j = Len(checkpoints) => \A c \in Client : at[c] # "commit"}
Kept == {checkpoints[j] : j \in KeptFiles}

Issued == issued \ UNION {Pending(c) : c \in {d \in Client : InFlight(d)}}
LoadedVersion == [c \in Client |-> IF Recovering(c) THEN 0 ELSE loaded[c].version]
LoadedContent == [c \in Client |-> IF Recovering(c) THEN {} ELSE loaded[c].content]

Backend == INSTANCE StateBackend WITH
  MaxVersion <- MaxVersion + Cardinality(Client),
  version <- row.version, content <- row.content, events <- eventRows,
  kept <- Kept, issued <- Issued,
  loadedVersion <- LoadedVersion, loadedContent <- LoadedContent

(* The transactional backend keeps the promises of the contract, stale     *)
(* writers, crashes inside a save and damaged checkpoints included.        *)
ImplementsStateBackend == Backend!Spec

(* The mirrors may lag, but a reader of state.json or events.jsonl never   *)
(* sees anything that was not committed: no version is mirrored before its *)
(* commit, nor with another content, and the event file is a prefix of the *)
(* table.                                                                  *)
MirrorsShowOnlyCommitted ==
  /\ mirror.version <= row.version
  /\ mirror.version = row.version => mirror.content = row.content
  /\ Len(eventsFile) <= Len(eventRows)
  /\ eventsFile = SubSeq(eventRows, 1, Len(eventsFile))

(* Every save and every recovery comes to an end: lock waits time out, and *)
(* each failure of a recovery moves it to an older file.                   *)
CallsReturn == \A c \in Client : at[c] # "idle" ~> at[c] = "idle"
=============================================================================
