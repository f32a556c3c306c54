---------------------------- MODULE StateBackend ----------------------------
(***************************************************************************)
(* What research_os/state_backends.py promises its callers: one canonical  *)
(* state with a version that every save increments, optimistic             *)
(* concurrency (a save names the version its state was loaded at and is    *)
(* refused when the canonical version has moved on), one event per version *)
(* in version order, and checkpoints to recover from.                      *)
(* (The run lock of the contract is independent of the state: RunLock.tla.) *)
(*                                                                         *)
(* The content of a state is abstracted to the set of updates it           *)
(* incorporates: a client that saves adds one update of its own to the     *)
(* state it loaded, so an update that vanishes from the canonical state    *)
(* was overwritten by someone who had not read it.                         *)
(*                                                                         *)
(* This is the abstract specification.  SQLiteStateBackend implements it;  *)
(* FileStateBackend shows where the file implementation does not.          *)
(***************************************************************************)
EXTENDS Naturals, Sequences

CONSTANTS
  Client,      \* processes using the run directory: CLI invocations, runners
  Update,      \* the changes clients make to the state, each made at most once
  MaxVersion   \* bound on the canonical version

ASSUME BoundAssumption == MaxVersion \in Nat

VARIABLES
  version,       \* version of the canonical state
  content,       \* updates the canonical state incorporates
  events,        \* event log: the version each event belongs to, oldest first
  kept,          \* contents a checkpoint file exists for
  issued,        \* updates some client has put into a save already
  loadedVersion, \* version each client works from, 0 when it holds no state
  loadedContent  \* updates in the state each client works from

vars == <<version, content, events, kept, issued,
          loadedVersion, loadedContent>>

Version == 0 .. MaxVersion
Content == SUBSET Update

Init ==
  /\ version = 1
  /\ content = {}
  /\ events = <<1>>
  /\ kept = {{}}
  /\ issued = {}
  /\ loadedVersion = [c \in Client |-> 0]
  /\ loadedContent = [c \in Client |-> {}]

-----------------------------------------------------------------------------
(* load_with_version: the state and the version it has, together. *)
LoadWithVersion(c) ==
  /\ loadedVersion' = [loadedVersion EXCEPT ![c] = version]
  /\ loadedContent' = [loadedContent EXCEPT ![c] = content]
  /\ UNCHANGED <<version, content, events, kept, issued>>

(* A committed save makes new the canonical content and logs one event. *)
Commit(new) ==
  /\ version < MaxVersion
  /\ version' = version + 1
  /\ content' = new
  /\ events' = Append(events, version + 1)
  /\ kept' = kept \union {new}

(* Mutant: a save by whoever holds some state. *)
MutNoVersionCheck(c) == loadedVersion[c] > 0

ExpectedVersion(c) == loadedVersion[c] = version

(* save with the expected version still current. *)
Save(c, u) ==
  /\ ExpectedVersion(c)
  /\ u \notin issued
  /\ Commit(loadedContent[c] \union {u})
  /\ issued' = issued \union {u}
  /\ loadedVersion' = [loadedVersion EXCEPT ![c] = version + 1]
  /\ loadedContent' = [loadedContent EXCEPT ![c] = @ \union {u}]

(* A save that fails, with StateConflictError or otherwise, leaves the     *)
(* canonical state and its events alone.  The client gives its state up;   *)
(* a checkpoint file written before the failure may remain.                *)
Abandon(c, leftover) ==
  /\ kept' = kept \union leftover
  /\ loadedVersion' = [loadedVersion EXCEPT ![c] = 0]
  /\ loadedContent' = [loadedContent EXCEPT ![c] = {}]
  /\ UNCHANGED <<version, content, events>>

FailSave(c, u) ==
  /\ loadedVersion[c] > 0
  /\ u \notin issued
  /\ issued' = issued \union {u}
  /\ \/ Abandon(c, {})
     \/ Abandon(c, {loadedContent[c] \union {u}})

(* A client that stops, with or without having saved. *)
Leave(c) ==
  /\ issued' = issued
  /\ Abandon(c, {})

(* recover_latest: a checkpointed content becomes the canonical state of a *)
(* new version.                                                            *)
Recover(c) ==
  /\ \E old \in kept : Commit(old)
  /\ loadedVersion' = [loadedVersion EXCEPT ![c] = 0]
  /\ loadedContent' = [loadedContent EXCEPT ![c] = {}]
  /\ UNCHANGED issued

Next ==
  \E c \in Client :
    \/ LoadWithVersion(c)
    \/ \E u \in Update : Save(c, u) \/ FailSave(c, u)
    \/ Leave(c)
    \/ Recover(c)

Spec == Init /\ [][Next]_vars

-----------------------------------------------------------------------------
TypeOK ==
  /\ version \in Nat \ {0}
  /\ content \in Content
  /\ events \in Seq(Nat)
  /\ kept \subseteq Content
  /\ issued \in Content
  /\ loadedVersion \in [Client -> Nat]
  /\ loadedContent \in [Client -> Content]

(* A client whose version is current holds exactly the canonical state:    *)
(* the version check of save is enough to detect every stale state.        *)
CurrentVersionMeansCurrentState ==
  \A c \in Client :
    /\ loadedVersion[c] <= version
    /\ loadedVersion[c] = version => loadedContent[c] = content

(* No save overwrites an update it has not seen: a step that commits a new *)
(* update keeps every update that was there.  Only a recovery may take     *)
(* updates out of the canonical state.                                     *)
KeepsUpdates == version' # version /\ issued' # issued => content \subseteq content'

NoLostUpdate == [][KeepsUpdates]_vars

(* Every version has exactly one event, and events come in version order:  *)
(* the "ordered events" of the contract.                                   *)
EventsInVersionOrder ==
  /\ Len(events) = version
  /\ \A i \in DOMAIN events : events[i] = i

(* Whatever a save does, and however it fails, the canonical content has a *)
(* checkpoint file to recover it from.                                     *)
CanonicalIsCheckpointed == content \in kept
=============================================================================
