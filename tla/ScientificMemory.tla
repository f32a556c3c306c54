-------------------------- MODULE ScientificMemory --------------------------
(***************************************************************************)
(* scientific_memory.py as runtime.py uses it: the index of a run is a     *)
(* database of its own.  A runtime ingests the state it loaded when it is  *)
(* constructed, and after each save, outside the transaction of the save,  *)
(* the state it saved; recover_latest does not touch the index.  The       *)
(* canonical state is that of StateBackend.                                *)
(***************************************************************************)
EXTENDS StateBackend

VARIABLES
  shown,     \* the content the rows of project and tasks show: none or one
  known,     \* updates some entity was indexed for
  pending,   \* client -> it has to ingest the state it holds
  committed, \* history: every content that has been canonical
  unsynced   \* history: an ingestion was lost or came too late

indexVars == <<shown, known>>
memVars == <<vars, shown, known, pending, committed, unsynced>>

MemInit ==
  /\ Init
  /\ shown = {} /\ known = {}
  /\ pending = [c \in Client |-> FALSE]
  /\ committed = {{}}
  /\ unsynced = TRUE

Owes(c, debt) == pending' = [pending EXCEPT ![c] = debt]
Lives(c) == loadedVersion[c] > 0
History == committed' = committed \union {content'}

(* Construction of a runtime.                                              *)
Open(c) ==
  /\ ~Lives(c)
  /\ LoadWithVersion(c) /\ Owes(c, TRUE) /\ History
  /\ UNCHANGED <<indexVars, unsynced>>

(* Every operation of a runtime loads the state again.                     *)
Reload(c) ==
  /\ Lives(c) /\ ~pending[c]
  /\ LoadWithVersion(c) /\ History
  /\ UNCHANGED <<indexVars, pending, unsynced>>

SaveState(c, u) ==
  /\ ~pending[c]
  /\ Save(c, u) /\ Owes(c, TRUE) /\ History
  /\ UNCHANGED <<indexVars, unsynced>>

(* Mutant: _save ingests before it saves. *)
MutSaveFails(c, u) ==
  /\ ~pending[c]
  /\ FailSave(c, u) /\ History
  /\ shown' = {loadedContent[c] \union {u}} /\ UNCHANGED known
  /\ UNCHANGED <<pending, unsynced>>

SaveFails(c, u) ==
  /\ ~pending[c]
  /\ FailSave(c, u) /\ History
  /\ UNCHANGED <<indexVars, pending, unsynced>>

(* Mutant: rows that exist are not updated. *)
MutUpsert(row) == IF shown = {} THEN {row} ELSE shown

(* The row of an entity is inserted or brought up to date.                 *)
Upsert(row) == {row}

(* ingest_state: all entities and relations of the state in one            *)
(* transaction.  Rows are never deleted.                                   *)
Ingest(c) ==
  /\ pending[c]
  /\ shown' = Upsert(loadedContent[c])
  /\ known' = known \union loadedContent[c]
  /\ unsynced' = (loadedVersion[c] # version)
  /\ Owes(c, FALSE)
  /\ UNCHANGED <<vars, committed>>

(* The transaction fails (metadata that must not be kept, a busy           *)
(* database), or the process stops.                                        *)
Stop(c) ==
  /\ Lives(c)
  /\ Leave(c) /\ Owes(c, FALSE) /\ History
  /\ unsynced' = (unsynced \/ pending[c])
  /\ UNCHANGED indexVars

(* The command recover, which constructs no runtime.                       *)
RecoverState(c) ==
  /\ ~Lives(c)
  /\ Recover(c) /\ History
  /\ unsynced' = TRUE
  /\ UNCHANGED <<indexVars, pending>>

MemNext ==
  \E c \in Client :
    \/ Open(c) \/ Reload(c) \/ Ingest(c) \/ Stop(c) \/ RecoverState(c)
    \/ \E u \in Update : SaveState(c, u) \/ SaveFails(c, u)

MemSpec == MemInit /\ [][MemNext]_memVars

-----------------------------------------------------------------------------
(* The index never shows a state that was not canonical at some time,      *)
(* although it is written outside the transaction of the save, after saves *)
(* that failed too and by processes that hold older states.                *)
IndexShowsOnlyCommitted == shown \subseteq committed /\ known \subseteq UNION committed

(* The index is behind the canonical state only while the process that     *)
(* made it canonical is about to ingest it, or after an ingestion that was *)
(* lost or overtaken; the next ingestion of the current version repairs it.*)
IndexFollows ==
  shown = {content} \/ unsynced \/ \E c \in Client : pending[c] /\ loadedVersion[c] = version
=============================================================================
