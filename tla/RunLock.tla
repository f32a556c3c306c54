------------------------------- MODULE RunLock -------------------------------
(***************************************************************************)
(* The owner-checked run lock of the StateBackend contract, as             *)
(* SQLiteStateBackend keeps it: acquire_run_lock inserts the one row of    *)
(* run_locks, release_run_lock deletes it after comparing the owner, each  *)
(* in one BEGIN IMMEDIATE transaction.  FileRunLock does the same with a   *)
(* file.                                                                   *)
(***************************************************************************)
CONSTANTS
  Process,  \* processes that open the run directory
  Owner,    \* names given as owner
  OwnerOf,  \* process -> the owner it passes to every call
  NoOwner

VARIABLES
  holder,  \* owner in the row of run_locks, or NoOwner
  holds    \* processes that acquired the lock and have not released it

vars == <<holder, holds>>

Init == holder = NoOwner /\ holds = {}

(* The primary key admits one row: a second INSERT is RunLockError, which  *)
(* changes nothing.                                                        *)
Acquire(p) ==
  /\ holder = NoOwner
  /\ holder' = OwnerOf[p]
  /\ holds' = holds \union {p}

(* Releasing what nobody holds is no error; what another owner holds is    *)
(* RunLockError.                                                           *)
Release(p) ==
  /\ holder \in {OwnerOf[p], NoOwner}
  /\ holder' = NoOwner
  /\ holds' = holds \ {p}

(* The process ends; the row stays until its owner releases it. *)
Exit(p) ==
  /\ holds' = holds \ {p}
  /\ UNCHANGED holder

Next == \E p \in Process : Acquire(p) \/ Release(p) \/ Exit(p)

Spec == Init /\ [][Next]_vars

-----------------------------------------------------------------------------
OneProcessPerOwner == \A p, q \in Process : OwnerOf[p] = OwnerOf[q] => p = q

(* With one process per owner at most one process holds the lock.  (Two    *)
(* processes that use the same name are one owner to the lock: either may  *)
(* release what the other acquired.)                                       *)
MutualExclusion == OneProcessPerOwner => \A p, q \in holds : p = q
=============================================================================
