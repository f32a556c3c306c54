----------------------------- MODULE FileRunLock -----------------------------
(***************************************************************************)
(* research_os/store.py, acquire_run_lock and release_run_lock, step by    *)
(* step.  Acquiring creates .run.lock exclusively and writes the owner     *)
(* into it afterwards; releasing looks for the file, reads it, compares    *)
(* the owner and unlinks whatever file has the name by then.  A process    *)
(* may stop between any two of these steps.                                *)
(***************************************************************************)
EXTENDS FiniteSets

CONSTANTS Process, Owner, OwnerOf, NoOwner,
          Empty  \* content of a lock file that was created but not written

ASSUME OwnerAssumption ==
  /\ OwnerOf \in [Process -> Owner]
  /\ NoOwner \notin Owner \union Process
  /\ Empty \notin Owner \union {NoOwner}

VARIABLES
  lockFile, \* .run.lock: the owner in it, Empty, or NoOwner without a file
  creator,  \* process that created the file, or NoOwner
  holds,    \* processes whose acquire_run_lock returned, not released since
  doing     \* where each process is

vars == <<lockFile, creator, holds, doing>>

(* "write": the file is created; "read": it was seen; "unlink": its owner  *)
(* was compared.                                                           *)
Place == {"idle", "write", "read", "unlink"}

Init ==
  /\ lockFile = NoOwner
  /\ creator = NoOwner
  /\ holds = {}
  /\ doing = [p \in Process |-> "idle"]

Goto(p, place) == doing' = [doing EXCEPT ![p] = place]

(* O_CREAT | O_EXCL; when the file exists the call ends with RunLockError. *)
CreateFile(p) ==
  /\ doing[p] = "idle"
  /\ lockFile = NoOwner
  /\ lockFile' = Empty
  /\ creator' = p
  /\ Goto(p, "write")
  /\ UNCHANGED holds

(* The owner is written through the descriptor, into a file that somebody  *)
(* may have unlinked meanwhile.                                            *)
WriteOwner(p) ==
  /\ doing[p] = "write"
  /\ lockFile' = IF creator = p THEN OwnerOf[p] ELSE lockFile
  /\ holds' = holds \union {p}
  /\ Goto(p, "idle")
  /\ UNCHANGED creator

(* release_run_lock without a lock file returns at once ... *)
NothingToRelease(p) ==
  /\ doing[p] = "idle"
  /\ lockFile = NoOwner
  /\ holds' = holds \ {p}
  /\ UNCHANGED <<lockFile, creator, doing>>

FindFile(p) ==
  /\ doing[p] = "idle"
  /\ lockFile # NoOwner
  /\ Goto(p, "read")
  /\ UNCHANGED <<lockFile, creator, holds>>

(* Mutant: the owner is not compared. *)
MutAnyOwner(p) == lockFile \in Owner

OwnerMatches(p) == lockFile = OwnerOf[p]

(* ... otherwise the record is read and its owner compared ... *)
CompareOwner(p) ==
  /\ doing[p] = "read"
  /\ OwnerMatches(p)
  /\ Goto(p, "unlink")
  /\ UNCHANGED <<lockFile, creator, holds>>

(* ... and another owner, a file that is gone by now or one that holds no  *)
(* JSON yet end the call with an exception.                                *)
RefuseRelease(p) ==
  /\ doing[p] = "read"
  /\ ~OwnerMatches(p)
  /\ Goto(p, "idle")
  /\ UNCHANGED <<lockFile, creator, holds>>

(* The file is unlinked, whatever is in it by now; FileNotFoundError if it *)
(* is gone.  Either way this process is done with the lock.                *)
UnlinkFile(p) ==
  /\ doing[p] = "unlink"
  /\ lockFile' = NoOwner
  /\ creator' = NoOwner
  /\ holds' = holds \ {p}
  /\ Goto(p, "idle")

(* The process ends; the file stays. *)
Exit(p) ==
  /\ doing[p] # "idle" \/ p \in holds
  /\ Goto(p, "idle")
  /\ holds' = holds \ {p}
  /\ UNCHANGED <<lockFile, creator>>

Next ==
  \E p \in Process :
    \/ CreateFile(p) \/ WriteOwner(p)
    \/ NothingToRelease(p) \/ FindFile(p) \/ CompareOwner(p) \/ RefuseRelease(p)
    \/ UnlinkFile(p)
    \/ Exit(p)

Spec == Init /\ [][Next]_vars

-----------------------------------------------------------------------------
TypeOK ==
  /\ lockFile \in Owner \union {NoOwner, Empty}
  /\ creator \in Process \union {NoOwner}
  /\ holds \subseteq Process
  /\ doing \in [Process -> Place]

(* The lock belongs to its creator from the moment the file exists, and    *)
(* its process holds it once the call that created it is under way.        *)
Lock == INSTANCE RunLock WITH
  holder <- IF creator = NoOwner THEN NoOwner ELSE OwnerOf[creator],
  holds <- holds \union {p \in Process : doing[p] = "write"}

(* With one process per owner the file is as good as the row: it           *)
(* implements the owner-checked lock, with processes stopping anywhere.    *)
ImplementsRunLock == Lock!Spec

(* With one process per owner, at most one process holds the lock at any   *)
(* time, the ones that are still inside acquire_run_lock included.         *)
HoldersExclude == Lock!MutualExclusion
=============================================================================
