----------------------- MODULE FileStateBackendProofs -----------------------
(***************************************************************************)
(* The safety of the file store for any clients, updates and bounds, and   *)
(* wherever processes stop.                                                *)
(*                                                                         *)
(* The argument is the one of a critical section: what a process under the *)
(* lock has read of the files stays true until it writes them (UnderLock), *)
(* so versions only grow while no state of theirs is handed out (Versions) *)
(* and an event line runs at most one ahead of the meta file (Lines).      *)
(***************************************************************************)
EXTENDS FileStateBackend, TLAPS

Meta == [state_version : Nat, event_sequence : Nat]
View == [version : Nat, content : SUBSET Update]

FileTypes ==
  /\ stateFile \in SUBSET Update
  /\ meta \in Meta
  /\ eventsFile \in Seq(Nat) /\ Len(eventsFile) > 0
  /\ checkpoints \in Seq(SUBSET Update) /\ Len(checkpoints) > 0
  /\ lockFile \in BOOLEAN /\ crashed \in BOOLEAN
  /\ acked \in SUBSET View
  /\ issued \in SUBSET Update

CallTypes ==
  /\ at \in [Client -> Place]
  /\ loaded \in [Client -> View]
  /\ new \in [Client -> SUBSET Update]
  /\ metaCopy \in [Client -> Meta]
  /\ own \in [Client -> BOOLEAN]
  /\ listed \in [Client -> Nat]

KnowsFiles(c) ==
  /\ at[c] \in {"state", "event"} => metaCopy[c] = NextMeta(c)
  /\ at[c] = "meta" => metaCopy[c] = [state_version |-> meta.state_version + 1,
                                      event_sequence |-> meta.event_sequence + 1]
  /\ at[c] \in {"checkpoint", "receipt", "unlock"} => metaCopy[c] = meta
  /\ at[c] \in {"event", "meta", "checkpoint", "receipt", "unlock"} => stateFile = new[c]
  /\ at[c] \in {"receipt", "unlock"} => checkpoints[Len(checkpoints)] = new[c]

UnderLock == \A c \in Client : KnowsFiles(c)

(* The current version is not handed out before its save returns.          *)
Committing == \E c \in Client : at[c] \in {"checkpoint", "receipt", "unlock"}
HandedOut(v) == v <= meta.state_version /\ (Committing => v < meta.state_version)

Versions ==
  /\ \A a \in acked : HandedOut(a.version)
  /\ \A c \in Client : own[c] => HandedOut(loaded[c].version) /\ at[c] # "loading"

(* The number of the last event line.                                      *)
LastLine == eventsFile[Len(eventsFile)]
Lines ==
  /\ LastLine \in {meta.event_sequence, meta.event_sequence + 1}
  /\ \A c \in Client : at[c] = "meta" => LastLine = meta.event_sequence + 1
  /\ ~crashed /\ (\A c \in Client : at[c] # "meta") => LastLine = meta.event_sequence

(* Between state.json and backend-meta.json the state is ahead.            *)
Ahead == \E c \in Client : at[c] \in {"event", "meta"}
OwnStates ==
  ~crashed => \A c \in Client :
    own[c] /\ loaded[c].version = meta.state_version => loaded[c].content = stateFile \/ Ahead

FileInv ==
  /\ FileTypes /\ CallTypes
  /\ WriteLockExcludes /\ UnderLock
  /\ Versions /\ AckedVersionsUnique
  /\ AckedIsCheckpointed
  /\ Lines /\ EventSequenceOrdered
  /\ OwnStates

LEMMA NextMetaIs ==
  ASSUME NEW c \in Client, meta \in Meta
  PROVE  /\ NextMeta(c) = [state_version |-> meta.state_version + 1,
                            event_sequence |-> meta.event_sequence]
         /\ NextMeta(c) \in Meta
BY DEF NextMeta, Meta

LEMMA EventCounted ==
  ASSUME NEW m \in Meta
  PROVE  [m EXCEPT !.event_sequence = @ + 1] \in Meta
BY DEF Meta

LEMMA FileAppended ==
  ASSUME NEW S, NEW s \in Seq(S), NEW e \in S
  PROVE  Append(s, e) \in Seq(S) /\ Len(Append(s, e)) > 0
OBVIOUS

LEMMA FileInvInit == Init => FileInv
<1> SUFFICES ASSUME Init PROVE FileInv
  OBVIOUS
<1> USE DEF Init
<1>1. FileTypes
  <2>1. eventsFile \in Seq(Nat) /\ Len(eventsFile) > 0
    OBVIOUS
  <2>2. checkpoints \in Seq(SUBSET Update) /\ Len(checkpoints) > 0
    <3>1. {} \in SUBSET Update
      OBVIOUS
    <3> QED BY <3>1
  <2> QED BY <2>1, <2>2 DEF FileTypes, Meta
<1>2. CallTypes
  BY DEF CallTypes, Meta, View, Place, Nothing, NoMeta
<1>3. WriteLockExcludes /\ UnderLock /\ Versions /\ OwnStates
  BY DEF WriteLockExcludes, Inside, UnderLock, KnowsFiles, Versions, OwnStates
<1>4. Lines /\ EventSequenceOrdered
  BY DEF Lines, LastLine, EventSequenceOrdered
<1> QED BY <1>1, <1>2, <1>3, <1>4 DEF FileInv, AckedVersionsUnique, AckedIsCheckpointed

-----------------------------------------------------------------------------
(* Types.                                                                  *)
LEMMA TypesNext ==
  ASSUME FileInv, [Next]_vars
  PROVE  FileTypes' /\ CallTypes'
<1> FileTypes /\ CallTypes
  BY DEF FileInv
<1> USE DEF FileTypes, CallTypes, View, Place, Inside, Goto
<1>1. ASSUME NEW c \in Client, Return(c, Nothing), UNCHANGED files, UNCHANGED <<issued, acked>>,
             lockFile' \in BOOLEAN, crashed' \in BOOLEAN
      PROVE  FileTypes' /\ CallTypes'
  BY <1>1 DEF Return, Nothing, NoMeta, Meta, files
<1>2. ASSUME NEW c \in Client, Raise(c), UNCHANGED files, UNCHANGED <<issued, acked>>,
             lockFile' \in BOOLEAN, crashed' \in BOOLEAN
      PROVE  FileTypes' /\ CallTypes'
  <2>1. CASE Recovering(c)
    BY <1>2, <2>1 DEF Raise, files
  <2> QED BY <1>1, <1>2, <2>1 DEF Raise
<1>3. ASSUME NEW c \in Client, ReadState(c) PROVE FileTypes' /\ CallTypes'
  <2>1. [version |-> 0, content |-> stateFile] \in View
    OBVIOUS
  <2> QED BY <1>3, <2>1 DEF ReadState, files, ghosts
<1>4. ASSUME NEW c \in Client, ReadMeta(c) PROVE FileTypes' /\ CallTypes'
  <2>1. [loaded[c] EXCEPT !.version = meta.state_version] \in View
    <3>1. loaded[c] \in View /\ meta.state_version \in Nat
      BY DEF Meta
    <3> QED BY <3>1 DEF View
  <2>2. loaded' \in [Client -> View]
    BY <1>4, <2>1 DEF ReadMeta
  <2> QED BY <1>4, <2>2 DEF ReadMeta, files, ghosts
<1>5. ASSUME NEW c \in Client, CallSave(c) PROVE FileTypes' /\ CallTypes'
  <2>1. (CHOOSE v \in Update \ issued : TRUE) \in Update
    BY <1>5 DEF CallSave
  <2> QED BY <1>5, <2>1 DEF CallSave, files
<1>6. ASSUME NEW c \in Client, TakeLock(c) PROVE FileTypes' /\ CallTypes'
  BY <1>6 DEF TakeLock, files, ghosts, local
<1>7. ASSUME NEW c \in Client, LockTimeout(c) \/ StateConflict(c) PROVE FileTypes' /\ CallTypes'
  BY <1>2, <1>7 DEF LockTimeout, StateConflict, ghosts
<1>8. ASSUME NEW c \in Client, CheckVersion(c) PROVE FileTypes' /\ CallTypes'
  <2>1. NextMeta(c) \in Meta
    BY NextMetaIs
  <2> QED BY <1>8, <2>1 DEF CheckVersion, files, ghosts
<1>9. ASSUME NEW c \in Client, WriteState(c) PROVE FileTypes' /\ CallTypes'
  BY <1>9 DEF WriteState, ghosts, local
<1>10. ASSUME NEW c \in Client, AppendEvent(c) PROVE FileTypes' /\ CallTypes'
  <2>1. [metaCopy[c] EXCEPT !.event_sequence = @ + 1] \in Meta
    <3>1. metaCopy[c] \in Meta
      OBVIOUS
    <3> QED BY <3>1, EventCounted
  <2>2. metaCopy' \in [Client -> Meta]
    BY <1>10, <2>1 DEF AppendEvent
  <2>3. eventsFile' \in Seq(Nat) /\ Len(eventsFile') > 0
    BY <1>10 DEF AppendEvent, Meta
  <2> QED BY <1>10, <2>2, <2>3 DEF AppendEvent, ghosts
<1>11. ASSUME NEW c \in Client, WriteMeta(c) PROVE FileTypes' /\ CallTypes'
  BY <1>11 DEF WriteMeta, ghosts, local
<1>12. ASSUME NEW c \in Client, WriteCheckpoint(c) \/ WriteReceipt(c)
       PROVE  FileTypes' /\ CallTypes'
  <2>1. checkpoints' \in Seq(SUBSET Update) /\ Len(checkpoints') > 0
    <3>1. checkpoints' = Append(checkpoints, new[c]) \/ checkpoints' = checkpoints
      BY <1>12 DEF WriteCheckpoint, WriteReceipt
    <3>2. new[c] \in SUBSET Update
      OBVIOUS
    <3>3. /\ Append(checkpoints, new[c]) \in Seq(SUBSET Update)
          /\ Len(Append(checkpoints, new[c])) > 0
      <4>1. checkpoints \in Seq(SUBSET Update)
        OBVIOUS
      <4> HIDE DEF FileTypes, CallTypes
      <4> QED BY <3>2, <4>1, FileAppended
    <3>4. CASE checkpoints' = checkpoints
      BY <3>4
    <3>5. CASE checkpoints' = Append(checkpoints, new[c])
      <4> HIDE DEF FileTypes, CallTypes
      <4> QED BY <3>3, <3>5, Zenon
    <3> QED BY <3>1, <3>4, <3>5
  <2> QED BY <1>12, <2>1 DEF WriteCheckpoint, WriteReceipt, ghosts, local
<1>13. ASSUME NEW c \in Client, Unlock(c) PROVE FileTypes' /\ CallTypes'
  <2>1. [version |-> metaCopy[c].state_version, content |-> new[c]] \in View
    BY DEF Meta
  <2> QED BY <1>13, <2>1 DEF Unlock, Return, Nothing, NoMeta, Meta, files
<1>14. ASSUME NEW c \in Client, CallRecover(c) PROVE FileTypes' /\ CallTypes'
  BY <1>14 DEF CallRecover, Nothing, files, ghosts
<1>15. ASSUME NEW c \in Client, SkipDamaged(c) PROVE FileTypes' /\ CallTypes'
  BY <1>15 DEF SkipDamaged, files, ghosts
<1>16. ASSUME NEW c \in Client, TryCheckpoint(c) PROVE FileTypes' /\ CallTypes'
  <2>1. checkpoints[cand[c]] \in SUBSET Update
    BY <1>16 DEF TryCheckpoint
  <2> QED BY <1>16, <2>1 DEF TryCheckpoint, files, ghosts
<1>17. ASSUME NEW c \in Client, RecoverFails(c) \/ Crash(c) PROVE FileTypes' /\ CallTypes'
  BY <1>1, <1>17 DEF RecoverFails, Crash, ghosts
<1>18. CASE ClearStaleLock \/ Damage \/ UNCHANGED vars
  BY <1>18 DEF ClearStaleLock, Damage, vars, files, ghosts, local
<1> QED BY <1>3, <1>4, <1>5, <1>6, <1>7, <1>8, <1>9, <1>10, <1>11, <1>12, <1>13, <1>14,
           <1>15, <1>16, <1>17, <1>18 DEF Next, SaveStep, RecoverStep

-----------------------------------------------------------------------------
(* The steps that write nothing and end outside the lock.                  *)
Quiet(c) ==
  \/ ReadState(c) \/ ReadMeta(c) \/ CallSave(c) \/ LockTimeout(c) \/ StateConflict(c)
  \/ CallRecover(c) \/ RecoverStep(c) \/ Crash(c)

(* What they change is the call of c; a state they keep is the one c had.  *)
CallEndsOutside(c) ==
  /\ at'[c] \notin Inside
  /\ UNCHANGED <<files, acked>>
  /\ lockFile' = lockFile \/ (at[c] \in Inside /\ lockFile' = FALSE)
  /\ ~crashed' => ~crashed /\ at[c] \notin Inside \ {"check"}
  /\ \A d \in Client \ {c} :
       /\ at'[d] = at[d] /\ loaded'[d] = loaded[d] /\ own'[d] = own[d]
       /\ new'[d] = new[d] /\ metaCopy'[d] = metaCopy[d]
  /\ own'[c] => own[c] /\ loaded'[c] = loaded[c] /\ at'[c] # "loading"

LEMMA QuietStep ==
  ASSUME FileInv, NEW c \in Client, Quiet(c)
  PROVE  CallEndsOutside(c)
<1> CallTypes
  BY DEF FileInv
<1> USE DEF CallTypes, CallEndsOutside, Inside, Goto, ghosts
<1>1. CASE ReadState(c)
  BY <1>1 DEF ReadState
<1>2. CASE ReadMeta(c)
  <2>1. ~own[c]
    BY <1>2 DEF ReadMeta, FileInv, Versions
  <2> QED BY <1>2, <2>1 DEF ReadMeta
<1>3. CASE CallSave(c) \/ CallRecover(c)
  BY <1>3 DEF CallSave, CallRecover
<1>4. ASSUME Return(c, Nothing)
      PROVE  /\ at'[c] = "idle" /\ ~own'[c]
             /\ \A d \in Client \ {c} :
                  /\ at'[d] = at[d] /\ loaded'[d] = loaded[d] /\ own'[d] = own[d]
                  /\ new'[d] = new[d] /\ metaCopy'[d] = metaCopy[d]
  <2>1. own' = [own EXCEPT ![c] = FALSE]
    BY <1>4, Zenon DEF Return
  <2> QED BY <1>4, <2>1 DEF Return
<1>5. ASSUME Raise(c), at[c] \in {"lock", "check"}, UNCHANGED <<files, ghosts>>,
             lockFile' = lockFile \/ (at[c] \in Inside /\ lockFile' = FALSE)
      PROVE  CallEndsOutside(c)
  <2>1. CASE Recovering(c)
    BY <1>5, <2>1 DEF Raise
  <2> QED BY <1>4, <1>5, <2>1 DEF Raise
<1>6. CASE LockTimeout(c) \/ StateConflict(c)
  BY <1>5, <1>6 DEF LockTimeout, StateConflict
<1>7. CASE SkipDamaged(c) \/ TryCheckpoint(c)
  BY <1>7 DEF SkipDamaged, TryCheckpoint
<1>8. CASE RecoverFails(c)
  BY <1>4, <1>8 DEF RecoverFails
<1>9. CASE Crash(c)
  <2>1. ~crashed' => ~crashed /\ at[c] \notin Inside
    BY <1>9, Zenon DEF Crash
  <2> QED BY <1>4, <1>9, <2>1 DEF Crash
<1> QED BY <1>1, <1>2, <1>3, <1>6, <1>7, <1>8, <1>9 DEF Quiet, RecoverStep

(* Steps that leave the calls and the files alone; a lock file nobody has  *)
(* may go.                                                                 *)
Beside == ClearStaleLock \/ Damage \/ UNCHANGED vars

LEMMA BesideStep ==
  ASSUME Beside
  PROVE  /\ UNCHANGED <<files, acked, crashed, at, local>>
         /\ UNCHANGED lockFile \/ \A c \in Client : at[c] \notin Inside
BY DEF Beside, ClearStaleLock, Stale, Damage, vars, ghosts

LEMMA Cases ==
  ASSUME [Next]_vars
  PROVE  \/ Beside
         \/ \E c \in Client :
              \/ Quiet(c) \/ TakeLock(c) \/ CheckVersion(c) \/ WriteState(c) \/ AppendEvent(c)
              \/ WriteMeta(c) \/ WriteCheckpoint(c) \/ WriteReceipt(c) \/ Unlock(c)
BY DEF Next, SaveStep, Beside, Quiet

-----------------------------------------------------------------------------
(* Exclusion.                                                              *)
LEMMA LockNext ==
  ASSUME FileInv, [Next]_vars
  PROVE  WriteLockExcludes'
<1> CallTypes /\ WriteLockExcludes
  BY DEF FileInv
<1> USE DEF CallTypes, WriteLockExcludes, Goto
<1>1. ASSUME NEW c \in Client, Quiet(c) PROVE WriteLockExcludes'
  BY <1>1, QuietStep DEF CallEndsOutside
<1>2. ASSUME NEW c \in Client, TakeLock(c) PROVE WriteLockExcludes'
  BY <1>2 DEF TakeLock
<1>3. ASSUME NEW c \in Client, CheckVersion(c) \/ WriteState(c) \/ AppendEvent(c)
      PROVE  WriteLockExcludes'
  BY <1>3 DEF CheckVersion, WriteState, AppendEvent, Inside
<1>4. ASSUME NEW c \in Client, WriteMeta(c) \/ WriteCheckpoint(c) \/ WriteReceipt(c)
      PROVE  WriteLockExcludes'
  BY <1>4 DEF WriteMeta, WriteCheckpoint, WriteReceipt, Inside
<1>5. ASSUME NEW c \in Client, Unlock(c) PROVE WriteLockExcludes'
  BY <1>5 DEF Unlock, Return, Inside
<1>6. CASE Beside
  BY <1>6, BesideStep
<1> QED BY <1>1, <1>2, <1>3, <1>4, <1>5, <1>6, Cases

(* What a process under the lock knows of the files.                       *)
LEMMA UnderLockNext ==
  ASSUME FileInv, [Next]_vars
  PROVE  UnderLock'
<1> FileTypes /\ CallTypes /\ WriteLockExcludes /\ UnderLock
  BY DEF FileInv
<1> USE DEF FileTypes, CallTypes, WriteLockExcludes, UnderLock, KnowsFiles, Goto
<1>1. ASSUME NEW c \in Client, Quiet(c) PROVE UnderLock'
  <2>1. CallEndsOutside(c)
    BY <1>1, QuietStep
  <2>2. ASSUME NEW d \in Client PROVE KnowsFiles(d)'
    <3>1. CASE d = c
      BY <2>1, <3>1 DEF CallEndsOutside, Inside
    <3>2. CASE d # c
      <4>1. /\ at'[d] = at[d] /\ new'[d] = new[d] /\ metaCopy'[d] = metaCopy[d]
            /\ UNCHANGED <<stateFile, meta, checkpoints>>
        BY <2>1, <3>2 DEF CallEndsOutside, files
      <4> QED BY <4>1 DEF NextMeta
    <3> QED BY <3>1, <3>2
  <2> QED BY <2>2
<1>2. ASSUME NEW c \in Client, TakeLock(c) PROVE UnderLock'
  BY <1>2 DEF TakeLock, Inside, files, local, NextMeta
<1>3. ASSUME NEW c \in Client, CheckVersion(c) PROVE UnderLock'
  BY <1>3 DEF CheckVersion, Inside, files, NextMeta
<1>4. ASSUME NEW c \in Client, WriteState(c) PROVE UnderLock'
  BY <1>4 DEF WriteState, Inside, local, NextMeta
<1>5. ASSUME NEW c \in Client, AppendEvent(c) PROVE UnderLock'
  <2>1. metaCopy[c] = [state_version |-> meta.state_version + 1,
                       event_sequence |-> meta.event_sequence]
    BY <1>5, NextMetaIs DEF AppendEvent
  <2> QED BY <1>5, <2>1 DEF AppendEvent, Inside, NextMeta
<1>6. ASSUME NEW c \in Client, WriteMeta(c) PROVE UnderLock'
  BY <1>6 DEF WriteMeta, Inside, local, NextMeta
<1>7. ASSUME NEW c \in Client, WriteCheckpoint(c) \/ WriteReceipt(c) PROVE UnderLock'
  BY <1>7 DEF WriteCheckpoint, WriteReceipt, Inside, local, NextMeta
<1>8. ASSUME NEW c \in Client, Unlock(c) PROVE UnderLock'
  BY <1>8 DEF Unlock, Return, Inside, files, NextMeta
<1>9. CASE Beside
  BY <1>9, BesideStep DEF files, local, NextMeta
<1> QED BY <1>1, <1>2, <1>3, <1>4, <1>5, <1>6, <1>7, <1>8, <1>9, Cases

-----------------------------------------------------------------------------
(* Versions only grow, and those of other saves are below the current one  *)
(* while a save is about to return.                                        *)
LEMMA VersionsNext ==
  ASSUME FileInv, [Next]_vars
  PROVE  Versions' /\ AckedVersionsUnique'
<1> FileTypes /\ CallTypes /\ WriteLockExcludes /\ UnderLock /\ Versions /\ AckedVersionsUnique
  BY DEF FileInv
<1> USE DEF FileTypes, CallTypes, Meta, View, WriteLockExcludes, Versions, AckedVersionsUnique,
            HandedOut, Committing, Goto
<1>1. ASSUME NEW c \in Client, Quiet(c) PROVE Versions' /\ AckedVersionsUnique'
  <2>1. CallEndsOutside(c)
    BY <1>1, QuietStep
  <2>2. Committing' => Committing
    BY <2>1 DEF CallEndsOutside, Inside
  <2>3. UNCHANGED <<meta, acked>>
    BY <2>1 DEF CallEndsOutside, files
  <2>4. ASSUME NEW d \in Client, own'[d]
        PROVE  own[d] /\ loaded'[d] = loaded[d] /\ at'[d] # "loading"
    BY <2>1, <2>4 DEF CallEndsOutside
  <2> QED BY <2>2, <2>3, <2>4
<1>2. ASSUME NEW c \in Client, TakeLock(c) PROVE Versions' /\ AckedVersionsUnique'
  BY <1>2 DEF TakeLock, files, ghosts, local
<1>3. ASSUME NEW c \in Client, CheckVersion(c) \/ WriteState(c) \/ AppendEvent(c)
      PROVE  Versions' /\ AckedVersionsUnique'
  <2>1. /\ UNCHANGED <<meta, acked, own, loaded>>
        /\ at' = [at EXCEPT ![c] = "state"] \/ at' = [at EXCEPT ![c] = "event"]
             \/ at' = [at EXCEPT ![c] = "meta"]
    BY <1>3 DEF CheckVersion, WriteState, AppendEvent, files, ghosts, local
  <2>2. \A d \in Client : at'[d] = at[d] \/ at'[d] \in {"state", "event", "meta"}
    BY <2>1
  <2>3. Committing' => Committing
    BY <2>2
  <2>4. \A d \in Client : at[d] # "loading" => at'[d] # "loading"
    BY <2>2
  <2> QED BY <2>1, <2>3, <2>4
<1>4. ASSUME NEW c \in Client, WriteMeta(c) PROVE Versions' /\ AckedVersionsUnique'
  <2>1. /\ meta'.state_version = meta.state_version + 1 /\ UNCHANGED <<acked, own, loaded>>
        /\ at' = [at EXCEPT ![c] = "checkpoint"]
    BY <1>4 DEF WriteMeta, UnderLock, KnowsFiles, ghosts, local
  <2>2. \A d \in Client : at[d] # "loading" => at'[d] # "loading"
    BY <2>1
  <2>3. \A a \in acked : a.version \in Nat /\ a.version < meta'.state_version
    BY <2>1
  <2>4. \A d \in Client : own[d] =>
          /\ loaded[d].version \in Nat /\ loaded[d].version < meta'.state_version
          /\ at[d] # "loading"
    BY <2>1
  <2>5. AckedVersionsUnique'
    BY <2>1
  <2>6. meta'.state_version \in Nat
    BY <2>1
  <2>7. \A v \in Nat : v < meta'.state_version => HandedOut(v)'
    BY <2>6
  <2> HIDE DEF HandedOut, Committing, AckedVersionsUnique, FileTypes, CallTypes
  <2> QED BY <2>1, <2>2, <2>3, <2>4, <2>5, <2>7
<1>5. ASSUME NEW c \in Client, WriteCheckpoint(c) \/ WriteReceipt(c)
      PROVE  Versions' /\ AckedVersionsUnique'
  BY <1>5 DEF WriteCheckpoint, WriteReceipt, ghosts, local
<1>6. ASSUME NEW c \in Client, Unlock(c) PROVE Versions' /\ AckedVersionsUnique'
  <2> DEFINE saved == [version |-> meta.state_version, content |-> new[c]]
  <2>1. metaCopy[c].state_version = meta.state_version
    BY <1>6 DEF Unlock, UnderLock, KnowsFiles
  <2>2. /\ acked' = acked \union {saved}
        /\ Return(c, IF Recovering(c) THEN Nothing ELSE saved)
        /\ meta' = meta
    BY <1>6, <2>1 DEF Unlock, files
  <2>3. \A a \in acked : a.version < meta.state_version
    BY <1>6 DEF Unlock
  <2>4. AckedVersionsUnique'
    BY <2>2, <2>3
  <2>5. ~Committing'
    BY <1>6, <2>2 DEF Unlock, Return, Inside
  <2>6. own'[c] => loaded'[c] = saved
    BY <2>2 DEF Return
  <2>7. \A d \in Client \ {c} : own'[d] = own[d] /\ loaded'[d] = loaded[d] /\ at'[d] = at[d]
    BY <2>2 DEF Return
  <2>8. at'[c] = "idle"
    BY <2>2 DEF Return
  <2>9. \A x \in acked' : x.version <= meta'.state_version
    BY <2>2, <2>3
  <2>10. ASSUME NEW d \in Client, own'[d]
         PROVE  loaded'[d].version <= meta'.state_version /\ at'[d] # "loading"
    <3>1. CASE d = c
      BY <2>2, <2>6, <2>8, <2>10, <3>1
    <3>2. CASE d # c
      <4>1. own[d] /\ loaded'[d] = loaded[d] /\ at'[d] = at[d]
        BY <2>7, <2>10, <3>2
      <4> QED BY <2>2, <4>1
    <3> QED BY <3>1, <3>2
  <2> QED BY <2>4, <2>5, <2>9, <2>10
<1>7. CASE Beside
  BY <1>7, BesideStep DEF files, local
<1> QED BY <1>1, <1>2, <1>3, <1>4, <1>5, <1>6, <1>7, Cases

(* Before a save returns, its state is in the newest checkpoint.           *)
LEMMA CheckpointedNext ==
  ASSUME FileInv, [Next]_vars
  PROVE  AckedIsCheckpointed'
<1> FileTypes /\ CallTypes /\ UnderLock /\ AckedIsCheckpointed
  BY DEF FileInv
<1> USE DEF FileTypes, AckedIsCheckpointed
<1>1. CASE UNCHANGED <<acked, checkpoints>>
  BY <1>1
<1>2. ASSUME NEW c \in Client, WriteCheckpoint(c) PROVE AckedIsCheckpointed'
  <2>1. \A i \in DOMAIN checkpoints : i \in DOMAIN checkpoints' /\ checkpoints'[i] = checkpoints[i]
    BY <1>2 DEF WriteCheckpoint, CallTypes
  <2> QED BY <1>2, <2>1 DEF WriteCheckpoint, ghosts
<1>3. ASSUME NEW c \in Client, Unlock(c) PROVE AckedIsCheckpointed'
  <2>1. Len(checkpoints) \in DOMAIN checkpoints /\ checkpoints[Len(checkpoints)] = new[c]
    BY <1>3 DEF Unlock, UnderLock, KnowsFiles
  <2> QED BY <1>3, <2>1 DEF Unlock, files
<1>4. ASSUME NEW c \in Client,
             \/ Quiet(c) \/ TakeLock(c) \/ CheckVersion(c) \/ WriteState(c) \/ AppendEvent(c)
             \/ WriteMeta(c) \/ WriteReceipt(c)
      PROVE  UNCHANGED <<acked, checkpoints>>
  BY <1>4, QuietStep DEF CallEndsOutside, TakeLock, CheckVersion, WriteState, AppendEvent,
                         WriteMeta, WriteReceipt, files, ghosts
<1>5. CASE Beside
  BY <1>1, <1>5, BesideStep DEF files
<1> QED BY <1>1, <1>2, <1>3, <1>4, <1>5, Cases

-----------------------------------------------------------------------------
(* A line with the last number or the next one keeps the numbers in order. *)
LEMMA LineFollows ==
  ASSUME NEW lines \in Seq(Nat), Len(lines) > 0, NEW line \in Nat,
         line \in {lines[Len(lines)], lines[Len(lines)] + 1},
         \A i \in 2 .. Len(lines) : lines[i] \in {lines[i - 1], lines[i - 1] + 1}
  PROVE  LET longer == Append(lines, line) IN
         /\ \A i \in 2 .. Len(longer) : longer[i] \in {longer[i - 1], longer[i - 1] + 1}
         /\ (\A i \in DOMAIN lines : lines[i] = i) /\ line = Len(lines) + 1
              => \A i \in DOMAIN longer : longer[i] = i
<1> DEFINE longer == Append(lines, line)
           n == Len(lines)
<1>1. /\ n \in Nat \ {0} /\ DOMAIN lines = 1..n
      /\ Len(longer) = n + 1 /\ DOMAIN longer = 1 .. n + 1
      /\ longer[n + 1] = line /\ \A i \in 1..n : longer[i] = lines[i]
  OBVIOUS
<1> HIDE DEF longer, n
<1>2. ASSUME NEW i \in 2 .. n + 1 PROVE longer[i] \in {longer[i - 1], longer[i - 1] + 1}
  <2>1. CASE i = n + 1
    BY <1>1, <2>1 DEF n
  <2>2. CASE i # n + 1
    <3>1. i \in 2..n /\ i \in 1..n /\ i - 1 \in 1..n
      BY <1>1, <2>2
    <3> QED BY <1>1, <3>1 DEF n
  <2> QED BY <2>1, <2>2
<1>3. ASSUME \A i \in 1..n : lines[i] = i, line = n + 1
      PROVE  \A i \in 1 .. n + 1 : longer[i] = i
  BY <1>1, <1>3
<1> QED BY <1>1, <1>2, <1>3 DEF longer, n

(* Event lines.  A line that is ahead of the meta file is either about to  *)
(* be counted, or its writer stopped and the next one repeats its number.  *)
LEMMA LinesNext ==
  ASSUME FileInv, [Next]_vars
  PROVE  Lines' /\ EventSequenceOrdered'
<1> FileTypes /\ CallTypes /\ WriteLockExcludes /\ UnderLock /\ Lines /\ EventSequenceOrdered
  BY DEF FileInv
<1> USE DEF FileTypes, CallTypes, Meta, Lines, LastLine, EventSequenceOrdered, Goto
<1>1. ASSUME NEW c \in Client, Quiet(c) PROVE Lines' /\ EventSequenceOrdered'
  <2>1. CallEndsOutside(c)
    BY <1>1, QuietStep
  <2>2. UNCHANGED <<eventsFile, meta>> /\ (~crashed' => ~crashed /\ at[c] # "meta")
    BY <2>1 DEF CallEndsOutside, files, Inside
  <2>3. \A d \in Client : at'[d] = "meta" => at[d] = "meta"
    BY <2>1 DEF CallEndsOutside, Inside
  <2>4. ~crashed' /\ (\A d \in Client : at'[d] # "meta") => \A d \in Client : at[d] # "meta"
    BY <2>1, <2>2 DEF CallEndsOutside
  <2> QED BY <2>2, <2>3, <2>4
<1>2. ASSUME NEW c \in Client,
             \/ TakeLock(c) \/ CheckVersion(c) \/ WriteState(c)
             \/ WriteCheckpoint(c) \/ WriteReceipt(c) \/ Unlock(c)
      PROVE  Lines' /\ EventSequenceOrdered'
  <2>1. UNCHANGED <<eventsFile, meta, crashed>>
    BY <1>2 DEF TakeLock, CheckVersion, WriteState, WriteCheckpoint, WriteReceipt, Unlock, files,
                ghosts
  <2>2. \A d \in Client : at'[d] = "meta" <=> at[d] = "meta"
    BY <1>2 DEF TakeLock, CheckVersion, WriteState, WriteCheckpoint, WriteReceipt, Unlock, Return
  <2> QED BY <2>1, <2>2
<1>3. ASSUME NEW c \in Client, AppendEvent(c) PROVE Lines' /\ EventSequenceOrdered'
  <2> DEFINE line == meta.event_sequence + 1
             n == Len(eventsFile)
  <2>1. metaCopy[c].event_sequence = meta.event_sequence
    BY <1>3, NextMetaIs DEF AppendEvent, UnderLock, KnowsFiles
  <2>2. eventsFile' = Append(eventsFile, line) /\ UNCHANGED <<meta, crashed>>
    BY <1>3, <2>1 DEF AppendEvent, ghosts
  <2>3. /\ Len(eventsFile') = n + 1 /\ eventsFile'[n + 1] = line
        /\ \A i \in 1..n : eventsFile'[i] = eventsFile[i]
    BY <2>2
  <2>4. \A d \in Client : at[d] # "meta"
    BY <1>3 DEF AppendEvent, WriteLockExcludes, Inside
  <2>5. ~crashed => line = n + 1
    BY <2>4
  <2>6. EventSequenceOrdered'
    <3>1. line \in {eventsFile[n], eventsFile[n] + 1} /\ line \in Nat
      OBVIOUS
    <3> QED BY <2>2, <2>5, <3>1, LineFollows
  <2>7. at'[c] = "meta"
    BY <1>3 DEF AppendEvent
  <2> QED BY <2>2, <2>3, <2>6, <2>7
<1>4. ASSUME NEW c \in Client, WriteMeta(c) PROVE Lines' /\ EventSequenceOrdered'
  <2>1. meta'.event_sequence = meta.event_sequence + 1
    BY <1>4 DEF WriteMeta, UnderLock, KnowsFiles
  <2>2. UNCHANGED <<eventsFile, crashed>> /\ LastLine = meta.event_sequence + 1
    BY <1>4 DEF WriteMeta, ghosts
  <2>3. \A d \in Client : at'[d] # "meta"
    BY <1>4 DEF WriteMeta, WriteLockExcludes, Inside
  <2> QED BY <2>1, <2>2, <2>3
<1>5. CASE Beside
  BY <1>5, BesideStep DEF files
<1> QED BY <1>1, <1>2, <1>3, <1>4, <1>5, Cases

(* A state somebody got from its own save.                                 *)
LEMMA OwnNext ==
  ASSUME FileInv, [Next]_vars
  PROVE  OwnStates'
<1> FileTypes /\ CallTypes /\ UnderLock /\ Versions /\ OwnStates
  BY DEF FileInv
<1> USE DEF FileTypes, CallTypes, Meta, View, OwnStates, Ahead, Goto
<1>1. ASSUME NEW c \in Client, Quiet(c) PROVE OwnStates'
  <2>1. CallEndsOutside(c)
    BY <1>1, QuietStep
  <2>2. ASSUME NEW d \in Client, own'[d] PROVE own[d] /\ loaded'[d] = loaded[d]
    BY <2>1, <2>2 DEF CallEndsOutside
  <2>3. ~crashed' => ~crashed /\ (Ahead => Ahead')
    BY <2>1 DEF CallEndsOutside, Inside
  <2>4. UNCHANGED <<meta, stateFile>>
    BY <2>1 DEF CallEndsOutside, files
  <2> QED BY <2>2, <2>3, <2>4
<1>2. ASSUME NEW c \in Client, TakeLock(c) \/ CheckVersion(c) PROVE OwnStates'
  <2>1. UNCHANGED <<meta, stateFile, crashed, loaded, own>>
    BY <1>2 DEF TakeLock, CheckVersion, files, ghosts, local
  <2>2. \A d \in Client : at[d] \in {"event", "meta"} => at'[d] \in {"event", "meta"}
    BY <1>2 DEF TakeLock, CheckVersion
  <2> QED BY <2>1, <2>2
<1>3. ASSUME NEW c \in Client, WriteState(c) \/ AppendEvent(c) PROVE OwnStates'
  BY <1>3 DEF WriteState, AppendEvent
<1>4. ASSUME NEW c \in Client, WriteMeta(c) PROVE OwnStates'
  <2>1. meta'.state_version = meta.state_version + 1 /\ UNCHANGED <<loaded, own>>
    BY <1>4 DEF WriteMeta, UnderLock, KnowsFiles, local
  <2> QED BY <2>1 DEF Versions, HandedOut
<1>5. ASSUME NEW c \in Client, WriteCheckpoint(c) \/ WriteReceipt(c) PROVE OwnStates'
  <2>1. Committing /\ UNCHANGED <<meta, loaded, own>>
    BY <1>5 DEF WriteCheckpoint, WriteReceipt, Committing, local
  <2> QED BY <2>1 DEF Versions, HandedOut
<1>6. ASSUME NEW c \in Client, Unlock(c) PROVE OwnStates'
  <2>1. /\ Committing /\ UNCHANGED <<meta, stateFile>> /\ stateFile = new[c]
    BY <1>6 DEF Unlock, Committing, files, UnderLock, KnowsFiles
  <2>2. \A d \in Client \ {c} : own'[d] = own[d] /\ loaded'[d] = loaded[d]
    BY <1>6 DEF Unlock, Return
  <2>3. own'[c] => loaded'[c].content = new[c]
    <3>1. CASE Recovering(c)
      <4>1. own' = [own EXCEPT ![c] = FALSE]
        BY <1>6, <3>1, Zenon DEF Unlock, Return
      <4> QED BY <4>1
    <3>2. CASE ~Recovering(c)
      BY <1>6, <3>2 DEF Unlock, Return
    <3> QED BY <3>1, <3>2
  <2>4. ASSUME NEW d \in Client \ {c}, own'[d] PROVE loaded'[d].version < meta.state_version
    BY <2>1, <2>2, <2>4 DEF Versions, HandedOut
  <2>5. ASSUME NEW d \in Client, own'[d], loaded'[d].version = meta.state_version
        PROVE  loaded'[d].content = stateFile
    <3>1. CASE d = c
      BY <2>1, <2>3, <2>5, <3>1
    <3>2. CASE d # c
      <4>1. loaded'[d] = loaded[d]
        BY <2>2, <3>2
      <4>2. loaded'[d].version \in Nat /\ meta.state_version \in Nat
        BY <4>1
      <4>3. loaded'[d].version < meta.state_version
        BY <2>4, <2>5, <3>2
      <4> QED BY <2>5, <4>2, <4>3
    <3> QED BY <3>1, <3>2
  <2> QED BY <2>1, <2>5
<1>7. CASE Beside
  BY <1>7, BesideStep DEF files, local
<1> QED BY <1>1, <1>2, <1>3, <1>4, <1>5, <1>6, <1>7, Cases

LEMMA FileInvNext ==
  ASSUME FileInv, [Next]_vars
  PROVE  FileInv'
BY TypesNext, LockNext, UnderLockNext, VersionsNext, CheckpointedNext, LinesNext, OwnNext DEF FileInv

-----------------------------------------------------------------------------
(* All of the above holds in every state, for any clients, whoever stops.  *)
THEOREM FileInvariant == Spec => []FileInv
BY FileInvInit, FileInvNext, PTL DEF Spec

(* The write lock excludes, and no version is handed out with two states,  *)
(* also when a writer stopped between state.json and backend-meta.json.    *)
THEOREM WritersAreApart == Spec => []WritersExclude
<1>1. FileInv => WritersExclude
  BY DEF FileInv, WritersExclude
<1> QED BY <1>1, FileInvariant, PTL

(* A state that was acknowledged is in a checkpoint file.                  *)
THEOREM AckedIsRecoverable == Spec => []AckedIsCheckpointed
<1>1. FileInv => AckedIsCheckpointed
  BY DEF FileInv
<1> QED BY <1>1, FileInvariant, PTL

(* Event numbers leave no gap; they repeat only after a stop under the     *)
(* lock.                                                                   *)
THEOREM EventsAreGapless == Spec => []EventSequenceOrdered
<1>1. FileInv => EventSequenceOrdered
  BY DEF FileInv
<1> QED BY <1>1, FileInvariant, PTL

(* What a runner got from its own save is current while its version is.    *)
THEOREM OwnStateStaysCurrent == Spec => []OwnStateIsCurrent
<1>1. FileInv => OwnStateIsCurrent
  BY DEF FileInv, OwnStateIsCurrent, OwnStates, Ahead, WriteLockExcludes, Inside
<1> QED BY <1>1, FileInvariant, PTL
=============================================================================
