------------------------- MODULE StateBackendProofs -------------------------
(***************************************************************************)
(* The promises of the StateBackend contract hold for any clients, updates *)
(* and number of versions.  The invariant is the conjunction of the type   *)
(* invariant and the three state predicates: each save and recovery needs  *)
(* the others (that loaded versions are at most the current one makes the  *)
(* version a save commits new to everybody else).  The second part adds    *)
(* the index of ScientificMemory, kept by clients of the contract.         *)
(***************************************************************************)
EXTENDS ScientificMemory, TLAPS

Inv ==
  /\ TypeOK
  /\ CurrentVersionMeansCurrentState
  /\ EventsInVersionOrder
  /\ CanonicalIsCheckpointed

(* What committing a new content does to the shared state, whoever does it *)
(* (save or recover_latest).                                               *)
LEMMA CommitKeepsShared ==
  ASSUME Inv, NEW new \in Content, Commit(new)
  PROVE  /\ version' \in Nat \ {0} /\ content' \in Content
         /\ events' \in Seq(Nat) /\ kept' \subseteq Content
         /\ version' = version + 1
         /\ EventsInVersionOrder' /\ CanonicalIsCheckpointed'
<1>1. version' = version + 1 /\ content' = new
      /\ events' = Append(events, version + 1) /\ kept' = kept \union {new}
  BY DEF Commit
<1>2. /\ version' \in Nat \ {0} /\ content' \in Content
      /\ events' \in Seq(Nat) /\ kept' \subseteq Content
  BY <1>1 DEF Inv, TypeOK
<1>3. EventsInVersionOrder'
  <2>1. Len(events') = version'
    BY <1>1 DEF Inv, TypeOK, EventsInVersionOrder
  <2>2. ASSUME NEW i \in DOMAIN events'
        PROVE  events'[i] = i
    BY <1>1 DEF Inv, TypeOK, EventsInVersionOrder
  <2> QED BY <2>1, <2>2 DEF EventsInVersionOrder
<1>4. CanonicalIsCheckpointed'
  BY <1>1 DEF CanonicalIsCheckpointed
<1> QED BY <1>1, <1>2, <1>3, <1>4

LEMMA InvInit == Init => Inv
<1> SUFFICES ASSUME Init PROVE Inv
  OBVIOUS
<1> USE DEF Init
<1>1. TypeOK
  BY DEF TypeOK, Content
<1>2. CurrentVersionMeansCurrentState
  <2> SUFFICES ASSUME NEW c \in Client
               PROVE  loadedVersion[c] <= version /\ loadedVersion[c] # version
    BY DEF CurrentVersionMeansCurrentState
  <2>1. loadedVersion[c] = 0 /\ version = 1
    OBVIOUS
  <2> QED BY <2>1
<1>3. EventsInVersionOrder /\ CanonicalIsCheckpointed
  BY DEF EventsInVersionOrder, CanonicalIsCheckpointed
<1> QED BY <1>1, <1>2, <1>3 DEF Inv

LEMMA InvNext == Inv /\ [Next]_vars => Inv'
<1> SUFFICES ASSUME Inv, [Next]_vars PROVE Inv'
  OBVIOUS
<1> USE DEF Inv
<1>1. CASE UNCHANGED vars
  BY <1>1 DEF vars, TypeOK, CurrentVersionMeansCurrentState, EventsInVersionOrder,
              CanonicalIsCheckpointed
<1>2. ASSUME NEW c \in Client, LoadWithVersion(c) PROVE Inv'
  BY <1>2 DEF LoadWithVersion, TypeOK, CurrentVersionMeansCurrentState,
              EventsInVersionOrder, CanonicalIsCheckpointed
<1>3. ASSUME NEW c \in Client, NEW u \in Update, Save(c, u) PROVE Inv'
  <2> DEFINE new == loadedContent[c] \union {u}
  <2>1. new \in Content
    BY DEF TypeOK, Content
  <2>2. /\ Commit(new)
        /\ issued' = issued \union {u}
        /\ loadedVersion' = [loadedVersion EXCEPT ![c] = version + 1]
        /\ loadedContent' = [loadedContent EXCEPT ![c] = new]
    BY <1>3 DEF Save, TypeOK
  <2>3. content' = new
    BY <2>2 DEF Commit
  <2> HIDE DEF new
  <2>4. /\ version' \in Nat \ {0} /\ content' \in Content
        /\ events' \in Seq(Nat) /\ kept' \subseteq Content
        /\ version' = version + 1
        /\ EventsInVersionOrder' /\ CanonicalIsCheckpointed'
    BY <2>1, <2>2, CommitKeepsShared
  <2>5. TypeOK'
    BY <2>1, <2>2, <2>4 DEF TypeOK, Content
  <2>6. CurrentVersionMeansCurrentState'
    BY <2>2, <2>3, <2>4 DEF CurrentVersionMeansCurrentState, TypeOK
  <2> QED BY <2>4, <2>5, <2>6
<1>4. ASSUME NEW c \in Client, NEW u \in Update, FailSave(c, u) PROVE Inv'
  <2>1. loadedContent[c] \union {u} \in Content
    BY DEF TypeOK, Content
  <2>2. CASE Abandon(c, {})
    BY <1>4, <2>2 DEF FailSave, Abandon, TypeOK, Content, CurrentVersionMeansCurrentState,
                      EventsInVersionOrder, CanonicalIsCheckpointed
  <2>3. CASE Abandon(c, {loadedContent[c] \union {u}})
    BY <1>4, <2>1, <2>3 DEF FailSave, Abandon, TypeOK, Content, CurrentVersionMeansCurrentState,
                            EventsInVersionOrder, CanonicalIsCheckpointed
  <2> QED BY <1>4, <2>2, <2>3 DEF FailSave
<1>5. ASSUME NEW c \in Client, Leave(c) PROVE Inv'
  BY <1>5 DEF Leave, Abandon, TypeOK, Content, CurrentVersionMeansCurrentState,
              EventsInVersionOrder, CanonicalIsCheckpointed
<1>6. ASSUME NEW c \in Client, Recover(c) PROVE Inv'
  <2>1. PICK old \in kept : Commit(old)
    BY <1>6 DEF Recover
  <2>2. old \in Content
    BY DEF TypeOK
  <2>3. /\ version' \in Nat \ {0} /\ content' \in Content
        /\ events' \in Seq(Nat) /\ kept' \subseteq Content
        /\ version' = version + 1
        /\ EventsInVersionOrder' /\ CanonicalIsCheckpointed'
    BY <2>1, <2>2, CommitKeepsShared
  <2>4. /\ loadedVersion' = [loadedVersion EXCEPT ![c] = 0]
        /\ loadedContent' = [loadedContent EXCEPT ![c] = {}]
        /\ UNCHANGED issued
    BY <1>6 DEF Recover
  <2>5. TypeOK'
    BY <2>3, <2>4 DEF TypeOK, Content
  <2>6. CurrentVersionMeansCurrentState'
    BY <2>3, <2>4 DEF CurrentVersionMeansCurrentState, TypeOK
  <2> QED BY <2>3, <2>5, <2>6
<1> QED BY <1>1, <1>2, <1>3, <1>4, <1>5, <1>6 DEF Next

(* Every state a client can hold is canonical or detectably old, every     *)
(* version has its event, and the canonical state can be recovered.        *)
THEOREM ContractInvariant == Spec => []Inv
BY InvInit, InvNext, PTL DEF Spec

(* A save that is let through has seen every update it builds on: the      *)
(* compare-and-swap of save() loses no update.                             *)
THEOREM NoUpdateIsLost == Spec => NoLostUpdate
<1>1. Inv /\ [Next]_vars => [KeepsUpdates]_vars
  <2> SUFFICES ASSUME Inv, Next, version' # version, issued' # issued
               PROVE  content \subseteq content'
    BY DEF KeepsUpdates, vars
  <2>1. PICK c \in Client, u \in Update : Save(c, u)
    BY DEF Next, LoadWithVersion, FailSave, Abandon, Leave, Recover
  <2>2. content = loadedContent[c]
    BY <2>1 DEF Save, ExpectedVersion, Inv, CurrentVersionMeansCurrentState
  <2>3. content' = loadedContent[c] \union {u}
    BY <2>1 DEF Save, Commit
  <2> QED BY <2>2, <2>3
<1> QED BY <1>1, ContractInvariant, PTL DEF Spec, NoLostUpdate

(* The version check of save is enough to detect every stale state.        *)
THEOREM StaleIsDetected == Spec => []CurrentVersionMeansCurrentState
<1>1. Inv => CurrentVersionMeansCurrentState
  BY DEF Inv
<1> QED BY <1>1, ContractInvariant, PTL

(* The ordered events of the contract: one per version, in order.          *)
THEOREM EventsAreOrdered == Spec => []EventsInVersionOrder
<1>1. Inv => EventsInVersionOrder
  BY DEF Inv
<1> QED BY <1>1, ContractInvariant, PTL

(* The canonical content can always be recovered from a checkpoint.        *)
THEOREM CanonicalIsRecoverable == Spec => []CanonicalIsCheckpointed
<1>1. Inv => CanonicalIsCheckpointed
  BY DEF Inv
<1> QED BY <1>1, ContractInvariant, PTL

-----------------------------------------------------------------------------
(* The index of scientific_memory.py.  Its clients use the contract as any *)
(* others do, so the invariant above holds here; what the index shows      *)
(* follows from the fact that a client holds only contents that were       *)
(* canonical.                                                              *)
HeldWasCommitted ==
  /\ content \in committed /\ {} \in committed
  /\ \A c \in Client : loadedContent[c] \in committed

MemInv ==
  /\ Inv
  /\ pending \in [Client -> BOOLEAN]
  /\ HeldWasCommitted
  /\ IndexShowsOnlyCommitted
  /\ IndexFollows

(* Every step is one of the contract or changes only the index.            *)
LEMMA MemStep == MemNext => [Next]_vars
<1> SUFFICES ASSUME NEW c \in Client,
                    \/ Open(c) \/ Reload(c) \/ Ingest(c) \/ Stop(c) \/ RecoverState(c)
                    \/ \E u \in Update : SaveState(c, u) \/ SaveFails(c, u)
             PROVE  [Next]_vars
  BY DEF MemNext
<1> QED BY DEF Open, Reload, Ingest, Stop, RecoverState, SaveState, SaveFails, Next

(* What was canonical is remembered.                                       *)
LEMMA Remembered == MemNext => committed' = committed \union {content'} \/ UNCHANGED <<committed, vars>>
BY DEF MemNext, Open, Reload, Ingest, Stop, RecoverState, SaveState, SaveFails, History

(* What a client holds after a step of the contract is what it held, the   *)
(* canonical content before or after the step, or nothing.                 *)
LEMMA HeldAfter ==
  ASSUME Inv, Next, NEW d \in Client
  PROVE  loadedContent'[d] \in {loadedContent[d], content, content', {}}
<1>1. PICK c \in Client :
        \/ LoadWithVersion(c) \/ Leave(c) \/ Recover(c)
        \/ \E u \in Update : Save(c, u) \/ FailSave(c, u)
  BY DEF Next
<1> USE DEF Inv, TypeOK
<1>2. CASE LoadWithVersion(c)
  BY <1>2 DEF LoadWithVersion
<1>3. CASE Leave(c) \/ Recover(c) \/ \E u \in Update : FailSave(c, u)
  <2>1. loadedContent' = [loadedContent EXCEPT ![c] = {}]
    BY <1>3 DEF Leave, Recover, FailSave, Abandon
  <2> QED BY <2>1
<1>4. CASE \E u \in Update : Save(c, u)
  <2>1. PICK u \in Update : Save(c, u)
    BY <1>4
  <2>2. /\ content' = loadedContent[c] \union {u}
        /\ loadedContent' = [loadedContent EXCEPT ![c] = @ \union {u}]
    BY <2>1 DEF Save, Commit
  <2> QED BY <2>2
<1> QED BY <1>1, <1>2, <1>3, <1>4

LEMMA HeldNext ==
  ASSUME MemInv, MemNext
  PROVE  HeldWasCommitted' /\ committed \subseteq committed'
<1>1. CASE UNCHANGED <<committed, vars>>
  BY <1>1 DEF MemInv, HeldWasCommitted, vars
<1>2. CASE committed' = committed \union {content'} /\ Next
  <2>1. ASSUME NEW d \in Client PROVE loadedContent'[d] \in committed'
    <3>1. loadedContent'[d] \in {loadedContent[d], content, content', {}}
      BY <1>2, HeldAfter DEF MemInv
    <3> QED BY <1>2, <3>1 DEF MemInv, HeldWasCommitted
  <2> QED BY <1>2, <2>1 DEF MemInv, HeldWasCommitted
<1>3. CASE committed' = committed \union {content'} /\ UNCHANGED vars
  BY <1>3 DEF MemInv, HeldWasCommitted, vars
<1> QED BY <1>1, <1>2, <1>3, Remembered, MemStep

(* Only Ingest changes what the index shows.                               *)
LEMMA ShownNext ==
  ASSUME MemInv, MemNext
  PROVE  IndexShowsOnlyCommitted'
<1>1. HeldWasCommitted' /\ committed \subseteq committed'
  BY HeldNext
<1>2. CASE UNCHANGED <<shown, known>>
  BY <1>1, <1>2 DEF MemInv, IndexShowsOnlyCommitted
<1>3. ASSUME NEW c \in Client, Ingest(c) PROVE IndexShowsOnlyCommitted'
  <2>1. loadedContent[c] \in committed'
    BY <1>1 DEF MemInv, HeldWasCommitted
  <2>2. shown' = {loadedContent[c]} /\ known' = known \union loadedContent[c]
    BY <1>3 DEF Ingest, Upsert
  <2> QED BY <1>1, <2>1, <2>2 DEF MemInv, IndexShowsOnlyCommitted
<1> QED BY <1>2, <1>3 DEF MemNext, Open, Reload, Stop, RecoverState, SaveState, SaveFails, indexVars

LEMMA FollowsNext ==
  ASSUME MemInv, MemNext
  PROVE  IndexFollows' /\ pending' \in [Client -> BOOLEAN]
<1> USE DEF MemInv, Inv, TypeOK
<1>1. PICK c \in Client :
        \/ Open(c) \/ Reload(c) \/ Ingest(c) \/ Stop(c) \/ RecoverState(c)
        \/ \E u \in Update : SaveState(c, u) \/ SaveFails(c, u)
  BY DEF MemNext
<1>2. CASE Ingest(c)
  <2>1. /\ shown' = {loadedContent[c]} /\ unsynced' = (loadedVersion[c] # version)
        /\ pending' = [pending EXCEPT ![c] = FALSE] /\ UNCHANGED vars
    BY <1>2 DEF Ingest, Upsert, Owes
  <2>2. loadedVersion[c] = version => loadedContent[c] = content
    BY DEF CurrentVersionMeansCurrentState
  <2> QED BY <2>1, <2>2 DEF IndexFollows, vars
<1>3. CASE RecoverState(c)
  BY <1>3 DEF RecoverState, IndexFollows
<1>4. CASE \E u \in Update : SaveState(c, u)
  <2>1. PICK u \in Update : SaveState(c, u)
    BY <1>4
  <2>2. /\ pending' = [pending EXCEPT ![c] = TRUE] /\ version' = version + 1
        /\ loadedVersion' = [loadedVersion EXCEPT ![c] = version + 1]
    BY <2>1 DEF SaveState, Save, Commit, Owes
  <2>3. pending'[c] /\ loadedVersion'[c] = version'
    BY <2>2
  <2> QED BY <2>2, <2>3 DEF IndexFollows
<1>5. ASSUME version' = version, content' = content, shown' = shown,
             pending \in [Client -> BOOLEAN], pending' \in [Client -> BOOLEAN],
             unsynced => unsynced',
             \A d \in Client : pending[d] /\ loadedVersion[d] = version =>
               unsynced' \/ (pending'[d] /\ loadedVersion'[d] = version)
      PROVE  IndexFollows' /\ pending' \in [Client -> BOOLEAN]
  BY <1>5 DEF IndexFollows
<1>6. CASE Open(c) \/ Reload(c)
  <2>1. /\ version' = version /\ content' = content /\ shown' = shown /\ unsynced' = unsynced
        /\ loadedVersion' = [loadedVersion EXCEPT ![c] = version]
        /\ pending' = pending \/ pending' = [pending EXCEPT ![c] = TRUE]
    BY <1>6 DEF Open, Reload, LoadWithVersion, Owes, indexVars
  <2> QED BY <1>5, <2>1
<1>7. CASE Stop(c)
  <2>1. /\ version' = version /\ content' = content /\ shown' = shown
        /\ unsynced' = (unsynced \/ pending[c])
        /\ loadedVersion' = [loadedVersion EXCEPT ![c] = 0]
        /\ pending' = [pending EXCEPT ![c] = FALSE]
    BY <1>7 DEF Stop, Leave, Abandon, Owes, indexVars
  <2> QED BY <1>5, <2>1
<1>8. CASE \E u \in Update : SaveFails(c, u)
  <2>1. /\ version' = version /\ content' = content /\ shown' = shown /\ unsynced' = unsynced
        /\ loadedVersion' = [loadedVersion EXCEPT ![c] = 0]
        /\ pending' = pending /\ ~pending[c]
    BY <1>8 DEF SaveFails, FailSave, Abandon, indexVars
  <2> QED BY <1>5, <2>1
<1> QED BY <1>1, <1>2, <1>3, <1>4, <1>6, <1>7, <1>8

LEMMA MemInvNext == MemInv /\ [MemNext]_memVars => MemInv'
<1> SUFFICES ASSUME MemInv, [MemNext]_memVars PROVE MemInv'
  OBVIOUS
<1>1. CASE UNCHANGED memVars
  <2>1. Inv'
    BY <1>1, InvNext DEF memVars, MemInv
  <2> QED BY <1>1, <2>1 DEF memVars, vars, MemInv, HeldWasCommitted, IndexShowsOnlyCommitted,
                            IndexFollows
<1>2. CASE MemNext
  <2>1. Inv'
    BY <1>2, MemStep, InvNext DEF MemInv
  <2> QED BY <1>2, <2>1, HeldNext, ShownNext, FollowsNext DEF MemInv
<1> QED BY <1>1, <1>2

LEMMA MemInvInit == MemInit => MemInv
<1> SUFFICES ASSUME MemInit PROVE MemInv
  OBVIOUS
<1>1. Inv
  BY InvInit DEF MemInit
<1>2. HeldWasCommitted
  BY DEF MemInit, Init, HeldWasCommitted
<1> QED BY <1>1, <1>2 DEF MemInit, MemInv, IndexShowsOnlyCommitted, IndexFollows

(* The runtimes and their index are clients of the contract: what it       *)
(* promises holds for them.                                                *)
THEOREM MemoryUsesContract == MemSpec => Spec
<1>1. MemInit => Init
  BY DEF MemInit
<1>2. [MemNext]_memVars => [Next]_vars
  BY MemStep DEF memVars
<1> QED BY <1>1, <1>2, PTL DEF MemSpec, Spec

(* The inductive invariant of the index, for any clients and updates.      *)
THEOREM MemoryInvariant == MemSpec => []MemInv
BY MemInvInit, MemInvNext, PTL DEF MemSpec

(* Nothing that was never canonical is indexed, whatever saves fail and    *)
(* whichever process ingests last.                                         *)
THEOREM IndexIsHonest == MemSpec => []IndexShowsOnlyCommitted
<1>1. MemInv => IndexShowsOnlyCommitted
  BY DEF MemInv
<1> QED BY <1>1, MemoryInvariant, PTL

(* The index is behind only between a commit and its ingestion, or after   *)
(* an ingestion that was lost or overtaken.                                *)
THEOREM IndexCatchesUp == MemSpec => []IndexFollows
<1>1. MemInv => IndexFollows
  BY DEF MemInv
<1> QED BY <1>1, MemoryInvariant, PTL

(* No runtime overwrites an update it has not seen, also when it ingests   *)
(* between its saves.                                                      *)
THEOREM RuntimesLoseNoUpdate == MemSpec => NoLostUpdate
BY MemoryUsesContract, NoUpdateIsLost, PTL
=============================================================================
