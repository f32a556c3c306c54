---------------------- MODULE SQLiteStateBackendProofs ----------------------
(***************************************************************************)
(* The transactional backend implements the contract of StateBackend, for  *)
(* any clients, updates, bounds, crashes, timeouts and damaged files, and  *)
(* its mirrors show nothing that was not committed.                        *)
(*                                                                         *)
(* The abstract save is the COMMIT of a save; the abstract failure is the  *)
(* step in which the client gives up; the steps of recover_latest before   *)
(* its COMMIT, the mirrors and the damaging of a file are invisible.       *)
(***************************************************************************)
EXTENDS SQLiteStateBackend, FiniteSetTheorems, TLAPS

View == [version : Nat, content : SUBSET Update]

Types ==
  /\ row \in View /\ row.version > 0
  /\ eventRows \in Seq(Nat)
  /\ writer \in Client \union {NoOwner}
  /\ checkpoints \in Seq(SUBSET Update) /\ Len(checkpoints) > 0
  /\ mirror \in View
  /\ eventsFile \in Seq(Nat)
  /\ issued \in SUBSET Update
  /\ at \in [Client -> Place]
  /\ loaded \in [Client -> View]
  /\ new \in [Client -> SUBSET Update]
  /\ rows \in [Client -> Seq(Nat)]
  /\ listed \in [Client -> Nat]
  /\ cand \in [Client -> Nat]

(* The write lock is with the client inside the transaction.               *)
Locked == \A c \in Client : at[c] \in {"check", "commit"} <=> writer = c

(* A recovery saves the content of the file it tries, which is older than  *)
(* the file of its own save.                                               *)
RecoveryOf(c) ==
  /\ at[c] = "idle" => ~Recovering(c)
  /\ at[c] = "try" => Recovering(c)
  /\ cand[c] <= listed[c] /\ listed[c] <= Len(checkpoints)
  /\ Recovering(c) /\ at[c] # "try" => cand[c] > 0
  /\ Recovering(c) /\ at[c] \in {"begin", "check", "commit"} => new[c] = checkpoints[cand[c]]
  /\ Recovering(c) /\ at[c] = "commit" => cand[c] < Len(checkpoints)

Recoveries == \A c \in Client : RecoveryOf(c)

(* Whoever holds the current version holds the current content.            *)
Shows(view) ==
  /\ view.version <= row.version
  /\ view.version = row.version => view.content = row.content

Views == Shows(mirror) /\ \A c \in Client : Shows(loaded[c])

(* Nothing moves the row between the version check and the COMMIT, and the *)
(* last file is the one written in between.                                *)
AtCommit(c) ==
  at[c] = "commit" =>
    /\ loaded[c].version = row.version
    /\ Len(checkpoints) > 0 /\ checkpoints[Len(checkpoints)] = new[c]

Commits == \A c \in Client : AtCommit(c)

(* Every update that is anywhere was issued.                               *)
Traced ==
  /\ row.content \subseteq issued
  /\ \A c \in Client : loaded[c].content \subseteq issued
  /\ \A j \in DOMAIN checkpoints : checkpoints[j] \subseteq issued

(* A save under way adds one update, which is in no other save.            *)
SaveOf(c) ==
  InFlight(c) =>
    /\ loaded[c].version > 0
    /\ \E u \in issued \ loaded[c].content : new[c] = loaded[c].content \union {u}

Saves ==
  /\ \A c \in Client : SaveOf(c)
  /\ \A c, d \in Client : c # d /\ InFlight(c) /\ InFlight(d) =>
       Pending(c) \intersect Pending(d) = {}

Prefix(s) ==
  Len(s) <= Len(eventRows) /\ \A i \in 1 .. Len(s) : s[i] = eventRows[i]

Exports == Prefix(eventsFile) /\ \A c \in Client : Prefix(rows[c])

(* Calls under way pass the bound on versions by one each at most.         *)
Bounded ==
  UnderWay # {} => row.version + Cardinality(UnderWay) <= MaxVersion + Cardinality(Client)

Inv ==
  /\ Types /\ Locked /\ Recoveries /\ Views /\ Commits
  /\ Traced /\ Saves /\ Exports /\ Bounded

LEMMA InvInit == Init => Inv
<1> SUFFICES ASSUME Init PROVE Inv
  OBVIOUS
<1> USE DEF Init
<1>1. row \in View /\ row.version = 1 /\ row.content = {} /\ Nothing \in View
  BY DEF View, Nothing
<1>2. /\ Nothing.version = 0 /\ Nothing.content = {} /\ mirror = row
      /\ Len(checkpoints) = 1 /\ DOMAIN checkpoints = {1} /\ checkpoints[1] = {}
      /\ eventRows = <<1>> /\ eventsFile = eventRows /\ issued = {} /\ writer = NoOwner
  BY DEF Nothing
<1>3. \A c \in Client : /\ at[c] = "idle" /\ loaded[c] = Nothing /\ rows[c] = <<>>
                        /\ listed[c] = 0 /\ cand[c] = 0
  OBVIOUS
<1>4. Types
  <2>1. row \in View /\ row.version > 0 /\ mirror \in View /\ loaded \in [Client -> View]
    BY <1>1
  <2>2. /\ eventRows \in Seq(Nat) /\ eventsFile \in Seq(Nat)
        /\ checkpoints \in Seq(SUBSET Update) /\ Len(checkpoints) > 0
    OBVIOUS
  <2>3. writer \in Client \union {NoOwner} /\ issued \in SUBSET Update /\ at \in [Client -> Place]
    BY DEF Place
  <2>4. /\ new \in [Client -> SUBSET Update] /\ rows \in [Client -> Seq(Nat)]
        /\ listed \in [Client -> Nat] /\ cand \in [Client -> Nat]
    OBVIOUS
  <2> QED BY <2>1, <2>2, <2>3, <2>4 DEF Types
<1>5. Locked
  BY <1>2, <1>3, OwnerAssumption DEF Locked
<1>6. Recoveries
  BY <1>2, <1>3 DEF Recoveries, RecoveryOf, Recovering
<1>7. Views
  BY <1>1, <1>2, <1>3 DEF Views, Shows
<1>8. Commits /\ Saves
  BY <1>3 DEF Commits, AtCommit, Saves, SaveOf, InFlight
<1>9. Traced
  BY <1>1, <1>2, <1>3 DEF Traced
<1>10. Exports
  BY <1>2, <1>3 DEF Exports, Prefix
<1>11. Bounded
  <2>1. UnderWay = {}
    BY <1>3 DEF UnderWay
  <2> QED BY <2>1 DEF Bounded
<1> QED BY <1>4, <1>5, <1>6, <1>7, <1>8, <1>9, <1>10, <1>11 DEF Inv

-----------------------------------------------------------------------------
(* A step of c leaves the other clients alone.                             *)
OthersStay(c) ==
  \A d \in Client \ {c} :
    /\ at'[d] = at[d] /\ loaded'[d] = loaded[d] /\ new'[d] = new[d]
    /\ rows'[d] = rows[d] /\ listed'[d] = listed[d] /\ cand'[d] = cand[d]

LEMMA UnderWayFinite ==
  /\ IsFiniteSet(UnderWay) /\ Cardinality(UnderWay) \in Nat
  /\ Cardinality(UnderWay) <= Cardinality(Client) /\ Cardinality(Client) \in Nat
BY OwnerAssumption, FS_Subset, FS_CardinalityType DEF UnderWay

(* One more call may begin to commit.                                      *)
Room == row.version + Cardinality(UnderWay) < MaxVersion + Cardinality(Client)

(* Calls that end, or begin below the bound, stay within it.               *)
LEMMA BoundedStays ==
  ASSUME Inv, Types', NEW c \in Client, OthersStay(c), row' = row,
         c \in UnderWay' => c \in UnderWay \/ Room
  PROVE  Bounded'
<1>1. UnderWay' \subseteq UnderWay \union {c}
  BY DEF OthersStay, UnderWay
<1>2. /\ IsFiniteSet(UnderWay) /\ IsFiniteSet(Client) /\ UnderWay' \subseteq Client
      /\ Cardinality(UnderWay) \in Nat /\ Cardinality(Client) \in Nat
      /\ MaxVersion \in Nat /\ row.version \in Nat
  BY OwnerAssumption, BoundAssumption, UnderWayFinite DEF UnderWay, Inv, Types, View
<1>3. IsFiniteSet(UnderWay') /\ Cardinality(UnderWay') <= Cardinality(Client)
      /\ Cardinality(UnderWay') \in Nat
  BY <1>2, FS_Subset, FS_CardinalityType
<1>4. CASE c \in UnderWay' /\ c \notin UnderWay
  <2>1. row.version + Cardinality(UnderWay) < MaxVersion + Cardinality(Client)
    BY <1>4 DEF Room
  <2>2. Cardinality(UnderWay') <= Cardinality(UnderWay) + 1
    <3>1. IsFiniteSet(UnderWay \union {c}) /\ Cardinality(UnderWay \union {c}) = Cardinality(UnderWay) + 1
      BY <1>2, <1>4, FS_AddElement
    <3> QED BY <1>1, <3>1, FS_Subset
  <2>3. row.version + Cardinality(UnderWay') <= MaxVersion + Cardinality(Client)
    BY <1>2, <1>3, <2>1, <2>2
  <2> QED BY <2>3 DEF Bounded
<1>5. CASE ~(c \in UnderWay' /\ c \notin UnderWay)
  <2>1. UnderWay' \subseteq UnderWay
    BY <1>1, <1>5
  <2>2. Cardinality(UnderWay') <= Cardinality(UnderWay)
    BY <1>2, <2>1, FS_Subset
  <2>3. UnderWay' # {} => row.version + Cardinality(UnderWay') <= MaxVersion + Cardinality(Client)
    BY <1>2, <1>3, <2>1, <2>2 DEF Inv, Bounded
  <2> QED BY <2>3 DEF Bounded
<1> QED BY <1>4, <1>5

(* A call begins below the bound, so the calls under way leave it room.    *)
LEMMA CallHasRoom ==
  ASSUME Inv, NEW c \in Client, c \notin UnderWay, row.version < MaxVersion
  PROVE  Room
<1>1. /\ IsFiniteSet(Client) /\ UnderWay \subseteq Client
      /\ Cardinality(UnderWay) <= Cardinality(Client)
      /\ Cardinality(UnderWay) \in Nat /\ Cardinality(Client) \in Nat
      /\ MaxVersion \in Nat /\ row.version \in Nat
  BY OwnerAssumption, BoundAssumption, UnderWayFinite DEF UnderWay, Inv, Types, View
<1> QED BY <1>1 DEF Room

(* So does a recovery that failed after its commit.                        *)
LEMMA FailureHasRoom ==
  ASSUME Inv, NEW c \in Client, RoomLeft
  PROVE  Room
<1>1. /\ IsFiniteSet({c}) /\ Cardinality({c}) = 1
      /\ IsFiniteSet(Client) /\ Cardinality(Client) \in Nat
      /\ Cardinality({c}) <= Cardinality(Client)
  BY OwnerAssumption, FS_Singleton, FS_Subset, FS_CardinalityType
<1>2. Cardinality(UnderWay) \in Nat /\ MaxVersion \in Nat /\ row.version \in Nat
  BY OwnerAssumption, BoundAssumption, UnderWayFinite DEF UnderWay, Inv, Types, View
<1> QED BY <1>1, <1>2 DEF Room, RoomLeft

(* Every step that neither writes a checkpoint nor commits: of the shared  *)
(* state only the lock, the mirrors and the issued updates change.         *)
LEMMA LocalStep ==
  ASSUME Inv, Types', NEW c \in Client, OthersStay(c),
         UNCHANGED <<row, eventRows, checkpoints>>,
         issued \subseteq issued',
         at'[c] # "commit", at'[c] = "check" <=> writer' = c,
         \A d \in Client \ {c} : writer' = d <=> writer = d,
         RecoveryOf(c)',
         Shows(loaded'[c]), loaded'[c].content \subseteq issued', Shows(mirror'),
         Prefix(rows'[c]), Prefix(eventsFile'),
         InFlight(c)' =>
           \/ /\ InFlight(c) /\ new'[c] = new[c] /\ loaded'[c] = loaded[c]
           \/ /\ loaded'[c].version > 0
              /\ \E u \in issued' \ issued : new'[c] = loaded[c].content \union {u}
              /\ loaded'[c] = loaded[c],
         c \in UnderWay' => c \in UnderWay \/ Room
  PROVE  Inv'
<1> USE DEF Inv
<1>1. Locked'
  BY DEF Locked, OthersStay
<1>2. Recoveries'
  <2>1. \A d \in Client \ {c} : RecoveryOf(d)'
    BY DEF Recoveries, RecoveryOf, Recovering, OthersStay
  <2> QED BY <2>1 DEF Recoveries
<1>3. Views'
  BY DEF Views, Shows, OthersStay
<1>4. Commits'
  BY DEF Commits, AtCommit, OthersStay
<1>5. Traced'
  BY DEF Traced, OthersStay
<1>6. \A d \in Client \ {c} : /\ InFlight(d)' <=> InFlight(d)
                              /\ Pending(d)' = Pending(d)
                              /\ InFlight(d) => Pending(d) \subseteq issued
  BY DEF OthersStay, InFlight, Recovering, Pending, Saves, SaveOf
<1>7. /\ InFlight(c)' => \/ InFlight(c) /\ Pending(c)' = Pending(c)
                         \/ Pending(c)' \subseteq issued' \ issued
  BY DEF Pending
<1>8. \A d \in Client : SaveOf(d)'
  <2>1. \A d \in Client \ {c} : SaveOf(d)'
    BY <1>6 DEF Saves, SaveOf, OthersStay
  <2>2. SaveOf(c)'
    <3>1. CASE InFlight(c)' /\ InFlight(c) /\ new'[c] = new[c] /\ loaded'[c] = loaded[c]
      BY <3>1 DEF Saves, SaveOf
    <3>2. CASE /\ InFlight(c)' /\ loaded'[c].version > 0 /\ loaded'[c] = loaded[c]
               /\ \E u \in issued' \ issued : new'[c] = loaded[c].content \union {u}
      BY <3>2 DEF SaveOf, Traced
    <3> QED BY <3>1, <3>2 DEF SaveOf
  <2> QED BY <2>1, <2>2
<1>9. Saves'
  <2>1. ASSUME NEW d \in Client, NEW e \in Client, d # e, InFlight(d)', InFlight(e)'
        PROVE  Pending(d)' \intersect Pending(e)' = {}
    <3>1. CASE d # c /\ e # c
      BY <1>6, <2>1, <3>1 DEF Saves
    <3>2. CASE d = c
      BY <1>6, <1>7, <2>1, <3>2 DEF Saves
    <3>3. CASE e = c
      BY <1>6, <1>7, <2>1, <3>3 DEF Saves
    <3> QED BY <3>1, <3>2, <3>3
  <2> QED BY <1>8, <2>1 DEF Saves
<1>10. Exports'
  BY DEF Exports, Prefix, OthersStay
<1>11. Bounded'
  BY BoundedStays
<1> QED BY <1>1, <1>2, <1>3, <1>4, <1>5, <1>9, <1>10, <1>11

(* The part of the type invariant a step of a client is about.             *)
LocalTypes ==
  /\ at \in [Client -> Place] /\ loaded \in [Client -> View]
  /\ new \in [Client -> SUBSET Update] /\ rows \in [Client -> Seq(Nat)]
  /\ listed \in [Client -> Nat] /\ cand \in [Client -> Nat]

LEMMA NothingShows ==
  Inv => Nothing \in View /\ Nothing.version = 0 /\ Nothing.content = {} /\ Shows(Nothing)
BY DEF Nothing, View, Shows, Inv, Types

LEMMA ReturnFacts ==
  ASSUME Types, NEW c \in Client, NEW view \in View, Return(c, view)
  PROVE  /\ LocalTypes' /\ OthersStay(c)
         /\ at'[c] = "idle" /\ loaded'[c] = view /\ rows'[c] = <<>>
         /\ listed'[c] = 0 /\ cand'[c] = 0
BY DEF Types, LocalTypes, Return, Goto, OthersStay, Place

(* A call that ends and leaves its client with a state it may hold.        *)
LEMMA ReturnStep ==
  ASSUME Inv, NEW c \in Client, NEW view \in View, Return(c, view),
         Shows(view), view.content \subseteq issued,
         UNCHANGED <<row, eventRows, checkpoints, mirror, issued>>,
         eventsFile' \in Seq(Nat), Prefix(eventsFile'),
         writer' = (IF writer = c THEN NoOwner ELSE writer)
  PROVE  Inv'
<1>1. /\ LocalTypes' /\ OthersStay(c)
      /\ at'[c] = "idle" /\ loaded'[c] = view /\ rows'[c] = <<>>
      /\ listed'[c] = 0 /\ cand'[c] = 0
  BY ReturnFacts DEF Inv
<1>2. /\ writer' # c /\ \A d \in Client \ {c} : writer' = d <=> writer = d
      /\ writer' \in Client \union {NoOwner}
  BY OwnerAssumption DEF Inv, Types
<1>3. Types'
  BY <1>1, <1>2 DEF Inv, Types, LocalTypes
<1>4. RecoveryOf(c)'
  <2>1. Len(checkpoints) \in Nat
    BY DEF Inv, Types
  <2> QED BY <1>1, <2>1 DEF RecoveryOf, Recovering
<1>5. Shows(mirror')
  BY DEF Inv, Views, Shows
<1>6. Prefix(rows'[c])
  BY <1>1 DEF Prefix, Inv, Types
<1>7. ~InFlight(c)' /\ c \notin UnderWay'
  BY <1>1 DEF InFlight, UnderWay
<1> QED BY <1>1, <1>2, <1>3, <1>4, <1>5, <1>6, <1>7, LocalStep

(* A save that raises: the call ends, or its recovery tries the next file. *)
LEMMA RaiseStep ==
  ASSUME Inv, NEW c \in Client, Raise(c), at[c] # "idle",
         Recovering(c) => cand[c] > 0 /\ (c \in UnderWay \/ Room),
         UNCHANGED <<row, eventRows, files, issued>>,
         writer' = (IF writer = c THEN NoOwner ELSE writer)
  PROVE  Inv'
<1>1. Nothing \in View /\ Nothing.version = 0 /\ Nothing.content = {} /\ Shows(Nothing)
  BY NothingShows
<1>2. UNCHANGED <<checkpoints, mirror, eventsFile>> /\ Prefix(eventsFile) /\ eventsFile \in Seq(Nat)
  BY DEF files, Inv, Exports, Types
<1>3. CASE ~Recovering(c)
  <2>1. Return(c, Nothing)
    BY <1>3 DEF Raise
  <2> QED BY <1>1, <1>2, <2>1, ReturnStep
<1>4. CASE Recovering(c)
  <2>1. /\ at' = [at EXCEPT ![c] = "try"] /\ cand' = [cand EXCEPT ![c] = cand[c] - 1]
        /\ loaded' = [loaded EXCEPT ![c] = Nothing] /\ new' = [new EXCEPT ![c] = {}]
        /\ UNCHANGED <<rows, listed>>
    BY <1>4 DEF Raise, Goto
  <2>2. cand[c] \in Nat /\ cand[c] > 0 /\ cand[c] <= listed[c] /\ listed[c] <= Len(checkpoints)
        /\ listed[c] \in Nat /\ Len(checkpoints) \in Nat
    BY <1>4 DEF Inv, Types, Recoveries, RecoveryOf
  <2>3. /\ writer' # c /\ \A d \in Client \ {c} : writer' = d <=> writer = d
        /\ writer' \in Client \union {NoOwner}
    BY OwnerAssumption DEF Inv, Types
  <2>4. cand[c] - 1 \in Nat
    BY <2>2
  <2>5. LocalTypes'
    BY <1>1, <2>1, <2>4 DEF LocalTypes, Inv, Types, Place
  <2>6. Types'
    BY <1>2, <2>3, <2>5 DEF Inv, Types, LocalTypes
  <2>7. /\ OthersStay(c) /\ at'[c] = "try" /\ cand'[c] = cand[c] - 1 /\ loaded'[c] = Nothing
        /\ rows'[c] = rows[c] /\ listed'[c] = listed[c]
    BY <2>1 DEF OthersStay, Inv, Types
  <2>8. RecoveryOf(c)'
    BY <1>2, <1>4, <2>2, <2>7 DEF RecoveryOf, Recovering
  <2>9. Shows(mirror') /\ Prefix(rows'[c])
    BY <1>2, <2>7 DEF Inv, Views, Exports
  <2>10. ~InFlight(c)' /\ (c \in UnderWay \/ Room)
    BY <1>4, <2>7 DEF InFlight
  <2> QED BY <1>1, <1>2, <2>3, <2>6, <2>7, <2>8, <2>9, <2>10, LocalStep
<1> QED BY <1>3, <1>4

-----------------------------------------------------------------------------
LEMMA LoadInv ==
  ASSUME Inv, NEW c \in Client, LoadWithVersion(c)
  PROVE  Inv'
<1>1. /\ at[c] = "idle" /\ loaded' = [loaded EXCEPT ![c] = row]
      /\ UNCHANGED <<row, eventRows, writer, checkpoints, mirror, eventsFile, issued>>
      /\ UNCHANGED <<at, new, rows, listed, cand>>
  BY DEF LoadWithVersion, db, files
<1>2. Types'
  BY <1>1 DEF Inv, Types
<1>3. OthersStay(c) /\ loaded'[c] = row /\ at'[c] = "idle"
  BY <1>1 DEF OthersStay, Inv, Types
<1>4. RecoveryOf(c)'
  BY <1>1 DEF Inv, Recoveries, RecoveryOf, Recovering
<1>5. Shows(loaded'[c]) /\ loaded'[c].content \subseteq issued' /\ Shows(mirror')
      /\ Prefix(rows'[c]) /\ Prefix(eventsFile')
  BY <1>1, <1>3 DEF Inv, Types, View, Shows, Views, Traced, Exports
<1>6. ~InFlight(c)' /\ c \notin UnderWay' /\ writer # c
  BY <1>1, <1>3 DEF InFlight, UnderWay, Inv, Locked
<1> QED BY <1>1, <1>2, <1>3, <1>4, <1>5, <1>6, LocalStep

LEMMA CallSaveInv ==
  ASSUME Inv, NEW c \in Client, CallSave(c)
  PROVE  Inv'
<1> DEFINE u == CHOOSE v \in Update \ issued : TRUE
<1>1. u \in Update \ issued
  BY DEF CallSave, Inv, Types
<1>2. /\ at[c] = "idle" /\ loaded[c].version > 0 /\ row.version < MaxVersion
      /\ issued' = issued \union {u}
      /\ new' = [new EXCEPT ![c] = loaded[c].content \union {u}]
      /\ at' = [at EXCEPT ![c] = "begin"]
      /\ UNCHANGED <<row, eventRows, writer, checkpoints, mirror, eventsFile>>
      /\ UNCHANGED <<loaded, rows, listed, cand>>
  BY DEF CallSave, WithinBounds, Goto, db, files
<1> HIDE DEF u
<1>3. loaded[c] \in View /\ loaded[c].content \subseteq Update
  BY DEF Inv, Types, View
<1>4. Types'
  BY <1>1, <1>2, <1>3 DEF Inv, Types, Place
<1>5. /\ OthersStay(c) /\ at'[c] = "begin" /\ new'[c] = loaded[c].content \union {u}
  BY <1>2 DEF OthersStay, Inv, Types
<1>6. RecoveryOf(c)'
  BY <1>2, <1>5 DEF Inv, Recoveries, RecoveryOf, Recovering
<1>7. Shows(loaded'[c]) /\ loaded'[c].content \subseteq issued' /\ Shows(mirror')
      /\ Prefix(rows'[c]) /\ Prefix(eventsFile')
  BY <1>2 DEF Inv, Views, Shows, Traced, Exports, Prefix
<1>8. writer # c /\ Room
  <2>1. c \notin UnderWay
    BY <1>2 DEF UnderWay
  <2> QED BY <1>2, <2>1, CallHasRoom DEF Inv, Locked
<1>9. \E v \in issued' \ issued : new'[c] = loaded[c].content \union {v}
  BY <1>1, <1>2, <1>5
<1> QED BY <1>2, <1>4, <1>5, <1>6, <1>7, <1>8, <1>9, LocalStep

LEMMA BeginImmediateInv ==
  ASSUME Inv, NEW c \in Client, BeginImmediate(c)
  PROVE  Inv'
<1>1. /\ at[c] = "begin" /\ writer = NoOwner /\ writer' = c
      /\ at' = [at EXCEPT ![c] = "check"]
      /\ UNCHANGED <<row, eventRows, checkpoints, mirror, eventsFile, issued>>
      /\ UNCHANGED <<loaded, new, rows, listed, cand>>
  BY DEF BeginImmediate, Goto, db, files, local
<1>2. Types'
  BY <1>1 DEF Inv, Types, Place
<1>3. OthersStay(c) /\ at'[c] = "check" /\ new'[c] = new[c]
  BY <1>1 DEF OthersStay, Inv, Types
<1>4. RecoveryOf(c)'
  BY <1>1, <1>3 DEF Inv, Recoveries, RecoveryOf, Recovering
<1>5. Shows(loaded'[c]) /\ loaded'[c].content \subseteq issued' /\ Shows(mirror')
      /\ Prefix(rows'[c]) /\ Prefix(eventsFile')
  BY <1>1 DEF Inv, Views, Shows, Traced, Exports, Prefix
<1>6. \A d \in Client \ {c} : writer' = d <=> writer = d
  BY <1>1, OwnerAssumption
<1>7. InFlight(c)' => InFlight(c)
  BY <1>1 DEF InFlight, Recovering
<1>8. c \in UnderWay
  BY <1>1 DEF UnderWay
<1> QED BY <1>1, <1>2, <1>3, <1>4, <1>5, <1>6, <1>7, <1>8, LocalStep

LEMMA GiveUpInv ==
  ASSUME Inv, NEW c \in Client, BusyTimeout(c) \/ StateConflict(c) \/ SaveFails(c)
  PROVE  Inv'
<1>1. /\ Raise(c) /\ UNCHANGED <<row, eventRows, files, issued>> /\ at[c] # "idle"
      /\ at[c] = "try" => cand[c] > 0
      /\ Recovering(c) => c \in UnderWay \/ Room
  BY FailAssumption, FailureHasRoom DEF BusyTimeout, StateConflict, SaveFails, UnderWay, db
<1>2. Recovering(c) => cand[c] > 0
  BY <1>1 DEF Inv, Recoveries, RecoveryOf
<1>3. writer' = (IF writer = c THEN NoOwner ELSE writer)
  <2>1. CASE BusyTimeout(c)
    BY <2>1 DEF BusyTimeout, Inv, Locked
  <2>2. CASE StateConflict(c)
    BY <2>2 DEF StateConflict, Inv, Locked
  <2>3. CASE SaveFails(c)
    BY <2>3, FailAssumption DEF SaveFails
  <2> QED BY <2>1, <2>2, <2>3
<1> QED BY <1>1, <1>2, <1>3, RaiseStep

LEMMA MirrorStateInv ==
  ASSUME Inv, NEW c \in Client, MirrorState(c)
  PROVE  Inv'
<1>1. /\ at[c] = "mirror" /\ mirror' = loaded[c]
      /\ at' = [at EXCEPT ![c] = "read"]
      /\ UNCHANGED <<row, eventRows, writer, checkpoints, eventsFile, issued>>
      /\ UNCHANGED <<loaded, new, rows, listed, cand>>
  BY DEF MirrorState, Goto, db, local
<1>2. Types'
  BY <1>1 DEF Inv, Types, Place
<1>3. OthersStay(c) /\ at'[c] = "read"
  BY <1>1 DEF OthersStay, Inv, Types
<1>4. RecoveryOf(c)'
  BY <1>1, <1>3 DEF Inv, Recoveries, RecoveryOf, Recovering
<1>5. Shows(loaded'[c]) /\ loaded'[c].content \subseteq issued' /\ Shows(mirror')
      /\ Prefix(rows'[c]) /\ Prefix(eventsFile')
  BY <1>1 DEF Inv, Views, Shows, Traced, Exports, Prefix
<1>6. writer # c /\ ~InFlight(c)' /\ c \notin UnderWay'
  BY <1>1, <1>3 DEF Inv, Locked, InFlight, UnderWay
<1> QED BY <1>1, <1>2, <1>3, <1>4, <1>5, <1>6, LocalStep

LEMMA ReadEventsInv ==
  ASSUME Inv, NEW c \in Client, ReadEvents(c)
  PROVE  Inv'
<1>1. /\ at[c] = "read" /\ rows' = [rows EXCEPT ![c] = eventRows]
      /\ at' = [at EXCEPT ![c] = "export"]
      /\ UNCHANGED <<row, eventRows, writer, checkpoints, mirror, eventsFile, issued>>
      /\ UNCHANGED <<loaded, new, listed, cand>>
  BY DEF ReadEvents, Goto, db, files
<1>2. Types'
  BY <1>1 DEF Inv, Types, Place
<1>3. OthersStay(c) /\ at'[c] = "export" /\ rows'[c] = eventRows
  BY <1>1 DEF OthersStay, Inv, Types
<1>4. RecoveryOf(c)'
  BY <1>1, <1>3 DEF Inv, Recoveries, RecoveryOf, Recovering
<1>5. Shows(loaded'[c]) /\ loaded'[c].content \subseteq issued' /\ Shows(mirror')
      /\ Prefix(eventsFile')
  BY <1>1 DEF Inv, Views, Shows, Traced, Exports, Prefix
<1>6. Prefix(rows'[c])
  BY <1>3 DEF Prefix, Inv, Types
<1>7. writer # c /\ ~InFlight(c)' /\ c \notin UnderWay'
  BY <1>1, <1>3 DEF Inv, Locked, InFlight, UnderWay
<1> QED BY <1>1, <1>2, <1>3, <1>4, <1>5, <1>6, <1>7, LocalStep

LEMMA TruncateEventsInv ==
  ASSUME Inv, NEW c \in Client, TruncateEvents(c)
  PROVE  Inv'
<1>1. /\ at[c] = "export" /\ eventsFile' = <<>>
      /\ at' = [at EXCEPT ![c] = "fill"]
      /\ UNCHANGED <<row, eventRows, writer, checkpoints, mirror, issued>>
      /\ UNCHANGED <<loaded, new, rows, listed, cand>>
  BY DEF TruncateEvents, Goto, db, local
<1>2. Types'
  BY <1>1 DEF Inv, Types, Place
<1>3. OthersStay(c) /\ at'[c] = "fill"
  BY <1>1 DEF OthersStay, Inv, Types
<1>4. RecoveryOf(c)'
  BY <1>1, <1>3 DEF Inv, Recoveries, RecoveryOf, Recovering
<1>5. Shows(loaded'[c]) /\ loaded'[c].content \subseteq issued' /\ Shows(mirror')
      /\ Prefix(rows'[c])
  BY <1>1 DEF Inv, Views, Shows, Traced, Exports, Prefix
<1>6. Prefix(eventsFile')
  BY <1>1 DEF Prefix, Inv, Types
<1>7. writer # c /\ ~InFlight(c)' /\ c \notin UnderWay'
  BY <1>1, <1>3 DEF Inv, Locked, InFlight, UnderWay
<1> QED BY <1>1, <1>2, <1>3, <1>4, <1>5, <1>6, <1>7, LocalStep

LEMMA ExportEventsInv ==
  ASSUME Inv, NEW c \in Client, ExportEvents(c)
  PROVE  Inv'
<1>1. PICK view \in View : /\ view = IF Recovering(c) THEN Nothing ELSE loaded[c]
                           /\ Shows(view) /\ view.content \subseteq issued
  BY NothingShows DEF Inv, Types, Views, Traced
<1>2. /\ at[c] = "fill" /\ eventsFile' \in {eventsFile, rows[c]} /\ Return(c, view)
      /\ UNCHANGED <<row, eventRows, writer, checkpoints, mirror, issued>>
  BY <1>1 DEF ExportEvents, db
<1>3. writer # c
  BY <1>2 DEF Inv, Locked
<1>4. eventsFile' \in Seq(Nat) /\ Prefix(eventsFile')
  BY <1>2 DEF Inv, Types, Exports, Prefix
<1> QED BY <1>1, <1>2, <1>3, <1>4, ReturnStep

LEMMA CallRecoverInv ==
  ASSUME Inv, NEW c \in Client, CallRecover(c)
  PROVE  Inv'
<1>1. /\ at[c] = "idle" /\ row.version < MaxVersion
      /\ listed' = [listed EXCEPT ![c] = Len(checkpoints)]
      /\ cand' = [cand EXCEPT ![c] = Len(checkpoints)]
      /\ loaded' = [loaded EXCEPT ![c] = Nothing]
      /\ at' = [at EXCEPT ![c] = "try"]
      /\ UNCHANGED <<row, eventRows, writer, checkpoints, mirror, eventsFile, issued>>
      /\ UNCHANGED <<new, rows>>
  BY DEF CallRecover, WithinBounds, Goto, db, files
<1>2. Len(checkpoints) \in Nat /\ Len(checkpoints) > 0
  BY DEF Inv, Types
<1>3. Types'
  BY <1>1, <1>2, NothingShows DEF Inv, Types, Place
<1>4. /\ OthersStay(c) /\ at'[c] = "try" /\ loaded'[c] = Nothing
      /\ listed'[c] = Len(checkpoints) /\ cand'[c] = Len(checkpoints)
  BY <1>1 DEF OthersStay, Inv, Types
<1>5. RecoveryOf(c)'
  BY <1>1, <1>2, <1>4 DEF RecoveryOf, Recovering
<1>6. Shows(loaded'[c]) /\ loaded'[c].content \subseteq issued' /\ Shows(mirror')
      /\ Prefix(rows'[c]) /\ Prefix(eventsFile')
  BY <1>1, <1>4, NothingShows DEF Inv, Views, Shows, Exports, Prefix
<1>7. writer # c /\ ~InFlight(c)' /\ Room
  <2>1. c \notin UnderWay
    BY <1>1 DEF UnderWay
  <2> QED BY <1>1, <1>4, <2>1, CallHasRoom DEF Inv, Locked, InFlight
<1> QED BY <1>1, <1>3, <1>4, <1>5, <1>6, <1>7, LocalStep

LEMMA SkipDamagedInv ==
  ASSUME Inv, NEW c \in Client, SkipDamaged(c)
  PROVE  Inv'
<1>1. /\ at[c] = "try" /\ cand[c] > 0
      /\ cand' = [cand EXCEPT ![c] = cand[c] - 1]
      /\ UNCHANGED <<row, eventRows, writer, checkpoints, mirror, eventsFile, issued>>
      /\ UNCHANGED <<at, loaded, new, rows, listed>>
  BY DEF SkipDamaged, db, files
<1>2. cand[c] \in Nat /\ listed[c] \in Nat /\ Len(checkpoints) \in Nat /\ cand[c] - 1 \in Nat
  BY <1>1 DEF Inv, Types
<1>3. Types'
  BY <1>1, <1>2 DEF Inv, Types
<1>4. OthersStay(c) /\ at'[c] = "try" /\ cand'[c] = cand[c] - 1
  BY <1>1 DEF OthersStay, Inv, Types
<1>5. RecoveryOf(c)'
  BY <1>1, <1>2, <1>4 DEF RecoveryOf, Recovering, Inv, Recoveries
<1>6. Shows(loaded'[c]) /\ loaded'[c].content \subseteq issued' /\ Shows(mirror')
      /\ Prefix(rows'[c]) /\ Prefix(eventsFile')
  BY <1>1 DEF Inv, Views, Shows, Traced, Exports, Prefix
<1>7. writer # c /\ ~InFlight(c)' /\ c \in UnderWay
  BY <1>1, <1>4 DEF Inv, Locked, InFlight, UnderWay
<1> QED BY <1>1, <1>3, <1>4, <1>5, <1>6, <1>7, LocalStep

LEMMA TryCheckpointInv ==
  ASSUME Inv, NEW c \in Client, TryCheckpoint(c)
  PROVE  Inv'
<1>1. /\ at[c] = "try" /\ cand[c] > 0 /\ writer = NoOwner
      /\ loaded' = [loaded EXCEPT ![c] = row]
      /\ new' = [new EXCEPT ![c] = checkpoints[cand[c]]]
      /\ at' = [at EXCEPT ![c] = "begin"]
      /\ UNCHANGED <<row, eventRows, writer, checkpoints, mirror, eventsFile, issued>>
      /\ UNCHANGED <<rows, listed, cand>>
  BY DEF TryCheckpoint, Goto, db, files
<1>2. /\ Recovering(c) /\ cand[c] <= listed[c] /\ listed[c] <= Len(checkpoints)
      /\ cand[c] \in Nat /\ listed[c] \in Nat /\ Len(checkpoints) \in Nat
  BY <1>1 DEF Inv, Types, Recoveries, RecoveryOf
<1>3. checkpoints[cand[c]] \in SUBSET Update
  BY <1>1, <1>2 DEF Inv, Types
<1>4. Types'
  BY <1>1, <1>3 DEF Inv, Types, Place
<1>5. /\ OthersStay(c) /\ at'[c] = "begin" /\ loaded'[c] = row
      /\ new'[c] = checkpoints[cand[c]]
  BY <1>1 DEF OthersStay, Inv, Types
<1>6. RecoveryOf(c)'
  BY <1>1, <1>2, <1>5 DEF RecoveryOf, Recovering
<1>7. Shows(loaded'[c]) /\ loaded'[c].content \subseteq issued' /\ Shows(mirror')
      /\ Prefix(rows'[c]) /\ Prefix(eventsFile')
  BY <1>1, <1>5 DEF Inv, Types, View, Views, Shows, Traced, Exports, Prefix
<1>8. writer # c /\ ~InFlight(c)' /\ c \in UnderWay
  BY <1>1, <1>2 DEF Inv, Locked, InFlight, UnderWay, Recovering
<1> QED BY <1>1, <1>4, <1>5, <1>6, <1>7, <1>8, LocalStep

(* A call that ends with nothing in hand: no checkpoint left, or a crash.  *)
LEMMA EndInv ==
  ASSUME Inv, NEW c \in Client, RecoverFails(c) \/ Crash(c)
  PROVE  Inv'
<1>1. /\ Return(c, Nothing)
      /\ UNCHANGED <<row, eventRows, checkpoints, mirror, eventsFile, issued>>
  BY DEF RecoverFails, Crash, db, files
<1>2. writer' = (IF writer = c THEN NoOwner ELSE writer)
  <2>1. CASE RecoverFails(c)
    BY <2>1 DEF RecoverFails, Inv, Locked
  <2>2. CASE Crash(c)
    BY <2>2 DEF Crash
  <2> QED BY <2>1, <2>2
<1>3. eventsFile' \in Seq(Nat) /\ Prefix(eventsFile')
  BY <1>1 DEF Inv, Types, Exports, Prefix
<1> QED BY <1>1, <1>2, <1>3, NothingShows, ReturnStep

-----------------------------------------------------------------------------
(* Nobody else is between the version check and the COMMIT.                *)
LEMMA OneWriter ==
  ASSUME Inv, NEW c \in Client, at[c] \in {"check", "commit"}
  PROVE  /\ writer = c
         /\ \A d \in Client \ {c} : at[d] \notin {"check", "commit"}
BY DEF Inv, Locked

LEMMA WriteCheckpointInv ==
  ASSUME Inv, NEW c \in Client, WriteCheckpoint(c)
  PROVE  Inv'
<1> USE DEF Inv
<1>1. /\ at[c] = "check" /\ loaded[c].version = row.version
      /\ checkpoints' = Append(checkpoints, new[c])
      /\ at' = [at EXCEPT ![c] = "commit"]
      /\ UNCHANGED <<row, eventRows, writer, mirror, eventsFile, issued>>
      /\ UNCHANGED <<loaded, new, rows, listed, cand>>
  BY DEF WriteCheckpoint, ExpectedVersion, Goto, db, local
<1>2. /\ new[c] \in SUBSET Update /\ checkpoints \in Seq(SUBSET Update)
      /\ Len(checkpoints) \in Nat /\ Len(checkpoints) > 0
  BY DEF Types
<1>3. /\ Len(checkpoints') = Len(checkpoints) + 1
      /\ checkpoints'[Len(checkpoints')] = new[c]
      /\ \A j \in DOMAIN checkpoints : checkpoints'[j] = checkpoints[j]
      /\ DOMAIN checkpoints' = DOMAIN checkpoints \union {Len(checkpoints')}
      /\ DOMAIN checkpoints = 1 .. Len(checkpoints)
      /\ checkpoints' \in Seq(SUBSET Update)
  BY <1>1, <1>2
<1>4. at'[c] = "commit" /\ \A d \in Client \ {c} : at'[d] = at[d]
  BY <1>1 DEF Types
<1>5. writer = c /\ \A d \in Client \ {c} : at[d] \notin {"check", "commit"}
  BY <1>1, OneWriter
<1>6. Types'
  BY <1>1, <1>2, <1>3 DEF Types, Place
<1>7. Locked'
  BY <1>1, <1>4, <1>5 DEF Locked
<1>8. Recoveries'
  <2>1. ASSUME NEW d \in Client
        PROVE  RecoveryOf(d)'
    <3>1. /\ cand[d] \in Nat /\ listed[d] \in Nat /\ cand[d] <= listed[d]
          /\ listed[d] <= Len(checkpoints)
      BY DEF Recoveries, RecoveryOf, Types
    <3>2. cand[d] > 0 => checkpoints'[cand[d]] = checkpoints[cand[d]]
      BY <1>2, <1>3, <3>1
    <3>3. RecoveryOf(d)
      BY DEF Recoveries
    <3>4. listed[d] <= Len(checkpoints') /\ cand[d] < Len(checkpoints')
      BY <1>2, <1>3, <3>1
    <3>5. /\ at'[d] = "idle" => ~Recovering(d)
          /\ at'[d] = "try" => Recovering(d)
          /\ Recovering(d) /\ at'[d] # "try" => cand[d] > 0
      BY <1>1, <1>4, <3>3 DEF RecoveryOf
    <3>6. Recovering(d)' <=> Recovering(d)
      BY <1>1 DEF Recovering
    <3>7. Recovering(d) /\ at'[d] \in {"begin", "check", "commit"} =>
             at[d] \in {"begin", "check", "commit"}
      BY <1>1, <1>4
    <3>8. Recovering(d) /\ at'[d] \in {"begin", "check", "commit"} =>
             new[d] = checkpoints'[cand[d]]
      BY <3>2, <3>3, <3>7 DEF RecoveryOf
    <3> QED BY <1>1, <3>1, <3>4, <3>5, <3>6, <3>8 DEF RecoveryOf
  <2> QED BY <2>1 DEF Recoveries
<1>9. Views'
  BY <1>1 DEF Views, Shows
<1>10. Commits'
  BY <1>1, <1>2, <1>3, <1>4, <1>5 DEF Commits, AtCommit
<1>11. InFlight(c) => new[c] \subseteq issued
  BY DEF Saves, SaveOf, Traced
<1>12. Traced'
  <2>1. new[c] \subseteq issued
    <3>1. CASE Recovering(c)
      <4>1. new[c] = checkpoints[cand[c]] /\ cand[c] > 0 /\ cand[c] <= Len(checkpoints)
            /\ cand[c] \in Nat
        BY <1>1, <1>2, <3>1 DEF Recoveries, RecoveryOf, Types
      <4> QED BY <1>2, <1>3, <4>1 DEF Traced
    <3>2. CASE ~Recovering(c)
      BY <1>1, <1>11, <3>2 DEF InFlight
    <3> QED BY <3>1, <3>2
  <2> QED BY <1>1, <1>3, <2>1 DEF Traced
<1>13. Saves'
  <2>1. \A d \in Client : (InFlight(d)' <=> InFlight(d)) /\ Pending(d)' = Pending(d)
    BY <1>1, <1>4 DEF InFlight, Recovering, Pending
  <2>2. \A d \in Client : SaveOf(d)'
    BY <1>1, <2>1 DEF Saves, SaveOf
  <2> QED BY <2>1, <2>2 DEF Saves
<1>14. Exports'
  BY <1>1 DEF Exports, Prefix
<1>15. Bounded'
  <2>1. UnderWay' = UnderWay
    BY <1>1, <1>4 DEF UnderWay
  <2> QED BY <1>1, <2>1 DEF Bounded
<1> QED BY <1>6, <1>7, <1>8, <1>9, <1>10, <1>12, <1>13, <1>14, <1>15

(* A COMMIT stays below the bound the refinement gives the versions.       *)
LEMMA CommitIsBounded ==
  ASSUME Inv, NEW c \in Client, at[c] = "commit"
  PROVE  /\ Cardinality(UnderWay \ {c}) = Cardinality(UnderWay) - 1
         /\ row.version + 1 + Cardinality(UnderWay \ {c}) <= MaxVersion + Cardinality(Client)
         /\ row.version < MaxVersion + Cardinality(Client)
         /\ MaxVersion + Cardinality(Client) \in Nat
<1>1. c \in UnderWay
  BY DEF UnderWay
<1>2. row.version \in Nat /\ MaxVersion \in Nat
  BY BoundAssumption DEF Inv, Types, View
<1>3. Cardinality(UnderWay \ {c}) = Cardinality(UnderWay) - 1
  BY <1>1, UnderWayFinite, FS_RemoveElement
<1>4. Cardinality(UnderWay \ {c}) \in Nat
  BY UnderWayFinite, FS_Subset, FS_CardinalityType
<1>5. row.version + Cardinality(UnderWay) <= MaxVersion + Cardinality(Client)
  BY <1>1 DEF Inv, Bounded
<1> QED BY <1>2, <1>3, <1>4, <1>5, UnderWayFinite

LEMMA CommitSaveInv ==
  ASSUME Inv, NEW c \in Client, CommitSave(c)
  PROVE  Inv'
<1> USE DEF Inv
<1> DEFINE next == [version |-> row.version + 1, content |-> new[c]]
<1>1. /\ at[c] = "commit" /\ row' = next
      /\ eventRows' = Append(eventRows, row.version + 1)
      /\ writer' = NoOwner
      /\ loaded' = [loaded EXCEPT ![c] = next]
      /\ at' = [at EXCEPT ![c] = "mirror"]
      /\ UNCHANGED <<checkpoints, mirror, eventsFile, issued, new, rows, listed, cand>>
  BY DEF CommitSave, Goto, files
<1>2. /\ new[c] \in SUBSET Update /\ row.version \in Nat
      /\ eventRows \in Seq(Nat) /\ Len(eventRows) \in Nat
  BY DEF Types, View
<1>3. next \in View /\ next.version = row.version + 1 /\ next.content = new[c] /\ next.version > 0
  BY <1>2 DEF View
<1> HIDE DEF next
<1>4. /\ at'[c] = "mirror" /\ loaded'[c] = next
      /\ \A d \in Client \ {c} : at'[d] = at[d] /\ loaded'[d] = loaded[d]
  BY <1>1 DEF Types
<1>5. writer = c /\ \A d \in Client \ {c} : at[d] \notin {"check", "commit"}
  BY <1>1, OneWriter
<1>6. Types'
  <2>1. /\ row' \in View /\ row'.version > 0 /\ loaded' \in [Client -> View]
        /\ eventRows' \in Seq(Nat)
    BY <1>1, <1>2, <1>3 DEF Types
  <2>2. at' \in [Client -> Place] /\ writer' \in Client \union {NoOwner}
    BY <1>1 DEF Types, Place
  <2> QED BY <1>1, <2>1, <2>2 DEF Types
<1>7. Locked'
  BY <1>1, <1>4, <1>5, OwnerAssumption DEF Locked
<1>8. Recoveries'
  BY <1>1, <1>4 DEF Recoveries, RecoveryOf, Recovering
<1>9. Views'
  <2>1. ASSUME NEW view \in View, Shows(view)
        PROVE  Shows(view)'
    <3>1. view.version \in Nat /\ view.version <= row.version
      BY <2>1 DEF Shows, View
    <3>2. view.version < row'.version
      BY <1>1, <1>2, <1>3, <3>1
    <3>3. row'.version \in Nat
      BY <1>1, <1>2, <1>3
    <3> QED BY <3>1, <3>2, <3>3 DEF Shows
  <2>2. Shows(mirror)'
    <3>1. mirror \in View /\ Shows(mirror) /\ mirror' = mirror
      BY <1>1 DEF Types, Views
    <3> QED BY <2>1, <3>1 DEF Shows
  <2>3. ASSUME NEW d \in Client
        PROVE  Shows(loaded[d])'
    <3>1. CASE d = c
      BY <1>1, <1>3, <1>4, <1>2, <3>1 DEF Shows
    <3>2. CASE d # c
      <4>1. loaded[d] \in View /\ Shows(loaded[d]) /\ loaded'[d] = loaded[d]
        BY <1>4, <3>2 DEF Types, Views
      <4> QED BY <2>1, <4>1 DEF Shows
    <3> QED BY <3>1, <3>2
  <2> QED BY <2>2, <2>3 DEF Views
<1>10. Commits'
  BY <1>4, <1>5 DEF Commits, AtCommit
<1>11. new[c] \subseteq issued
  <2>1. /\ new[c] = checkpoints[Len(checkpoints)] /\ Len(checkpoints) > 0
        /\ Len(checkpoints) \in DOMAIN checkpoints
    BY <1>1 DEF Commits, AtCommit, Types
  <2> QED BY <2>1 DEF Traced
<1>12. Traced'
  BY <1>1, <1>3, <1>4, <1>11 DEF Traced
<1>13. Saves'
  <2>1. ~InFlight(c)'
    BY <1>4 DEF InFlight
  <2>2. \A d \in Client \ {c} : (InFlight(d)' <=> InFlight(d)) /\ Pending(d)' = Pending(d)
    BY <1>1, <1>4 DEF InFlight, Recovering, Pending
  <2>3. \A d \in Client : SaveOf(d)'
    BY <1>1, <1>4, <2>1, <2>2 DEF Saves, SaveOf
  <2> QED BY <2>1, <2>2, <2>3 DEF Saves
<1>14. Exports'
  <2>1. \A i \in 1 .. Len(eventRows) : eventRows'[i] = eventRows[i]
    BY <1>1, <1>2
  <2>2. Len(eventRows') = Len(eventRows) + 1
    BY <1>1, <1>2
  <2>3. ASSUME NEW s \in Seq(Nat), Prefix(s)
        PROVE  Prefix(s)'
    <3>1. Len(s) \in Nat /\ Len(s) <= Len(eventRows)
      BY <2>3 DEF Prefix
    <3>2. \A i \in 1 .. Len(s) : s[i] = eventRows'[i]
      BY <1>2, <2>1, <2>3, <3>1 DEF Prefix
    <3> QED BY <1>2, <2>2, <3>1, <3>2 DEF Prefix
  <2>4. eventsFile \in Seq(Nat) /\ Prefix(eventsFile) /\ eventsFile' = eventsFile
    BY <1>1 DEF Types, Exports
  <2>5. \A d \in Client : rows[d] \in Seq(Nat) /\ Prefix(rows[d]) /\ rows'[d] = rows[d]
    BY <1>1 DEF Types, Exports
  <2>6. Prefix(eventsFile)'
    BY <2>3, <2>4 DEF Prefix
  <2>7. \A d \in Client : Prefix(rows[d])'
    BY <2>3, <2>5 DEF Prefix
  <2> QED BY <2>6, <2>7 DEF Exports
<1>15. Bounded'
  <2>1. UnderWay' = UnderWay \ {c}
    BY <1>1, <1>4 DEF UnderWay
  <2>2. row.version + 1 + Cardinality(UnderWay \ {c}) <= MaxVersion + Cardinality(Client)
    BY <1>1, CommitIsBounded
  <2> QED BY <1>1, <1>3, <2>1, <2>2 DEF Bounded
<1> QED BY <1>6, <1>7, <1>8, <1>9, <1>10, <1>12, <1>13, <1>14, <1>15

(* Damaged files, and steps that change nothing.                           *)
LEMMA DamageInv ==
  ASSUME Inv, Damage \/ UNCHANGED vars
  PROVE  Inv'
<1>1. /\ UNCHANGED <<row, eventRows, writer, checkpoints, mirror, eventsFile, issued>>
      /\ UNCHANGED <<at, loaded, new, rows, listed, cand>>
  BY DEF Damage, vars, db, files, local
<1> USE <1>1 DEF Inv
<1>2. Types' /\ Locked' /\ Views' /\ Commits' /\ Traced' /\ Exports'
  BY DEF Types, Locked, Views, Shows, Commits, AtCommit, Traced, Exports, Prefix
<1>3. Recoveries'
  BY DEF Recoveries, RecoveryOf, Recovering
<1>4. Saves'
  BY DEF Saves, SaveOf, InFlight, Recovering, Pending
<1>5. Bounded'
  BY DEF Bounded, UnderWay
<1> QED BY <1>2, <1>3, <1>4, <1>5

LEMMA InvNext == Inv /\ [Next]_vars => Inv'
<1> SUFFICES ASSUME Inv, [Next]_vars PROVE Inv'
  OBVIOUS
<1>1. ASSUME NEW c \in Client, LoadWithVersion(c) \/ CallSave(c) \/ CallRecover(c)
      PROVE  Inv'
  BY <1>1, LoadInv, CallSaveInv, CallRecoverInv
<1>2. ASSUME NEW c \in Client, SaveStep(c)
      PROVE  Inv'
  BY <1>2, BeginImmediateInv, GiveUpInv, WriteCheckpointInv, CommitSaveInv, MirrorStateInv,
     ReadEventsInv, TruncateEventsInv, ExportEventsInv DEF SaveStep
<1>3. ASSUME NEW c \in Client, RecoverStep(c) \/ SaveFails(c) \/ Crash(c)
      PROVE  Inv'
  BY <1>3, SkipDamagedInv, TryCheckpointInv, GiveUpInv, EndInv DEF RecoverStep
<1>4. CASE Damage \/ UNCHANGED vars
  BY <1>4, DamageInv
<1> QED BY <1>1, <1>2, <1>3, <1>4 DEF Next

(* Between the steps of the clients, whatever crashes, times out or is     *)
(* damaged on the way, every part of the invariant holds.                  *)
THEOREM SQLiteInvariant == Spec => []Inv
<1>1. Init => Inv
  BY InvInit
<1>2. Inv /\ [Next]_vars => Inv'
  BY InvNext
<1> QED BY <1>1, <1>2, PTL DEF Spec

(* A reader of state.json or events.jsonl, which save rewrites after its   *)
(* transaction and in any order with other saves, sees only what was       *)
(* committed.                                                              *)
THEOREM MirrorsAreCommitted == Spec => []MirrorsShowOnlyCommitted
<1>1. ASSUME Inv PROVE MirrorsShowOnlyCommitted
  <2>1. eventsFile \in Seq(Nat) /\ eventRows \in Seq(Nat) /\ Prefix(eventsFile)
    BY <1>1 DEF Inv, Types, Exports
  <2>2. Len(eventsFile) \in Nat /\ Len(eventRows) \in Nat /\ Len(eventsFile) <= Len(eventRows)
    BY <2>1 DEF Prefix
  <2>3. eventsFile = SubSeq(eventRows, 1, Len(eventsFile))
    <3> DEFINE s == SubSeq(eventRows, 1, Len(eventsFile))
    <3>1. Len(s) = Len(eventsFile) /\ s \in Seq(Nat)
      BY <2>1, <2>2
    <3>2. \A i \in 1 .. Len(eventsFile) : s[i] = eventsFile[i]
      BY <2>1, <2>2 DEF Prefix
    <3> QED BY <2>1, <3>1, <3>2
  <2> QED BY <1>1, <2>2, <2>3 DEF Inv, Views, Shows, MirrorsShowOnlyCommitted
<1> QED BY <1>1, SQLiteInvariant, PTL

-----------------------------------------------------------------------------
(* What the contract sees.  First the checkpoints: the last file is there  *)
(* for the contract once its client is past the COMMIT, or has failed.     *)
LEMMA KeptStays ==
  ASSUME Inv, NEW c \in Client, OthersStay(c), checkpoints' = checkpoints,
         at'[c] = "commit" <=> at[c] = "commit"
  PROVE  Kept' = Kept
<1>1. KeptFiles' = KeptFiles
  BY DEF KeptFiles, OthersStay
<1> QED BY <1>1 DEF Kept

LEMMA KeptAtWrite ==
  ASSUME Inv, NEW c \in Client, WriteCheckpoint(c)
  PROVE  Kept' = Kept
<1>1. /\ at[c] = "check" /\ at' = [at EXCEPT ![c] = "commit"]
      /\ checkpoints' = Append(checkpoints, new[c])
  BY DEF WriteCheckpoint, Goto
<1>2. new[c] \in SUBSET Update /\ checkpoints \in Seq(SUBSET Update) /\ at'[c] = "commit"
  BY <1>1 DEF Inv, Types
<1>3. \A d \in Client : at[d] # "commit"
  BY <1>1, OneWriter
<1>4. KeptFiles = DOMAIN checkpoints
  BY <1>3 DEF KeptFiles
<1>5. /\ DOMAIN checkpoints' = DOMAIN checkpoints \union {Len(checkpoints')}
      /\ Len(checkpoints') \notin DOMAIN checkpoints
      /\ \A j \in DOMAIN checkpoints : checkpoints'[j] = checkpoints[j]
  BY <1>1, <1>2
<1>6. KeptFiles' = DOMAIN checkpoints
  BY <1>2, <1>5 DEF KeptFiles
<1> QED BY <1>4, <1>5, <1>6 DEF Kept

LEMMA KeptAfterCommit ==
  ASSUME Inv, NEW c \in Client, at[c] = "commit", at'[c] # "commit",
         OthersStay(c), checkpoints' = checkpoints
  PROVE  /\ Kept' = Kept \union {new[c]}
         /\ Recovering(c) => new[c] \in Kept
<1>1. /\ Len(checkpoints) > 0 /\ Len(checkpoints) \in DOMAIN checkpoints
      /\ checkpoints[Len(checkpoints)] = new[c]
  BY DEF Inv, Types, Commits, AtCommit
<1>2. \A d \in Client : at'[d] # "commit"
  BY OneWriter DEF OthersStay
<1>3. KeptFiles' = DOMAIN checkpoints
  BY <1>2 DEF KeptFiles
<1>4. KeptFiles = DOMAIN checkpoints \ {Len(checkpoints)}
  BY DEF KeptFiles
<1>5. Kept' = Kept \union {new[c]}
  BY <1>1, <1>3, <1>4 DEF Kept
<1>6. ASSUME Recovering(c) PROVE new[c] \in Kept
  <2>1. cand[c] > 0 /\ new[c] = checkpoints[cand[c]] /\ cand[c] < Len(checkpoints)
        /\ cand[c] \in Nat /\ Len(checkpoints) \in Nat
    BY <1>6 DEF Inv, Recoveries, RecoveryOf, Types
  <2>2. cand[c] \in DOMAIN checkpoints \ {Len(checkpoints)}
    BY <2>1 DEF Inv, Types
  <2> QED BY <1>4, <2>1, <2>2 DEF Kept
<1> QED BY <1>5, <1>6

(* Then the updates: an update is issued for the contract when its save    *)
(* commits or fails, not while it is under way.                            *)
LEMMA IssuedIs ==
  \A u : u \in Issued <=> u \in issued /\ \A d \in Client : InFlight(d) => u \notin Pending(d)
BY DEF Issued

LEMMA PendingIs ==
  ASSUME Inv, NEW c \in Client, InFlight(c)
  PROVE  \E u \in issued \ loaded[c].content :
           Pending(c) = {u} /\ new[c] = loaded[c].content \union {u}
BY DEF Inv, Saves, SaveOf, Pending

LEMMA OthersPending ==
  ASSUME NEW c \in Client, OthersStay(c)
  PROVE  \A d \in Client \ {c} : (InFlight(d)' <=> InFlight(d)) /\ Pending(d)' = Pending(d)
BY DEF OthersStay, InFlight, Recovering, Pending

LEMMA IssuedStays ==
  ASSUME Inv, NEW c \in Client, OthersStay(c), issued' = issued,
         InFlight(c)' <=> InFlight(c),
         InFlight(c) => Pending(c)' = Pending(c)
  PROVE  Issued' = Issued
<1>1. \A d \in Client : /\ InFlight(d)' <=> InFlight(d)
                        /\ InFlight(d) => Pending(d)' = Pending(d)
  BY OthersPending
<1>2. \A u : u \in Issued' <=> u \in issued /\ \A d \in Client : InFlight(d)' => u \notin Pending(d)'
  BY DEF Issued
<1> QED BY <1>1, <1>2, IssuedIs

LEMMA IssuedAtCall ==
  ASSUME Inv, NEW c \in Client, OthersStay(c), ~InFlight(c),
         NEW u \in Update \ issued, issued' = issued \union {u},
         InFlight(c)', Pending(c)' = {u}
  PROVE  Issued' = Issued
<1>1. \A d \in Client \ {c} : (InFlight(d)' <=> InFlight(d)) /\ Pending(d)' = Pending(d)
  BY OthersPending
<1>2. \A v : v \in Issued' <=> v \in issued' /\ \A d \in Client : InFlight(d)' => v \notin Pending(d)'
  BY DEF Issued
<1> QED BY <1>1, <1>2, IssuedIs

LEMMA IssuedAtEnd ==
  ASSUME Inv, NEW c \in Client, OthersStay(c), issued' = issued,
         InFlight(c), ~InFlight(c)', NEW u \in issued, Pending(c) = {u}
  PROVE  Issued' = Issued \union {u} /\ u \notin Issued
<1>1. \A d \in Client \ {c} : (InFlight(d)' <=> InFlight(d)) /\ Pending(d)' = Pending(d)
  BY OthersPending
<1>2. \A v : v \in Issued' <=> v \in issued /\ \A d \in Client : InFlight(d)' => v \notin Pending(d)'
  BY DEF Issued
<1>3. \A d \in Client \ {c} : InFlight(d) => u \notin Pending(d)
  BY DEF Inv, Saves
<1> QED BY <1>1, <1>2, <1>3, IssuedIs

(* Last the states clients work from: none while they recover.             *)
LEMMA LoadedMoves ==
  ASSUME NEW c \in Client, OthersStay(c)
  PROVE  /\ LoadedVersion' = [LoadedVersion EXCEPT ![c] =
                                IF Recovering(c)' THEN 0 ELSE loaded'[c].version]
         /\ LoadedContent' = [LoadedContent EXCEPT ![c] =
                                IF Recovering(c)' THEN {} ELSE loaded'[c].content]
BY DEF LoadedVersion, LoadedContent, OthersStay, Recovering

LEMMA LoadedStays ==
  ASSUME Inv, NEW c \in Client, OthersStay(c),
         Recovering(c)' <=> Recovering(c),
         ~Recovering(c) => loaded'[c] = loaded[c]
  PROVE  LoadedVersion' = LoadedVersion /\ LoadedContent' = LoadedContent
<1>1. \A d \in Client : /\ Recovering(d)' <=> Recovering(d)
                        /\ ~Recovering(d) => loaded'[d] = loaded[d]
  BY DEF OthersStay, Recovering
<1> QED BY <1>1 DEF LoadedVersion, LoadedContent

-----------------------------------------------------------------------------
LEMMA RefineInit == Init => Backend!Init
<1> SUFFICES ASSUME Init PROVE Backend!Init
  OBVIOUS
<1>1. /\ row.version = 1 /\ row.content = {} /\ eventRows = <<1>> /\ issued = {}
      /\ \A c \in Client : /\ at[c] = "idle" /\ ~Recovering(c)
                           /\ loaded[c].version = 0 /\ loaded[c].content = {}
      /\ DOMAIN checkpoints = {1} /\ checkpoints[1] = {} /\ Len(checkpoints) = 1
  BY DEF Init, Recovering, Nothing
<1>2. Kept = {{}}
  <2>1. KeptFiles = {1}
    BY <1>1 DEF KeptFiles
  <2> QED BY <1>1, <2>1 DEF Kept
<1>3. Issued = {}
  BY <1>1 DEF Issued
<1>4. /\ LoadedVersion = [c \in Client |-> 0]
      /\ LoadedContent = [c \in Client |-> {}]
  BY <1>1 DEF LoadedVersion, LoadedContent
<1> QED BY <1>1, <1>2, <1>3, <1>4 DEF Backend!Init

(* A step the contract does not see.                                       *)
LEMMA Invisible ==
  ASSUME row' = row, eventRows' = eventRows, Kept' = Kept, Issued' = Issued,
         LoadedVersion' = LoadedVersion, LoadedContent' = LoadedContent
  PROVE  UNCHANGED Backend!vars
BY DEF Backend!vars

(* A client that gives up outside a save: its state is dropped.            *)
LEMMA LeaveStep ==
  ASSUME Inv, NEW c \in Client, OthersStay(c),
         UNCHANGED <<row, eventRows, issued>>, Kept' = Kept,
         ~InFlight(c), ~InFlight(c)',
         Recovering(c)' \/ loaded'[c] = Nothing
  PROVE  Backend!Leave(c)
<1>1. Issued' = Issued
  BY IssuedStays
<1>2. /\ LoadedVersion' = [LoadedVersion EXCEPT ![c] = 0]
      /\ LoadedContent' = [LoadedContent EXCEPT ![c] = {}]
  <2>1. (IF Recovering(c)' THEN 0 ELSE loaded'[c].version) = 0
    BY DEF Nothing
  <2>2. (IF Recovering(c)' THEN {} ELSE loaded'[c].content) = {}
    BY DEF Nothing
  <2> QED BY <2>1, <2>2, LoadedMoves
<1> QED BY <1>1, <1>2 DEF Backend!Leave, Backend!Abandon

(* A save that ends without its COMMIT: the contract's failed save, which  *)
(* leaves the checkpoint file behind when it was already written.          *)
LEMMA FailStep ==
  ASSUME Inv, NEW c \in Client, OthersStay(c),
         UNCHANGED <<row, eventRows, issued, checkpoints>>,
         InFlight(c), at'[c] = "idle", ~Recovering(c)', loaded'[c] = Nothing
  PROVE  \E u \in Update : Backend!FailSave(c, u)
<1>1. PICK u \in issued \ loaded[c].content :
             Pending(c) = {u} /\ new[c] = loaded[c].content \union {u}
  BY PendingIs
<1>2. u \in Update
  BY DEF Inv, Types
<1>3. Issued' = Issued \union {u} /\ u \notin Issued
  <2>1. ~InFlight(c)'
    BY DEF InFlight
  <2> QED BY <1>1, <2>1, IssuedAtEnd
<1>4. /\ LoadedVersion' = [LoadedVersion EXCEPT ![c] = 0]
      /\ LoadedContent' = [LoadedContent EXCEPT ![c] = {}]
  <2>1. Nothing.version = 0 /\ Nothing.content = {}
    BY DEF Nothing
  <2> QED BY <2>1, LoadedMoves
<1>5. LoadedVersion[c] > 0 /\ LoadedContent[c] \union {u} = new[c]
  BY <1>1 DEF InFlight, LoadedVersion, LoadedContent, Inv, Saves, SaveOf
<1>6. Backend!Abandon(c, {}) \/ Backend!Abandon(c, {LoadedContent[c] \union {u}})
  <2>1. CASE at[c] = "commit"
    <3>1. Kept' = Kept \union {new[c]}
      BY <2>1, KeptAfterCommit
    <3> QED BY <1>4, <1>5, <3>1 DEF Backend!Abandon
  <2>2. CASE at[c] # "commit"
    <3>1. Kept' = Kept
      BY <2>2, KeptStays
    <3> QED BY <1>4, <3>1 DEF Backend!Abandon
  <2> QED BY <2>1, <2>2
<1>7. Backend!FailSave(c, u)
  BY <1>3, <1>5, <1>6 DEF Backend!FailSave
<1> QED BY <1>2, <1>7

-----------------------------------------------------------------------------
LEMMA RefineLoad ==
  ASSUME Inv, NEW c \in Client, LoadWithVersion(c)
  PROVE  Backend!LoadWithVersion(c)
<1>1. /\ at[c] = "idle" /\ loaded' = [loaded EXCEPT ![c] = row]
      /\ UNCHANGED <<row, eventRows, checkpoints, issued, at, new, rows, listed, cand>>
  BY DEF LoadWithVersion, db, files
<1>2. OthersStay(c) /\ loaded'[c] = row
  BY <1>1 DEF OthersStay, Inv, Types
<1>3. ~Recovering(c)' /\ ~InFlight(c) /\ ~InFlight(c)'
  BY <1>1 DEF Inv, Recoveries, RecoveryOf, Recovering, InFlight
<1>4. Kept' = Kept /\ Issued' = Issued
  BY <1>1, <1>2, <1>3, KeptStays, IssuedStays
<1>5. /\ LoadedVersion' = [LoadedVersion EXCEPT ![c] = row.version]
      /\ LoadedContent' = [LoadedContent EXCEPT ![c] = row.content]
  BY <1>2, <1>3, LoadedMoves
<1> QED BY <1>1, <1>4, <1>5 DEF Backend!LoadWithVersion

LEMMA RefineCallSave ==
  ASSUME Inv, NEW c \in Client, CallSave(c)
  PROVE  UNCHANGED Backend!vars
<1> DEFINE u == CHOOSE v \in Update \ issued : TRUE
<1>1. u \in Update \ issued
  BY DEF CallSave, Inv, Types
<1>2. /\ at[c] = "idle"
      /\ issued' = issued \union {u}
      /\ new' = [new EXCEPT ![c] = loaded[c].content \union {u}]
      /\ at' = [at EXCEPT ![c] = "begin"]
      /\ UNCHANGED <<row, eventRows, checkpoints, loaded, rows, listed, cand>>
  BY DEF CallSave, Goto, db, files
<1> HIDE DEF u
<1>3. OthersStay(c) /\ at'[c] = "begin" /\ new'[c] = loaded[c].content \union {u}
  BY <1>2 DEF OthersStay, Inv, Types
<1>4. ~Recovering(c) /\ ~Recovering(c)' /\ ~InFlight(c) /\ InFlight(c)'
  BY <1>2, <1>3 DEF Inv, Recoveries, RecoveryOf, Recovering, InFlight
<1>5. Pending(c)' = {u}
  BY <1>1, <1>2, <1>3 DEF Pending, Inv, Traced
<1>6. Kept' = Kept
  BY <1>2, <1>3, KeptStays
<1>7. Issued' = Issued
  BY <1>1, <1>2, <1>3, <1>4, <1>5, IssuedAtCall
<1>8. LoadedVersion' = LoadedVersion /\ LoadedContent' = LoadedContent
  BY <1>2, <1>3, <1>4, LoadedStays
<1> QED BY <1>2, <1>6, <1>7, <1>8, Invisible

LEMMA RefineInside ==
  ASSUME Inv, NEW c \in Client,
         \/ BeginImmediate(c) \/ WriteCheckpoint(c)
         \/ MirrorState(c) \/ ReadEvents(c) \/ TruncateEvents(c)
  PROVE  UNCHANGED Backend!vars
<1>1. /\ at[c] \in {"begin", "check", "mirror", "read", "export"}
      /\ \E place \in Place : Goto(c, place)
      /\ UNCHANGED <<row, eventRows, issued, loaded, new, listed, cand>>
      /\ rows' = [rows EXCEPT ![c] = rows'[c]]
  BY DEF BeginImmediate, WriteCheckpoint, MirrorState, ReadEvents, TruncateEvents, db, files, local, Place, Inv, Types
<1>2. OthersStay(c)
  BY <1>1 DEF OthersStay, Goto, Inv, Types
<1>3. Recovering(c)' <=> Recovering(c)
  BY <1>1 DEF Recovering
<1>4. at'[c] \in {"begin", "check", "commit"} <=> at[c] \in {"begin", "check", "commit"}
  BY DEF BeginImmediate, WriteCheckpoint, MirrorState, ReadEvents, TruncateEvents, Goto, Inv, Types
<1>5. (InFlight(c)' <=> InFlight(c)) /\ Pending(c)' = Pending(c)
  BY <1>1, <1>3, <1>4 DEF InFlight, Pending
<1>6. Kept' = Kept
  <2>1. CASE WriteCheckpoint(c)
    BY <2>1, KeptAtWrite
  <2>2. CASE BeginImmediate(c) \/ MirrorState(c) \/ ReadEvents(c) \/ TruncateEvents(c)
    <3>1. checkpoints' = checkpoints /\ at[c] # "commit" /\ at'[c] # "commit"
      BY <2>2 DEF BeginImmediate, MirrorState, ReadEvents, TruncateEvents, Goto, files, Inv, Types
    <3> QED BY <1>2, <3>1, KeptStays
  <2> QED BY <2>1, <2>2
<1>7. Issued' = Issued
  BY <1>1, <1>2, <1>5, IssuedStays
<1>8. LoadedVersion' = LoadedVersion /\ LoadedContent' = LoadedContent
  BY <1>1, <1>2, <1>3, LoadedStays
<1> QED BY <1>1, <1>6, <1>7, <1>8, Invisible

LEMMA RefineExport ==
  ASSUME Inv, NEW c \in Client, ExportEvents(c)
  PROVE  UNCHANGED Backend!vars
<1>1. PICK view \in View : view = IF Recovering(c) THEN Nothing ELSE loaded[c]
  BY NothingShows DEF Inv, Types
<1>2. /\ at[c] = "fill" /\ Return(c, view)
      /\ UNCHANGED <<row, eventRows, checkpoints, issued>>
  BY <1>1 DEF ExportEvents, db
<1>3. OthersStay(c) /\ at'[c] = "idle" /\ loaded'[c] = view /\ listed'[c] = 0
  BY <1>2, ReturnFacts DEF Inv
<1>4. ~InFlight(c) /\ ~InFlight(c)' /\ ~Recovering(c)'
  BY <1>2, <1>3 DEF InFlight, Recovering
<1>5. Kept' = Kept /\ Issued' = Issued
  BY <1>2, <1>3, <1>4, KeptStays, IssuedStays
<1>6. LoadedVersion' = LoadedVersion /\ LoadedContent' = LoadedContent
  <2>1. CASE ~Recovering(c)
    BY <1>1, <1>3, <1>4, <2>1, LoadedStays
  <2>2. CASE Recovering(c)
    <3>1. /\ LoadedVersion' = [LoadedVersion EXCEPT ![c] = 0]
          /\ LoadedContent' = [LoadedContent EXCEPT ![c] = {}]
      BY <1>1, <1>3, <1>4, <2>2, NothingShows, LoadedMoves
    <3>2. LoadedVersion[c] = 0 /\ LoadedContent[c] = {}
      BY <2>2 DEF LoadedVersion, LoadedContent
    <3> QED BY <3>1, <3>2 DEF LoadedVersion, LoadedContent
  <2> QED BY <2>1, <2>2
<1> QED BY <1>2, <1>5, <1>6, Invisible

LEMMA RefineRecovering ==
  ASSUME Inv, NEW c \in Client, SkipDamaged(c) \/ TryCheckpoint(c)
  PROVE  UNCHANGED Backend!vars
<1>1. /\ at[c] = "try" /\ at'[c] \in {"try", "begin"} /\ OthersStay(c)
      /\ UNCHANGED <<row, eventRows, checkpoints, issued, listed>>
  BY DEF SkipDamaged, TryCheckpoint, Goto, db, files, OthersStay, Inv, Types
<1>2. Recovering(c) /\ Recovering(c)'
  BY <1>1 DEF Inv, Recoveries, RecoveryOf, Recovering
<1>3. ~InFlight(c) /\ ~InFlight(c)'
  BY <1>2 DEF InFlight
<1>4. Kept' = Kept /\ Issued' = Issued
  BY <1>1, <1>3, KeptStays, IssuedStays
<1>5. LoadedVersion' = LoadedVersion /\ LoadedContent' = LoadedContent
  BY <1>1, <1>2, LoadedStays
<1> QED BY <1>1, <1>4, <1>5, Invisible

LEMMA RefineCallRecover ==
  ASSUME Inv, NEW c \in Client, CallRecover(c)
  PROVE  Backend!Leave(c)
<1>1. /\ at[c] = "idle" /\ at'[c] = "try" /\ OthersStay(c)
      /\ listed'[c] = Len(checkpoints)
      /\ UNCHANGED <<row, eventRows, checkpoints, issued>>
  BY DEF CallRecover, Goto, db, files, OthersStay, Inv, Types
<1>2. Recovering(c)'
  BY <1>1 DEF Inv, Types, Recovering
<1>3. ~InFlight(c) /\ ~InFlight(c)'
  BY <1>1 DEF InFlight
<1>4. Kept' = Kept
  BY <1>1, KeptStays
<1> QED BY <1>1, <1>2, <1>3, <1>4, LeaveStep

(* An exception: of a save the contract's failed save, or, when it had     *)
(* committed, the loss of the state; of a recovery nothing.                *)
LEMMA RefineGiveUp ==
  ASSUME Inv, NEW c \in Client, BusyTimeout(c) \/ StateConflict(c) \/ SaveFails(c)
  PROVE  \/ \E u \in Update : Backend!FailSave(c, u)
         \/ Backend!Leave(c)
         \/ UNCHANGED Backend!vars
<1>1. /\ at[c] # "idle" /\ Raise(c)
      /\ UNCHANGED <<row, eventRows, checkpoints, issued>>
  BY FailAssumption DEF BusyTimeout, StateConflict, SaveFails, db, files
<1>2. CASE ~Recovering(c)
  <2>1. /\ OthersStay(c) /\ at'[c] = "idle" /\ listed'[c] = 0 /\ loaded'[c] = Nothing
    BY <1>1, <1>2, ReturnFacts, NothingShows DEF Raise, Inv
  <2>2. ~Recovering(c)' /\ ~InFlight(c)'
    BY <2>1 DEF Recovering, InFlight
  <2>3. CASE InFlight(c)
    BY <1>1, <2>1, <2>2, <2>3, FailStep
  <2>4. CASE ~InFlight(c)
    <3>1. at[c] # "commit" /\ at'[c] # "commit"
      BY <1>2, <2>1, <2>4 DEF InFlight
    <3>2. Kept' = Kept
      BY <1>1, <2>1, <3>1, KeptStays
    <3> QED BY <1>1, <2>1, <2>2, <2>4, <3>2, LeaveStep
  <2> QED BY <2>3, <2>4
<1>3. CASE Recovering(c)
  <2>1. at'[c] = "try" /\ OthersStay(c) /\ listed' = listed
    BY <1>1, <1>3 DEF Raise, Goto, OthersStay, Inv, Types
  <2>2. Recovering(c)' /\ ~InFlight(c) /\ ~InFlight(c)'
    BY <1>3, <2>1 DEF Recovering, InFlight
  <2>3. Kept' = Kept
    <3>1. CASE at[c] = "commit"
      BY <1>1, <1>3, <2>1, <3>1, KeptAfterCommit
    <3>2. CASE at[c] # "commit"
      BY <1>1, <2>1, <3>2, KeptStays
    <3> QED BY <3>1, <3>2
  <2>4. Issued' = Issued
    BY <1>1, <2>1, <2>2, IssuedStays
  <2>5. LoadedVersion' = LoadedVersion /\ LoadedContent' = LoadedContent
    BY <1>3, <2>1, <2>2, LoadedStays
  <2> QED BY <1>1, <2>3, <2>4, <2>5, Invisible
<1> QED BY <1>2, <1>3

LEMMA RefineEnd ==
  ASSUME Inv, NEW c \in Client, RecoverFails(c) \/ Crash(c)
  PROVE  (\E u \in Update : Backend!FailSave(c, u)) \/ Backend!Leave(c)
<1>1. /\ Return(c, Nothing)
      /\ UNCHANGED <<row, eventRows, checkpoints, issued>>
  BY DEF RecoverFails, Crash, db, files
<1>2. OthersStay(c) /\ at'[c] = "idle" /\ loaded'[c] = Nothing /\ listed'[c] = 0
  BY <1>1, ReturnFacts, NothingShows DEF Inv
<1>3. ~Recovering(c)' /\ ~InFlight(c)'
  BY <1>2 DEF Recovering, InFlight
<1>4. CASE InFlight(c)
  BY <1>1, <1>2, <1>3, <1>4, FailStep
<1>5. CASE ~InFlight(c)
  <2>1. Kept' = Kept
    <3>1. CASE at[c] = "commit"
      <4>1. Recovering(c)
        BY <1>5, <3>1 DEF InFlight
      <4> QED BY <1>1, <1>2, <3>1, <4>1, KeptAfterCommit
    <3>2. CASE at[c] # "commit"
      BY <1>1, <1>2, <3>2, KeptStays
    <3> QED BY <3>1, <3>2
  <2> QED BY <1>1, <1>2, <1>3, <1>5, <2>1, LeaveStep
<1> QED BY <1>4, <1>5

(* COMMIT: the contract's save, or its recovery.                           *)
LEMMA RefineCommit ==
  ASSUME Inv, NEW c \in Client, CommitSave(c)
  PROVE  (\E u \in Update : Backend!Save(c, u)) \/ Backend!Recover(c)
<1> DEFINE next == [version |-> row.version + 1, content |-> new[c]]
<1>1. /\ at[c] = "commit" /\ row' = next
      /\ eventRows' = Append(eventRows, row.version + 1)
      /\ loaded' = [loaded EXCEPT ![c] = next]
      /\ at' = [at EXCEPT ![c] = "mirror"]
      /\ UNCHANGED <<checkpoints, issued, new, rows, listed, cand>>
  BY DEF CommitSave, Goto, files
<1>2. next.version = row.version + 1 /\ next.content = new[c]
  OBVIOUS
<1> HIDE DEF next
<1>3. OthersStay(c) /\ at'[c] = "mirror" /\ loaded'[c] = next
  BY <1>1 DEF OthersStay, Inv, Types
<1>4. (Recovering(c)' <=> Recovering(c)) /\ ~InFlight(c)'
  BY <1>1, <1>3 DEF Recovering, InFlight
<1>5. Kept' = Kept \union {new[c]} /\ (Recovering(c) => new[c] \in Kept)
  BY <1>1, <1>3, KeptAfterCommit
<1>6. Backend!Commit(new[c])
  BY <1>1, <1>2, <1>5, CommitIsBounded DEF Backend!Commit
<1>7. CASE Recovering(c)
  <2>1. ~InFlight(c)
    BY <1>7 DEF InFlight
  <2>2. Issued' = Issued
    BY <1>1, <1>3, <1>4, <2>1, IssuedStays
  <2>3. /\ LoadedVersion' = [LoadedVersion EXCEPT ![c] = 0]
        /\ LoadedContent' = [LoadedContent EXCEPT ![c] = {}]
    BY <1>3, <1>4, <1>7, LoadedMoves
  <2>4. Backend!Recover(c)
    BY <1>5, <1>6, <1>7, <2>2, <2>3 DEF Backend!Recover
  <2> QED BY <2>4
<1>8. CASE ~Recovering(c)
  <2>1. InFlight(c)
    BY <1>1, <1>8 DEF InFlight
  <2>2. PICK u \in issued \ loaded[c].content :
               Pending(c) = {u} /\ new[c] = loaded[c].content \union {u}
    BY <2>1, PendingIs
  <2>3. u \in Update
    BY DEF Inv, Types
  <2>4. Issued' = Issued \union {u} /\ u \notin Issued
    BY <1>1, <1>3, <1>4, <2>1, <2>2, IssuedAtEnd
  <2>5. /\ LoadedVersion' = [LoadedVersion EXCEPT ![c] = row.version + 1]
        /\ LoadedContent' = [LoadedContent EXCEPT ![c] = new[c]]
    BY <1>2, <1>3, <1>4, <1>8, LoadedMoves
  <2>6. LoadedVersion[c] = row.version /\ LoadedContent[c] = loaded[c].content
    BY <1>1, <1>8 DEF LoadedVersion, LoadedContent, Inv, Commits, AtCommit
  <2>7. LoadedContent[c] \union {u} = new[c]
    BY <2>2, <2>6
  <2>8. Backend!ExpectedVersion(c) /\ Backend!Commit(LoadedContent[c] \union {u})
    BY <1>6, <2>6, <2>7 DEF Backend!ExpectedVersion
  <2>9. Backend!Save(c, u)
    BY <2>4, <2>5, <2>7, <2>8 DEF Backend!Save
  <2> QED BY <2>3, <2>9
<1> QED BY <1>7, <1>8

LEMMA RefineNext == Inv /\ [Next]_vars => [Backend!Next]_Backend!vars
<1> SUFFICES ASSUME Inv, [Next]_vars
             PROVE  [Backend!Next]_Backend!vars
  OBVIOUS
<1>1. ASSUME NEW c \in Client, LoadWithVersion(c) \/ CallSave(c) \/ CallRecover(c)
      PROVE  [Backend!Next]_Backend!vars
  BY <1>1, RefineLoad, RefineCallSave, RefineCallRecover DEF Backend!Next
<1>2. ASSUME NEW c \in Client, SaveStep(c)
      PROVE  [Backend!Next]_Backend!vars
  <2>1. CASE \/ BeginImmediate(c) \/ WriteCheckpoint(c)
             \/ MirrorState(c) \/ ReadEvents(c) \/ TruncateEvents(c)
    BY <2>1, RefineInside
  <2>2. CASE BusyTimeout(c) \/ StateConflict(c)
    BY <2>2, RefineGiveUp DEF Backend!Next
  <2>3. CASE CommitSave(c)
    BY <2>3, RefineCommit DEF Backend!Next
  <2>4. CASE ExportEvents(c)
    BY <2>4, RefineExport
  <2> QED BY <1>2, <2>1, <2>2, <2>3, <2>4 DEF SaveStep
<1>3. ASSUME NEW c \in Client, RecoverStep(c) \/ SaveFails(c) \/ Crash(c)
      PROVE  [Backend!Next]_Backend!vars
  BY <1>3, RefineRecovering, RefineGiveUp, RefineEnd DEF RecoverStep, Backend!Next
<1>4. CASE Damage \/ UNCHANGED vars
  <2>1. /\ UNCHANGED <<row, eventRows, checkpoints, issued, at, loaded, new, listed>>
    BY <1>4 DEF Damage, vars, db, files, local
  <2>2. Kept' = Kept
    BY <2>1 DEF Kept, KeptFiles
  <2>3. Issued' = Issued
    BY <2>1 DEF Issued, InFlight, Pending, Recovering
  <2>4. LoadedVersion' = LoadedVersion /\ LoadedContent' = LoadedContent
    BY <2>1 DEF LoadedVersion, LoadedContent, Recovering
  <2> QED BY <2>1, <2>2, <2>3, <2>4, Invisible
<1> QED BY <1>1, <1>2, <1>3, <1>4 DEF Next

(* Every behaviour of the transactional backend is one of the contract's,  *)
(* under the mapping that commits a save at its COMMIT.                    *)
THEOREM SQLiteImplementsContract == Spec => ImplementsStateBackend
<1>1. Init => Backend!Init
  BY RefineInit
<1>2. Inv /\ [Next]_vars => [Backend!Next]_Backend!vars
  BY RefineNext
<1> QED BY <1>1, <1>2, SQLiteInvariant, PTL DEF Spec, ImplementsStateBackend, Backend!Spec

(* Only a COMMIT touches the tables.                                       *)
LEMMA RowMovesAtCommit ==
  [Next]_vars => \/ UNCHANGED <<row, eventRows>>
                 \/ row'.version = row.version + 1 /\ eventRows' = Append(eventRows, row.version + 1)
BY DEF Next, vars, db, LoadWithVersion, CallSave, SaveStep, CallRecover, RecoverStep, Crash, Damage,
       BeginImmediate, BusyTimeout, StateConflict, WriteCheckpoint, CommitSave, MirrorState,
       ReadEvents, TruncateEvents, ExportEvents, SaveFails, SkipDamaged, TryCheckpoint, RecoverFails

(* What the contract promises holds of the rows: a save that commits has   *)
(* seen every update of the row it replaces ...                            *)
THEOREM SQLiteLosesNoUpdate == Spec => Backend!NoLostUpdate
<1>1. Inv /\ [Next]_vars => [Backend!KeepsUpdates]_Backend!vars
  <2> SUFFICES ASSUME Inv, [Next]_vars, row'.version # row.version, Issued' # Issued
               PROVE  row.content \subseteq row'.content
    BY DEF Backend!KeepsUpdates
  <2>1. Backend!Next
    BY RefineNext DEF Backend!vars
  <2>2. PICK c \in Client, u \in Update : Backend!Save(c, u)
    BY <2>1 DEF Backend!Next, Backend!LoadWithVersion, Backend!FailSave, Backend!Abandon,
                Backend!Leave, Backend!Recover
  <2>3. LoadedVersion[c] = row.version /\ row'.content = LoadedContent[c] \union {u}
    BY <2>2 DEF Backend!Save, Backend!ExpectedVersion, Backend!Commit
  <2>4. LoadedContent[c] = row.content
    BY <2>3 DEF LoadedVersion, LoadedContent, Inv, Types, Views, Shows
  <2> QED BY <2>3, <2>4
<1> QED BY <1>1, SQLiteInvariant, PTL DEF Spec, Backend!NoLostUpdate

(* ... and every version has one row in events, in version order, crashes  *)
(* and recoveries included.                                                *)
THEOREM SQLiteOrdersEvents == Spec => []Backend!EventsInVersionOrder
<1> DEFINE Ordered == Backend!EventsInVersionOrder
<1>1. Init => Ordered
  BY DEF Init, Backend!EventsInVersionOrder
<1>2. Inv /\ Ordered /\ [Next]_vars => Ordered'
  <2> SUFFICES ASSUME Inv, Ordered, [Next]_vars
               PROVE  Ordered'
    OBVIOUS
  <2>1. /\ row.version \in Nat /\ eventRows \in Seq(Nat) /\ Len(eventRows) = row.version
        /\ \A i \in DOMAIN eventRows : eventRows[i] = i
    BY DEF Inv, Types, View, Backend!EventsInVersionOrder
  <2>2. \/ UNCHANGED <<row, eventRows>>
        \/ row'.version = row.version + 1 /\ eventRows' = Append(eventRows, row.version + 1)
    BY RowMovesAtCommit
  <2>3. CASE UNCHANGED <<row, eventRows>>
    BY <2>3 DEF Backend!EventsInVersionOrder
  <2>4. CASE row'.version = row.version + 1 /\ eventRows' = Append(eventRows, row.version + 1)
    <3>1. Len(eventRows') = row'.version
      BY <2>1, <2>4
    <3>2. \A i \in DOMAIN eventRows' : eventRows'[i] = i
      BY <2>1, <2>4
    <3> QED BY <3>1, <3>2 DEF Backend!EventsInVersionOrder
  <2> QED BY <2>2, <2>3, <2>4
<1> QED BY <1>1, <1>2, SQLiteInvariant, PTL DEF Spec

=============================================================================
