---------------------------- MODULE ZoteroImport ----------------------------
(***************************************************************************)
(* zotero_import_local_fulltext.py: for each record of a manifest, finds   *)
(* the item in the library of the running Zotero, or creates it and its    *)
(* PDF through the connector, and then files it in collections through the *)
(* web library, where a person may be editing the same item.  Zotero shows *)
(* a new item to searches, and copies it to the web, some time later.      *)
(* Every request may fail before or after it had its effect, and the       *)
(* script may be stopped and run again.                                    *)
(***************************************************************************)
EXTENDS Integers, Sequences, FiniteSets

CONSTANTS
  Record,      \* the records of the manifest: 1..Len
  Invalid,     \* records whose PDF fails the size and signature check
  Destination, \* record -> the collections it is filed in
  Collection,  \* the collections, in the order they are ensured
  Retries,     \* attempts to classify an item (8)
  MaxItems,    \* bound on the items of the library
  MaxEdits,    \* bound on the edits by the person
  MaxImports   \* bound on the runs of the script

ASSUME ZoteroAssumption ==
  /\ Record \subseteq Nat \ {0} /\ 1 \in Record
  /\ Invalid \subseteq Record /\ Retries \in Nat \ {0} /\ MaxItems \in Nat
  /\ Len(Collection) \in Nat \ {0} /\ DOMAIN Collection = 1..Len(Collection)
  /\ \A r \in Record : Destination[r] \subseteq {Collection[i] : i \in DOMAIN Collection}

VARIABLES
  items,   \* items of the library, local and web: "none" or a record of both
  colls,   \* collections that exist in the web library
  imp,     \* the run of the script
  outcome, \* record -> its action or error in the audit of this run
  clean,   \* no run so far ended with an error or was stopped
  edits, imports \* counters of the bounds

zoteroVars == <<items, colls, imp, outcome, clean, edits, imports>>

(* What the web library holds of an item: its version, its collections,    *)
(* and the edits of the person.                                            *)
NewData == [version |-> 0, in |-> {}, notes |-> 0]
NewItem(r) == [of |-> r, pdf |-> FALSE, shown |-> FALSE, synced |-> FALSE, data |-> NewData]
NoItem == NewItem(0)
Item == {i \in 1..MaxItems : items[i] # NoItem}
Off == [at |-> "off", pos |-> 0, item |-> 0, tries |-> 0, data |-> NewData]

ZoteroInit ==
  /\ items = [i \in 1..MaxItems |-> NoItem]
  /\ colls = {}
  /\ imp = Off /\ outcome = [r \in Record |-> "none"]
  /\ clean = TRUE /\ edits = 0 /\ imports = 0

-----------------------------------------------------------------------------
(* Zotero and the person. *)
ShowItem(i) ==
  /\ i \in Item /\ ~items[i].shown
  /\ items' = [items EXCEPT ![i].shown = TRUE]
  /\ UNCHANGED <<colls, imp, outcome, clean, edits, imports>>

SyncItem(i) ==
  /\ i \in Item /\ ~items[i].synced
  /\ items' = [items EXCEPT ![i].synced = TRUE]
  /\ UNCHANGED <<colls, imp, outcome, clean, edits, imports>>

EditItem(i) ==
  /\ i \in Item /\ items[i].synced /\ edits < MaxEdits
  /\ items' = [items EXCEPT ![i].data.notes = @ + 1, ![i].data.version = @ + 1]
  /\ edits' = edits + 1
  /\ UNCHANGED <<colls, imp, outcome, clean, imports>>

-----------------------------------------------------------------------------
(* Where the script goes, with the record in hand if it stays with one.    *)
Go(at) == imp' = [imp EXCEPT !.at = at]
NextRecord ==
  imp' = IF imp.pos + 1 \in Record THEN [Off EXCEPT !.at = "find", !.pos = imp.pos + 1]
         ELSE [Off EXCEPT !.at = "audit"]
Report(what) == outcome' = [outcome EXCEPT ![imp.pos] = what]

StartImport ==
  /\ imp.at = "off" /\ imports < MaxImports
  /\ imp' = [Off EXCEPT !.at = "ensure", !.pos = 1]
  /\ outcome' = [r \in Record |-> "none"]
  /\ imports' = imports + 1
  /\ UNCHANGED <<items, colls, clean, edits>>

(* Every page of the collections is read; a missing one is created.        *)
EnsureCollection ==
  /\ imp.at = "ensure"
  /\ colls' = colls \union {Collection[imp.pos]}
  /\ imp' = IF imp.pos < Len(Collection) THEN [imp EXCEPT !.pos = @ + 1]
            ELSE [Off EXCEPT !.at = "find", !.pos = 1]
  /\ UNCHANGED <<items, outcome, clean, edits, imports>>

(* Searches of the local library see the items that are shown.             *)
Visible(r) == {i \in Item : items[i].of = r /\ items[i].shown}

FindExisting(i) ==
  /\ imp.at = "find"
  /\ i \in Visible(imp.pos)
  /\ IF items[i].pdf
     THEN /\ imp' = [imp EXCEPT !.at = "get", !.item = i]
          /\ UNCHANGED outcome
     ELSE NextRecord /\ Report("skipped")
  /\ UNCHANGED <<items, colls, clean, edits, imports>>

(* saveItems creates the item; its answer may be lost, which is an error.  *)
SaveItem(i, answered) ==
  /\ imp.at = "find" /\ Visible(imp.pos) = {}
  /\ imp.pos \notin Invalid
  /\ items[i] = NoItem
  /\ items' = [items EXCEPT ![i] = NewItem(imp.pos)]
  /\ IF answered THEN /\ imp' = [imp EXCEPT !.at = "attach", !.item = i]
                      /\ UNCHANGED outcome
     ELSE NextRecord /\ Report("error")
  /\ UNCHANGED <<colls, clean, edits, imports>>

SaveAttachment(answered) ==
  /\ imp.at = "attach"
  /\ items' = [items EXCEPT ![imp.item].pdf = TRUE]
  /\ IF answered THEN Go("wait") /\ UNCHANGED outcome
     ELSE NextRecord /\ Report("error")
  /\ UNCHANGED <<colls, clean, edits, imports>>

(* The script waits for the new item to be shown. *)
WaitForItem(i) ==
  /\ imp.at = "wait"
  /\ i \in Visible(imp.pos) /\ items[i].pdf
  /\ imp' = [imp EXCEPT !.at = "get", !.item = i]
  /\ UNCHANGED <<items, colls, outcome, clean, edits, imports>>

GetItem ==
  /\ imp.at = "get"
  /\ items[imp.item].synced
  /\ imp' = [imp EXCEPT !.at = "put", !.data = items[imp.item].data]
  /\ UNCHANGED <<items, colls, outcome, clean, edits, imports>>

(* Mutant: PUT without If-Unmodified-Since-Version. *)
MutUnmodified == TRUE

Unmodified == items[imp.item].data.version = imp.data.version

Filed(data) == [data EXCEPT !.in = @ \union Destination[imp.pos], !.version = @ + 1]

PutItem ==
  /\ imp.at = "put"
  /\ Unmodified
  /\ items' = [items EXCEPT ![imp.item].data = Filed(imp.data)]
  /\ NextRecord /\ Report("filed")
  /\ UNCHANGED <<colls, clean, edits, imports>>

(* Mutant: the last failed attempt is not reported. *)
MutAfterLast == "filed"

AfterLast == "error"

(* A failed request of classify, among them a PUT that is refused for its  *)
(* version, and one that was done but not answered: another attempt.       *)
ClassifyFails(done) ==
  /\ imp.at \in {"get", "put"}
  /\ done => imp.at = "put" /\ Unmodified
  /\ items' = IF done THEN [items EXCEPT ![imp.item].data = Filed(imp.data)] ELSE items
  /\ IF imp.tries + 1 < Retries
     THEN /\ imp' = [imp EXCEPT !.at = "get", !.tries = @ + 1]
          /\ UNCHANGED outcome
     ELSE NextRecord /\ Report(AfterLast)
  /\ UNCHANGED <<colls, clean, edits, imports>>

(* Mutant: a record that failed is counted as one without a PDF. *)
MutRecordFails ==
  /\ imp.at \in {"find", "attach", "wait"}
  /\ NextRecord /\ Report("skipped")
  /\ UNCHANGED <<items, colls, clean, edits, imports>>

(* A search, an upload or the wait fails, or the PDF is not valid.         *)
RecordFails ==
  /\ imp.at \in {"find", "attach", "wait"}
  /\ NextRecord /\ Report("error")
  /\ UNCHANGED <<items, colls, clean, edits, imports>>

WriteAudit ==
  /\ imp.at = "audit"
  /\ imp' = Off
  /\ clean' = (clean /\ \A r \in Record : outcome[r] # "error")
  /\ UNCHANGED <<items, colls, outcome, edits, imports>>

(* Stopped, or a request about the collections fails, which is not caught: *)
(* no audit is written.                                                    *)
StopImport ==
  /\ imp.at # "off"
  /\ imp' = Off /\ clean' = FALSE
  /\ outcome' = [r \in Record |-> "none"]
  /\ UNCHANGED <<items, colls, edits, imports>>

ZoteroNext ==
  \/ \E i \in 1..MaxItems : ShowItem(i) \/ SyncItem(i) \/ EditItem(i)
  \/ StartImport
  \/ EnsureCollection
  \/ \E i \in 1..MaxItems : FindExisting(i) \/ WaitForItem(i)
  \/ \E i \in 1..MaxItems, answered \in BOOLEAN : SaveItem(i, answered)
  \/ \E answered \in BOOLEAN : SaveAttachment(answered)
  \/ GetItem
  \/ PutItem
  \/ \E done \in BOOLEAN : ClassifyFails(done)
  \/ RecordFails
  \/ WriteAudit
  \/ StopImport

ZoteroSpec == ZoteroInit /\ [][ZoteroNext]_zoteroVars

-----------------------------------------------------------------------------
(* An edit that a person makes in the web library is never overwritten by  *)
(* classify, which writes back the whole item it read before.              *)
EditsSurvive ==
  [][\A i \in Item : items'[i].data.notes >= items[i].data.notes]_zoteroVars

(* A record in an audit written without an error is in its collections     *)
(* with a PDF, unless it was skipped because its item had none.            *)
FiledMeansFiled ==
  \A r \in Record : outcome[r] = "filed" =>
    \E i \in Item : /\ items[i].of = r /\ items[i].pdf
                    /\ Destination[r] \subseteq items[i].data.in \intersect colls

(* Runs without errors can be repeated: each record stays one item, even   *)
(* though a new item is not shown at once.  After an error or a stopped    *)
(* run this does not hold.                                                 *)
OneItemPerRecord ==
  clean /\ imp.at \in {"off", "audit"} /\ (\A r \in Record : outcome[r] # "error") =>
    \A i, j \in Item : items[i].of = items[j].of => i = j
=============================================================================
