---------------------------- MODULE CnkiDownload ----------------------------
(***************************************************************************)
(* verify_cnki_download.py: snapshot lists the download directory, and     *)
(* after a person has saved a file with a browser, verify picks the newest *)
(* file that is not in the list, checks it, and copies it to an archive.   *)
(* The browser goes on writing, and files can be removed, while verify     *)
(* reads the file again for each check.                                    *)
(*                                                                         *)
(* A content is a paper and how much of it is there.  The minimum size and *)
(* the similarity of name and title refuse some files and say nothing of   *)
(* the rest: both may hold or not.                                         *)
(***************************************************************************)
EXTENDS Integers

CONSTANTS
  Name,      \* file names in the download directory
  PdfName,   \* names that end with .pdf; the others end with .caj
  Paper,     \* documents
  MaxTime,   \* bound on the changes of the directory
  MaxCopies  \* bound on the archived files of one name

ASSUME CnkiAssumption == PdfName \subseteq Name

VARIABLES
  downloads, \* name -> the content and time of the last change
  clock,     \* time of the last change
  snapshot,  \* the listing of the last snapshot: name -> time
  verifier,  \* the run of verify: place, file, hash, destination
  archive,   \* archived file -> its content
  results    \* reports of fulltext-verified: archived file and hash

cnkiVars == <<downloads, clock, snapshot, verifier, archive, results>>

Whole == 3
Content == [paper : Paper, part : 0..Whole]
Nothing == [paper |-> "none", part |-> 0]
Absent == [content |-> Nothing, time |-> 0]
Present(f) == downloads[f].content # Nothing
Slot == Name \X (1..MaxCopies)
NoSlot == <<"none", 0>>
Resting == [at |-> "idle", file |-> "none", hash |-> Nothing, to |-> NoSlot]

CnkiInit ==
  /\ downloads = [f \in Name |-> Absent]
  /\ clock = 0
  /\ snapshot = [f \in Name |-> 0]
  /\ verifier = Resting
  /\ archive = [s \in Slot |-> Nothing]
  /\ results = {}

-----------------------------------------------------------------------------
(* The browser and the person who uses it. *)
ChangeFile(f, content) ==
  /\ clock < MaxTime
  /\ clock' = clock + 1
  /\ downloads' = [downloads EXCEPT ![f] = [content |-> content, time |-> clock']]
  /\ UNCHANGED <<snapshot, verifier, archive, results>>

(* Not the hashed paper again while it is verified: two downloads of it    *)
(* would have to break off at the same byte to be taken for each other.    *)
BeginDownload(f, p) ==
  /\ ~Present(f) /\ p # verifier.hash.paper
  /\ ChangeFile(f, [paper |-> p, part |-> 1])
ContinueDownload(f) ==
  /\ Present(f)
  /\ \E n \in downloads[f].content.part + 1 .. Whole :
       ChangeFile(f, [downloads[f].content EXCEPT !.part = n])
RemoveFile(f) ==
  /\ Present(f)
  /\ downloads' = [downloads EXCEPT ![f] = Absent]
  /\ UNCHANGED <<clock, snapshot, verifier, archive, results>>

-----------------------------------------------------------------------------
TakeSnapshot ==
  /\ verifier.at = "idle"
  /\ snapshot' = [f \in Name |-> downloads[f].time]
  /\ UNCHANGED <<downloads, clock, verifier, archive, results>>

Changed == {f \in Name : Present(f) /\ snapshot[f] # downloads[f].time}

SelectCandidate(f) ==
  /\ verifier.at = "idle"
  /\ f \in Changed /\ \A g \in Changed : downloads[g].time <= downloads[f].time
  /\ verifier' = [Resting EXCEPT !.at = "hash", !.file = f]
  /\ UNCHANGED <<downloads, clock, snapshot, archive, results>>

Source == downloads[verifier.file].content

HashFile ==
  /\ verifier.at = "hash" /\ Present(verifier.file)
  /\ verifier' = [verifier EXCEPT !.at = "check", !.hash = Source]
  /\ UNCHANGED <<downloads, clock, snapshot, archive, results>>

(* The PDF check wants the signature, the end marker and two pages, the    *)
(* CAJ check only the signature.                                           *)
CheckFile ==
  /\ verifier.at = "check" /\ Present(verifier.file)
  /\ verifier.file \in PdfName => Source.part = Whole
  /\ verifier' = [verifier EXCEPT !.at = "archive"]
  /\ UNCHANGED <<downloads, clock, snapshot, archive, results>>

(* The name itself if it is free or holds the same file, or the first free *)
(* name with a number.                                                     *)
UniqueDestination(s) ==
  LET held(n) == archive[<<verifier.file, n>>] IN
  /\ s[1] = verifier.file
  /\ \/ s[2] = 1 /\ held(1) \in {Nothing, Source}
     \/ /\ held(1) \notin {Nothing, Source}
        /\ s[2] > 1 /\ held(s[2]) = Nothing
        /\ \A n \in 2..s[2] - 1 : held(n) # Nothing

ChooseDestination(s) ==
  /\ verifier.at = "archive" /\ Present(verifier.file)
  /\ UniqueDestination(s)
  /\ verifier' = [verifier EXCEPT !.at = "copy", !.to = s]
  /\ UNCHANGED <<downloads, clock, snapshot, archive, results>>

(* An existing destination is not copied to; a copy that is interrupted    *)
(* leaves a part of the file.                                              *)
CopyFile(all) ==
  /\ verifier.at = "copy"
  /\ archive[verifier.to] = Nothing /\ Present(verifier.file)
  /\ archive' = [archive EXCEPT ![verifier.to] = [Source EXCEPT !.part = IF all THEN @ ELSE 0]]
  /\ verifier' = IF all THEN [verifier EXCEPT !.at = "compare"] ELSE Resting
  /\ UNCHANGED <<downloads, clock, snapshot, results>>

KeepCopy ==
  /\ verifier.at = "copy"
  /\ archive[verifier.to] # Nothing
  /\ verifier' = [verifier EXCEPT !.at = "compare"]
  /\ UNCHANGED <<downloads, clock, snapshot, archive, results>>

(* Mutant: the archive copy is compared with the download. *)
MutHashMatches == archive[verifier.to] = Source

HashMatches == archive[verifier.to] = verifier.hash

VerifyCopy ==
  /\ verifier.at = "compare"
  /\ HashMatches
  /\ results' = results \union {[to |-> verifier.to, hash |-> verifier.hash]}
  /\ verifier' = Resting
  /\ UNCHANGED <<downloads, clock, snapshot, archive>>

(* Nothing new, a failed check, a hash mismatch, a file that is gone, or   *)
(* the end of the process: needs-human or no report.                       *)
VerifyStops ==
  /\ verifier.at # "idle"
  /\ verifier' = Resting
  /\ UNCHANGED <<downloads, clock, snapshot, archive, results>>

CnkiNext ==
  \/ \E f \in Name, p \in Paper : BeginDownload(f, p)
  \/ \E f \in Name : ContinueDownload(f) \/ RemoveFile(f) \/ SelectCandidate(f)
  \/ TakeSnapshot
  \/ HashFile
  \/ CheckFile
  \/ \E s \in Slot : ChooseDestination(s)
  \/ \E all \in BOOLEAN : CopyFile(all)
  \/ KeepCopy
  \/ VerifyCopy
  \/ VerifyStops

CnkiSpec == CnkiInit /\ [][CnkiNext]_cnkiVars

-----------------------------------------------------------------------------
(* Every archived file a report calls fulltext-verified still has the      *)
(* content whose hash the report gives, and a PDF is a whole one, although *)
(* the browser changes the download between the hash, the checks and the   *)
(* copy, which are separate reads.                                         *)
VerifiedIsWhole ==
  \A r \in results :
    /\ archive[r.to] = r.hash
    /\ r.to[1] \in PdfName => r.hash.part = Whole
=============================================================================
