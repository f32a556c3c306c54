----------------------------- MODULE OpenAccess -----------------------------
(***************************************************************************)
(* resolve_open_access.py: asks Crossref, OpenAlex and (with a contact     *)
(* address) Unpaywall where a work can be read, scores and merges the      *)
(* answers, and tries to download an open PDF.  The script is run again    *)
(* and again over one download directory, and may be stopped at any step.  *)
(*                                                                         *)
(* A URL is a number, which stands for its place in the order of strings;  *)
(* a file of the directory is the number its name ends with.               *)
(***************************************************************************)
EXTENDS Integers, Sequences, FiniteSets, SequencesExt

CONSTANTS
  Url,       \* URLs of the answers
  Key,       \* URL -> the URL without trailing slashes
  Secure,    \* URLs that begin with https://
  PdfNamed,  \* URLs whose path ends with .pdf
  Answers,   \* provider -> what it may answer: sequences of locations
  MaxFiles,  \* bound on the files of the download directory
  MaxRuns    \* bound on the runs of the script

Provider == <<"crossref", "openalex", "unpaywall">>
NoUrl == 0
Location == [pdf : Url \union {NoUrl}, landing : Url \union {NoUrl},
             kind : {"landing-page", "unknown"}, oa : {"yes", "no", "unsaid"},
             version : {"published", "other", "unsaid"}, license : BOOLEAN]

ASSUME OpenAccessAssumption ==
  /\ Url \subseteq Nat \ {NoUrl}
  /\ Key \in [Url -> Url] /\ Secure \subseteq Url /\ PdfNamed \subseteq Url
  /\ \A u, v \in Url : Key[u] = Key[v] => (u \in Secure <=> v \in Secure)
  /\ \A p \in ToSet(Provider) : Answers[p] \subseteq Seq(Location)

VARIABLES
  found,    \* candidates of this run, in the order of the answers
  oaAt,     \* "ask", "download", "write", "report" or "idle"
  asked,    \* providers asked
  queue,    \* candidates not yet considered for the download
  tries,    \* downloads attempted
  got,      \* the verified file of this run: [file, url]
  folder,   \* file of the download directory -> Missing, Partial or the PDF of a URL
  reported, \* verified files of all reports so far
  oaRuns    \* runs begun

oaVars == <<found, oaAt, asked, queue, tries, got, folder, reported, oaRuns>>

Missing == [is |-> "missing", url |-> NoUrl]
Partial == [is |-> "partial", url |-> NoUrl]
Pdf(url) == [is |-> "pdf", url |-> url]
NoFile == [file |-> 0, url |-> NoUrl]

OpenAccessInit ==
  /\ found = <<>> /\ queue = <<>> /\ tries = 0 /\ got = NoFile
  /\ oaAt = "idle" /\ asked = 0 /\ oaRuns = 0
  /\ folder = [n \in 1..MaxFiles |-> Missing]
  /\ reported = {}

-----------------------------------------------------------------------------
(* Mutant: a PDF weighs no more than the other attributes. *)
MutScore(row) ==
    (IF row.url \in Secure THEN 2 ELSE 0) + (IF row.kind = "pdf" THEN 3 ELSE 0)
  + (IF row.oa = "yes" THEN 6 ELSE 0) + (IF row.license THEN 2 ELSE 0)
  + (CASE row.version = "published" -> 2 [] row.version = "other" -> 1 [] OTHER -> 0)

Score(row) ==
    (IF row.url \in Secure THEN 2 ELSE 0) + (IF row.kind = "pdf" THEN 5 ELSE 0)
  + (IF row.oa = "yes" THEN 6 ELSE 0) + (IF row.license THEN 2 ELSE 0)
  + (CASE row.version = "published" -> 2 [] row.version = "other" -> 1 [] OTHER -> 0)

Candidate(source, url, kind, loc) ==
  [source |-> source, url |-> url, oa |-> loc.oa, version |-> loc.version,
   license |-> loc.license,
   kind |-> IF kind = "unknown" /\ url \in PdfNamed THEN "pdf" ELSE kind]

(* What a provider's location adds.  Unpaywall lists open locations only.  *)
Rows(source, location) ==
  LET loc == IF source = "unpaywall" /\ location.oa = "unsaid"
             THEN [location EXCEPT !.oa = "yes"] ELSE location
      row(url, kind) == IF url = NoUrl THEN <<>>
                        ELSE <<Candidate(source, url, kind, loc)>>
  IN row(loc.pdf, "pdf") \o row(loc.landing, loc.kind)

Parsed(source, answer) == FlattenSeq([i \in DOMAIN answer |-> Rows(source, answer[i])])

SourceRank(source) == CHOOSE i \in DOMAIN Provider : Provider[i] = source

(* The first of the rows of a URL that no other row outscores.             *)
BestRows(rows) ==
  LET best(i) == \A j \in DOMAIN rows :
                   Key[rows[j].url] = Key[rows[i].url]
                     => /\ Score(rows[j]) <= Score(rows[i])
                        /\ (j < i => Score(rows[j]) < Score(rows[i]))
  IN {rows[i] : i \in {k \in DOMAIN rows : best(k)}}

RowBefore(r, s) ==
  \/ Score(r) > Score(s)
  \/ Score(r) = Score(s) /\ SourceRank(r.source) < SourceRank(s.source)
  \/ Score(r) = Score(s) /\ r.source = s.source /\ r.url < s.url

(* One row for each URL, sorted: the n-th has n - 1 of the others before.  *)
Deduplicate(rows) ==
  [n \in 1..Cardinality(BestRows(rows)) |->
     CHOOSE r \in BestRows(rows) :
       Cardinality({s \in BestRows(rows) : RowBefore(s, r)}) = n - 1]

OpenPdf(row) == row.kind = "pdf" /\ row.oa = "yes"

-----------------------------------------------------------------------------
StartResolver ==
  /\ oaAt = "idle" /\ oaRuns < MaxRuns
  /\ oaAt' = "ask" /\ asked' = 0 /\ oaRuns' = oaRuns + 1
  /\ found' = <<>> /\ tries' = 0 /\ got' = NoFile
  /\ UNCHANGED <<queue, folder, reported>>

(* The rows of the next provider: after the last one the answers are       *)
(* merged, and with --download-dir the download begins.                    *)
Ask(rows) ==
  /\ oaAt = "ask"
  /\ asked' = asked + 1
  /\ found' = found \o rows
  /\ IF asked' < Len(Provider) THEN UNCHANGED <<oaAt, queue>>
     ELSE oaAt' \in {"download", "report"} /\ queue' = Deduplicate(found')
  /\ UNCHANGED <<tries, got, folder, reported, oaRuns>>

(* The request fails, the answer cannot be read, or Unpaywall is skipped   *)
(* without a contact address: only the attempt is recorded.                *)
ProviderFails == Ask(<<>>)

ProviderAnswers ==
  LET provider == Provider[asked + 1]
  IN oaAt = "ask" /\ \E answer \in Answers[provider] : Ask(Parsed(provider, answer))

GiveUp ==
  /\ oaAt = "download"
  /\ queue = <<>> \/ tries = 3
  /\ oaAt' = "report"
  /\ UNCHANGED <<found, asked, queue, tries, got, folder, reported, oaRuns>>

SkipClosed ==
  /\ oaAt = "download" /\ queue # <<>> /\ tries < 3
  /\ ~OpenPdf(Head(queue))
  /\ queue' = Tail(queue)
  /\ UNCHANGED <<found, asked, oaAt, tries, got, folder, reported, oaRuns>>

(* Blocked, failed, too large, or not a PDF. *)
FetchFails ==
  /\ oaAt = "download" /\ queue # <<>> /\ tries < 3
  /\ OpenPdf(Head(queue))
  /\ queue' = Tail(queue) /\ tries' = tries + 1
  /\ UNCHANGED <<found, asked, oaAt, got, folder, reported, oaRuns>>

(* Mutant: the name of the work is used whether or not the file exists. *)
MutFreeFile(n) == n = 1

FreeFile(n) == folder[n] = Missing /\ \A m \in 1..n - 1 : folder[m] # Missing

(* Opening the file for writing creates it. *)
FetchPdf(n) ==
  /\ oaAt = "download" /\ queue # <<>> /\ tries < 3
  /\ OpenPdf(Head(queue))
  /\ FreeFile(n)
  /\ folder' = [folder EXCEPT ![n] = Partial]
  /\ got' = [file |-> n, url |-> Head(queue).url]
  /\ queue' = Tail(queue) /\ tries' = tries + 1
  /\ oaAt' = "write"
  /\ UNCHANGED <<found, asked, reported, oaRuns>>

WriteFails ==
  /\ oaAt = "write"
  /\ oaAt' = "download" /\ got' = NoFile
  /\ UNCHANGED <<found, asked, queue, tries, folder, reported, oaRuns>>

WriteFile ==
  /\ oaAt = "write"
  /\ folder' = [folder EXCEPT ![got.file] = Pdf(got.url)]
  /\ oaAt' = "report"
  /\ UNCHANGED <<found, asked, queue, tries, got, reported, oaRuns>>

WriteReport ==
  /\ oaAt = "report"
  /\ oaAt' = "idle"
  /\ reported' = reported \union ({got} \ {NoFile})
  /\ UNCHANGED <<found, asked, queue, tries, got, folder, oaRuns>>

(* The process ends, or an exception escapes (an answer of another shape). *)
StopResolver ==
  /\ oaAt # "idle"
  /\ oaAt' = "idle" /\ got' = NoFile
  /\ UNCHANGED <<found, asked, queue, tries, folder, reported, oaRuns>>

OpenAccessNext ==
  \/ StartResolver
  \/ ProviderFails
  \/ ProviderAnswers
  \/ GiveUp
  \/ SkipClosed
  \/ FetchFails
  \/ \E n \in 1..MaxFiles : FetchPdf(n)
  \/ WriteFails
  \/ WriteFile
  \/ WriteReport
  \/ StopResolver

OpenAccessSpec == OpenAccessInit /\ [][OpenAccessNext]_oaVars

-----------------------------------------------------------------------------
(* Merging never loses the open PDF of a URL to another description of the *)
(* same URL, whatever its licence and version: the scores of candidate and *)
(* the comparison of deduplicate, which only the chosen weights reconcile. *)
OpenPdfSurvives ==
  oaAt \in {"download", "report"} =>
    \A i \in DOMAIN found : OpenPdf(found[i]) =>
      \E row \in ToSet(Deduplicate(found)) :
        OpenPdf(row) /\ Key[row.url] = Key[found[i].url]

(* A file some report calls verified keeps the PDF it was verified with:   *)
(* neither a later run, nor a failed write, nor a stopped run touches it.  *)
VerifiedFileIntact == \A r \in reported : folder[r.file] = Pdf(r.url)
=============================================================================
