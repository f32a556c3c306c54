----------------------------- MODULE SkillProofs -----------------------------
(***************************************************************************)
(* The scripts that collect literature and run estimations, for any        *)
(* failures, stopped runs and people at work in the same places: the       *)
(* resolver of open access PDFs, the check of downloads from CNKI, the     *)
(* import into Zotero, the empirical runs of the replication skill, and    *)
(* the checks before an estimation.                                        *)
(***************************************************************************)
EXTENDS OpenAccess, CnkiDownload, ZoteroImport, EmpiricalRun, MethodPreflight, InductionLemmas

(***************************************************************************)
(* OpenAccess.  A file of the directory is free only while it is missing,  *)
(* so the one that is being written is in no report yet.                   *)
(***************************************************************************)
FileInHand(is) == got.file \in 1..MaxFiles /\ folder[got.file] = is

OpenAccessInv ==
  /\ DOMAIN folder = 1..MaxFiles
  /\ oaAt = "write" => FileInHand(Partial)
  /\ oaAt = "report" /\ got # NoFile => FileInHand(Pdf(got.url))
  /\ oaAt \in {"ask", "download"} => got = NoFile
  /\ \A r \in reported : r.file \in 1..MaxFiles
  /\ VerifiedFileIntact

LEMMA FilesDiffer == \A url : Pdf(url) # Missing /\ Pdf(url) # Partial
<1> SUFFICES ASSUME NEW url PROVE Pdf(url) # Missing /\ Pdf(url) # Partial
  OBVIOUS
<1>1. Pdf(url).is = "pdf" /\ Missing.is = "missing" /\ Partial.is = "partial"
  BY DEF Pdf, Missing, Partial
<1> QED BY <1>1

LEMMA OpenAccessInvNext == OpenAccessInv /\ [OpenAccessNext]_oaVars => OpenAccessInv'
<1> SUFFICES ASSUME OpenAccessInv, [OpenAccessNext]_oaVars PROVE OpenAccessInv'
  OBVIOUS
<1> USE DEF OpenAccessInv, VerifiedFileIntact, FileInHand
<1>1. CASE UNCHANGED oaVars
  BY <1>1 DEF oaVars
<1>2. CASE StartResolver
  BY <1>2 DEF StartResolver
<1>3. ASSUME NEW rows, Ask(rows) PROVE OpenAccessInv'
  BY <1>3 DEF Ask
<1>4. CASE GiveUp \/ SkipClosed \/ FetchFails
  BY <1>4 DEF GiveUp, SkipClosed, FetchFails
<1>5. ASSUME NEW n \in 1..MaxFiles, FetchPdf(n) PROVE OpenAccessInv'
  <2>1. folder[n] = Missing /\ folder' = [folder EXCEPT ![n] = Partial]
    BY <1>5 DEF FetchPdf, FreeFile
  <2>2. got'.file = n /\ oaAt' = "write" /\ reported' = reported
    BY <1>5 DEF FetchPdf
  <2>3. \A r \in reported : r.file # n
    BY <2>1, FilesDiffer
  <2> QED BY <2>1, <2>2, <2>3
<1>6. CASE WriteFails
  BY <1>6 DEF WriteFails
<1>7. CASE WriteFile
  <2>1. \A r \in reported : r.file # got.file
    BY <1>7, FilesDiffer DEF WriteFile
  <2> QED BY <1>7, <2>1 DEF WriteFile
<1>8. CASE WriteReport
  BY <1>8 DEF WriteReport
<1>9. CASE StopResolver
  BY <1>9 DEF StopResolver
<1> QED BY <1>1, <1>2, <1>3, <1>4, <1>5, <1>6, <1>7, <1>8, <1>9
        DEF OpenAccessNext, ProviderFails, ProviderAnswers

(* A file some report calls verified keeps the PDF it was verified with,   *)
(* however often the resolver is run over its directory, and wherever it   *)
(* is stopped.                                                             *)
THEOREM VerifiedFilesStay == OpenAccessSpec => []VerifiedFileIntact
<1>1. OpenAccessInit => OpenAccessInv
  BY DEF OpenAccessInit, OpenAccessInv, VerifiedFileIntact
<1>2. OpenAccessInv => VerifiedFileIntact
  BY DEF OpenAccessInv
<1> QED BY <1>1, <1>2, OpenAccessInvNext, PTL DEF OpenAccessSpec

(***************************************************************************)
(* The merge of the answers.  The weights of candidate put an open PDF     *)
(* above every other description of its URL, whose scheme is the same; so  *)
(* the row that deduplicate keeps of the URL is an open PDF, and sorting   *)
(* drops none of the rows that were kept.                                  *)
(***************************************************************************)
Row == [source : ToSet(Provider), url : Url, oa : {"yes", "no", "unsaid"},
        version : {"published", "other", "unsaid"}, license : BOOLEAN,
        kind : {"pdf", "landing-page", "unknown"}]

LEMMA Providers ==
  /\ ToSet(Provider) = {"crossref", "openalex", "unpaywall"}
  /\ Len(Provider) = 3 /\ DOMAIN Provider = 1..3
  /\ \A n \in 1..3 : Provider[n] \in ToSet(Provider)
BY DEF Provider, ToSet

LEMMA CandidateTyped ==
  ASSUME NEW source \in ToSet(Provider), NEW url \in Url, NEW loc \in Location,
         NEW kind \in {"pdf", "landing-page", "unknown"}
  PROVE  Candidate(source, url, kind, loc) \in Row
BY DEF Candidate, Row, Location

LEMMA RowsTyped ==
  ASSUME NEW source \in ToSet(Provider), NEW location \in Location
  PROVE  Rows(source, location) \in Seq(Row)
<1> DEFINE loc == IF source = "unpaywall" /\ location.oa = "unsaid"
                  THEN [location EXCEPT !.oa = "yes"] ELSE location
           row(url, kind) == IF url = NoUrl THEN <<>>
                             ELSE <<Candidate(source, url, kind, loc)>>
<1>1. loc \in Location
  BY DEF Location
<1>2. /\ loc.pdf \in Url \union {NoUrl} /\ loc.landing \in Url \union {NoUrl}
      /\ loc.kind \in {"pdf", "landing-page", "unknown"}
  BY <1>1 DEF Location
<1> HIDE DEF loc
<1>3. ASSUME NEW url \in Url \union {NoUrl}, NEW kind \in {"pdf", "landing-page", "unknown"}
      PROVE  row(url, kind) \in Seq(Row)
  BY <1>1, CandidateTyped
<1>4. Rows(source, location) = row(loc.pdf, "pdf") \o row(loc.landing, loc.kind)
  BY DEF Rows, loc
<1> HIDE DEF row
<1> QED BY <1>2, <1>3, <1>4

LEMMA ParsedTyped ==
  ASSUME NEW source \in ToSet(Provider), NEW answer \in Seq(Location)
  PROVE  Parsed(source, answer) \in Seq(Row)
<1> DEFINE lists == [i \in DOMAIN answer |-> Rows(source, answer[i])]
<1>1. lists \in Seq(Seq(Row))
  <2>1. \A i \in 1..Len(answer) : Rows(source, answer[i]) \in Seq(Row)
    BY RowsTyped
  <2>2. DOMAIN answer = 1..Len(answer) /\ Len(answer) \in Nat
    OBVIOUS
  <2> HIDE DEF lists
  <2>3. lists = [i \in 1..Len(answer) |-> Rows(source, answer[i])]
    BY <2>2 DEF lists
  <2> QED BY <2>1, <2>2, <2>3
<1> HIDE DEF lists
<1>2. Parsed(source, answer) = FlattenSeq(lists)
  BY DEF Parsed, lists
<1> QED BY <1>1, <1>2, FlattenTyped

(* The weights of candidate add up to at most 17.                           *)
LEMMA ScoreTyped == \A row \in Row : Score(row) \in Nat /\ Score(row) <= 17
<1> SUFFICES ASSUME NEW row \in Row PROVE Score(row) \in Nat /\ Score(row) <= 17
  OBVIOUS
<1>1. (CASE row.version = "published" -> 2 [] row.version = "other" -> 1 [] OTHER -> 0) \in 0..2
  OBVIOUS
<1> QED BY <1>1 DEF Score

(* The weights: an open PDF outscores any other description of its URL.    *)
LEMMA OpenPdfOutscores ==
  ASSUME NEW r \in Row, NEW s \in Row, Key[r.url] = Key[s.url],
         OpenPdf(r), ~OpenPdf(s)
  PROVE  Score(s) < Score(r)
<1> DEFINE version(row) ==
             CASE row.version = "published" -> 2 [] row.version = "other" -> 1 [] OTHER -> 0
           scheme(row) == IF row.url \in Secure THEN 2 ELSE 0
<1>1. scheme(r) = scheme(s) /\ scheme(r) \in 0..2
  BY OpenAccessAssumption DEF Row
<1>2. version(r) \in 0..2 /\ version(s) \in 0..2
  OBVIOUS
<1>3. \A row \in Row : Score(row) = scheme(row) + (IF row.kind = "pdf" THEN 5 ELSE 0)
          + (IF row.oa = "yes" THEN 6 ELSE 0) + (IF row.license THEN 2 ELSE 0) + version(row)
  BY DEF Score
<1> HIDE DEF version, scheme
<1> QED BY <1>1, <1>2, <1>3 DEF OpenPdf

(* Of the rows of a URL one is best.                                       *)
LEMMA BestExists ==
  ASSUME NEW rows \in Seq(Row), NEW i \in DOMAIN rows
  PROVE  \E row \in BestRows(rows) :
           Key[row.url] = Key[rows[i].url] /\ Score(rows[i]) <= Score(row)
<1> DEFINE same == {k \in DOMAIN rows : Key[rows[k].url] = Key[rows[i].url]}
           scores == {Score(rows[k]) : k \in same}
<1>1. DOMAIN rows = 1..Len(rows) /\ \A k \in DOMAIN rows : rows[k] \in Row
  OBVIOUS
<1>2. \A k \in same : Score(rows[k]) \in Nat /\ Score(rows[k]) <= 17
  BY <1>1, ScoreTyped
<1>3. PICK top \in scores : \A score \in scores : score <= top
  <2>1. ASSUME NEW score \in scores PROVE score \in 0..17
    <3>1. PICK k \in same : score = Score(rows[k])
      OBVIOUS
    <3>2. score \in Nat /\ score <= 17
      BY <1>2, <3>1
    <3> QED BY <3>2
  <2>2. Score(rows[i]) \in scores
    OBVIOUS
  <2> HIDE DEF scores
  <2>3. scores \in SUBSET (0..17) /\ scores # {} /\ 17 \in Nat
    BY <2>1, <2>2
  <2> QED BY <2>3, GreatestNatural
<1> DEFINE tops == {k \in same : Score(rows[k]) = top}
<1>4. PICK k \in tops : \A j \in tops : k <= j
  <2>1. tops # {} /\ tops \subseteq Nat
    BY <1>1, <1>3
  <2> HIDE DEF tops
  <2> QED BY <2>1, LeastNatural
<1>5. \A j \in same : Score(rows[j]) <= top
  BY <1>3
<1>6. ASSUME NEW j \in DOMAIN rows, Key[rows[j].url] = Key[rows[k].url]
      PROVE  /\ Score(rows[j]) <= Score(rows[k])
             /\ (j < k => Score(rows[j]) < Score(rows[k]))
  <2>1. j \in same /\ Score(rows[j]) <= top /\ Score(rows[k]) = top
    BY <1>4, <1>5, <1>6
  <2>2. ASSUME j < k PROVE Score(rows[j]) # top
    BY <1>1, <1>4, <2>1, <2>2
  <2>3. Score(rows[j]) \in Nat /\ Score(rows[k]) \in Nat
    BY <1>2, <2>1, <1>4
  <2> HIDE DEF same, scores, tops
  <2> QED BY <2>1, <2>2, <2>3
<1>7. rows[k] \in BestRows(rows)
  BY <1>4, <1>6 DEF BestRows
<1> QED BY <1>4, <1>5, <1>7

(* No URL has two best rows.                                               *)
LEMMA BestRowsApart ==
  ASSUME NEW rows \in Seq(Row), NEW r \in BestRows(rows), NEW s \in BestRows(rows),
         Key[r.url] = Key[s.url]
  PROVE  r = s
<1> DEFINE best(i) == \A j \in DOMAIN rows :
                        Key[rows[j].url] = Key[rows[i].url]
                          => /\ Score(rows[j]) <= Score(rows[i])
                             /\ (j < i => Score(rows[j]) < Score(rows[i]))
<1>1. PICK i \in DOMAIN rows : r = rows[i] /\ best(i)
  BY DEF BestRows
<1>2. PICK k \in DOMAIN rows : s = rows[k] /\ best(k)
  BY DEF BestRows
<1>3. i \in Nat /\ k \in Nat /\ rows[i] \in Row /\ rows[k] \in Row
  OBVIOUS
<1>4. Score(rows[i]) \in Nat /\ Score(rows[k]) \in Nat
  BY <1>3, ScoreTyped
<1>5. /\ Score(rows[k]) <= Score(rows[i]) /\ (k < i => Score(rows[k]) < Score(rows[i]))
      /\ Score(rows[i]) <= Score(rows[k]) /\ (i < k => Score(rows[i]) < Score(rows[k]))
  BY <1>1, <1>2
<1>6. i = k
  <2> HIDE DEF best
  <2> QED BY <1>3, <1>4, <1>5
<1> QED BY <1>1, <1>2, <1>6

LEMMA BestRowsTyped ==
  ASSUME NEW rows \in Seq(Row)
  PROVE  BestRows(rows) \subseteq Row /\ IsFiniteSet(BestRows(rows))
<1>1. DOMAIN rows = 1..Len(rows) /\ Len(rows) \in Nat /\ \A k \in DOMAIN rows : rows[k] \in Row
  OBVIOUS
<1>2. BestRows(rows) \subseteq {rows[k] : k \in 1..Len(rows)}
  BY <1>1 DEF BestRows
<1>3. IsFiniteSet({rows[k] : k \in 1..Len(rows)})
  <2> DEFINE image == {rows[k] : k \in 1..Len(rows)}
  <2>1. rows \in Surjection(1..Len(rows), image)
    BY <1>1 DEF Surjection
  <2>2. IsFiniteSet(1..Len(rows))
    BY <1>1, FS_Interval
  <2> HIDE DEF image
  <2>3. IsFiniteSet(image)
    BY <2>1, <2>2, FS_Surjection
  <2> QED BY <2>3 DEF image
<1> QED BY <1>1, <1>2, <1>3, FS_Subset

(* The order of the report is strict and total on the best rows.           *)
LEMMA RowOrder ==
  ASSUME NEW rows \in Seq(Row)
  PROVE  LET best == BestRows(rows)
         IN /\ \A r \in best : ~RowBefore(r, r)
            /\ \A r, s \in best : r = s \/ RowBefore(r, s) \/ RowBefore(s, r)
            /\ \A r, s, t \in best : RowBefore(r, s) /\ RowBefore(s, t) => RowBefore(r, t)
<1> DEFINE best == BestRows(rows)
<1>1. best \subseteq Row /\ \A r, s \in best : r.url = s.url => r = s
  BY BestRowsTyped, BestRowsApart
<1>2. \A r \in Row : Score(r) \in Nat
  BY ScoreTyped
<1>3. \A r \in Row : r.url \in Nat /\ SourceRank(r.source) \in 1..3
  <2> SUFFICES ASSUME NEW r \in Row PROVE r.url \in Nat /\ SourceRank(r.source) \in 1..3
    OBVIOUS
  <2>1. r.url \in Nat /\ r.source \in ToSet(Provider)
    BY OpenAccessAssumption DEF Row
  <2>2. \E n \in DOMAIN Provider : Provider[n] = r.source
    BY <2>1 DEF ToSet
  <2> QED BY <2>1, <2>2, Providers DEF SourceRank
<1>4. \A r, s \in Row : SourceRank(r.source) = SourceRank(s.source) => r.source = s.source
  <2> SUFFICES ASSUME NEW r \in Row, NEW s \in Row, SourceRank(r.source) = SourceRank(s.source)
               PROVE  r.source = s.source
    OBVIOUS
  <2>1. r.source \in ToSet(Provider) /\ s.source \in ToSet(Provider)
    BY DEF Row
  <2>2. Provider[SourceRank(r.source)] = r.source /\ Provider[SourceRank(s.source)] = s.source
    BY <2>1 DEF SourceRank, ToSet
  <2> QED BY <2>2
<1> HIDE DEF best
<1>5. \A r \in best : ~RowBefore(r, r)
  BY <1>1, <1>2, <1>3 DEF RowBefore
<1>6. \A r, s \in best : r = s \/ RowBefore(r, s) \/ RowBefore(s, r)
  BY <1>1, <1>2, <1>3, <1>4 DEF RowBefore
<1>7. ASSUME NEW r \in best, NEW s \in best, NEW t \in best, RowBefore(r, s), RowBefore(s, t)
      PROVE  RowBefore(r, t)
  BY <1>1, <1>2, <1>3, <1>4, <1>7 DEF RowBefore
<1> QED BY <1>5, <1>6, <1>7 DEF best

(* Sorting drops no best row: its place is the number of rows before it.   *)
LEMMA DeduplicateKeeps ==
  ASSUME NEW rows \in Seq(Row)
  PROVE  BestRows(rows) \subseteq ToSet(Deduplicate(rows))
<1> DEFINE best == BestRows(rows)
           before(r) == {s \in best : RowBefore(s, r)}
<1>1. IsFiniteSet(best) /\ Cardinality(best) \in Nat
  BY BestRowsTyped, FS_CardinalityType
<1>2. /\ \A r \in best : ~RowBefore(r, r)
      /\ \A r, s \in best : r = s \/ RowBefore(r, s) \/ RowBefore(s, r)
      /\ \A r, s, t \in best : RowBefore(r, s) /\ RowBefore(s, t) => RowBefore(r, t)
  BY RowOrder
<1>3. Deduplicate(rows) = [n \in 1..Cardinality(best) |->
                             CHOOSE r \in best : Cardinality(before(r)) = n - 1]
  BY DEF Deduplicate
<1> HIDE DEF best
<1>4. \A r \in best : IsFiniteSet(before(r)) /\ Cardinality(before(r)) \in Nat
  <2> SUFFICES ASSUME NEW r \in best
               PROVE  IsFiniteSet(before(r)) /\ Cardinality(before(r)) \in Nat
    OBVIOUS
  <2>1. before(r) \subseteq best
    OBVIOUS
  <2> QED BY <1>1, <2>1, FS_Subset, FS_CardinalityType
<1>5. ASSUME NEW r \in best PROVE Cardinality(before(r)) + 1 \in 1..Cardinality(best)
  <2>1. before(r) \in SUBSET best /\ before(r) # best
    BY <1>2
  <2>2. Cardinality(before(r)) \in Nat
    BY <1>4
  <2> HIDE DEF before
  <2>3. Cardinality(before(r)) < Cardinality(best)
    BY <1>1, <2>1, <2>2, FS_Subset
  <2> QED BY <1>1, <2>2, <2>3
<1>6. ASSUME NEW r \in best, NEW s \in best, Cardinality(before(r)) = Cardinality(before(s))
      PROVE  r = s
  <2>1. ASSUME NEW u \in best, NEW v \in best, RowBefore(u, v)
        PROVE  Cardinality(before(u)) < Cardinality(before(v))
    <3>1. before(u) \in SUBSET before(v) /\ u \in before(v) /\ u \notin before(u)
      BY <1>2, <2>1
    <3> HIDE DEF before
    <3> QED BY <1>4, <3>1, FS_Subset
  <2>2. Cardinality(before(r)) \in Nat /\ Cardinality(before(s)) \in Nat
    BY <1>4
  <2>3. ~RowBefore(r, s) /\ ~RowBefore(s, r)
    <3> HIDE DEF before
    <3> QED BY <1>6, <2>1, <2>2
  <2> QED BY <1>2, <2>3
<1>7. ASSUME NEW r \in best PROVE r \in ToSet(Deduplicate(rows))
  <2> DEFINE n == Cardinality(before(r)) + 1
  <2>1. n \in 1..Cardinality(best) /\ n - 1 = Cardinality(before(r))
    <3>1. Cardinality(before(r)) \in Nat
      BY <1>4
    <3> HIDE DEF before
    <3> QED BY <1>5, <3>1
  <2> HIDE DEF n
  <2>2. r = CHOOSE s \in best : Cardinality(before(s)) = n - 1
    BY <1>6, <2>1
  <2>3. Deduplicate(rows)[n] = r /\ n \in DOMAIN Deduplicate(rows)
    BY <1>3, <2>1, <2>2
  <2> QED BY <2>3 DEF ToSet
<1> QED BY <1>7 DEF best

(* Scores, merge and order together.                                       *)
LEMMA MergeKeepsOpenPdf ==
  ASSUME NEW rows \in Seq(Row), NEW i \in DOMAIN rows, OpenPdf(rows[i])
  PROVE  \E row \in ToSet(Deduplicate(rows)) : OpenPdf(row) /\ Key[row.url] = Key[rows[i].url]
<1>1. PICK row \in BestRows(rows) :
        Key[row.url] = Key[rows[i].url] /\ Score(rows[i]) <= Score(row)
  BY BestExists
<1>2. row \in Row /\ rows[i] \in Row
  BY BestRowsTyped
<1>3. Score(row) \in Nat /\ Score(rows[i]) \in Nat
  BY <1>2, ScoreTyped
<1>4. OpenPdf(row)
  BY <1>1, <1>2, <1>3, OpenPdfOutscores
<1> QED BY <1>1, <1>4, DeduplicateKeeps

(* The rows gathered so far are rows, and a provider is left to be asked.  *)
MergeInv ==
  /\ found \in Seq(Row)
  /\ oaAt = "ask" => asked \in 0..Len(Provider) - 1

LEMMA MergeInvNext == MergeInv /\ [OpenAccessNext]_oaVars => MergeInv'
<1> SUFFICES ASSUME MergeInv, [OpenAccessNext]_oaVars PROVE MergeInv'
  OBVIOUS
<1>1. ASSUME NEW rows \in Seq(Row), Ask(rows) PROVE MergeInv'
  <2>1. found' \in Seq(Row) /\ asked' = asked + 1 /\ asked \in 0..2
    BY <1>1, Providers DEF Ask, MergeInv
  <2>2. oaAt' = "ask" => asked' < 3
    BY <1>1, Providers DEF Ask
  <2> QED BY <2>1, <2>2, Providers DEF MergeInv
<1>2. CASE ProviderFails
  <2>1. <<>> \in Seq(Row)
    OBVIOUS
  <2> QED BY <1>1, <1>2, <2>1 DEF ProviderFails
<1>3. CASE ProviderAnswers
  <2> DEFINE provider == Provider[asked + 1]
  <2>1. provider \in ToSet(Provider)
    BY <1>3, Providers DEF ProviderAnswers, MergeInv
  <2>2. PICK answer \in Answers[provider] : Ask(Parsed(provider, answer))
    BY <1>3 DEF ProviderAnswers
  <2>3. answer \in Seq(Location)
    BY <2>1, <2>2, OpenAccessAssumption
  <2> HIDE DEF provider
  <2>4. Parsed(provider, answer) \in Seq(Row)
    BY <2>1, <2>3, ParsedTyped
  <2> QED BY <1>1, <2>2, <2>4
<1>4. CASE StartResolver
  BY <1>4, Providers DEF StartResolver, MergeInv
<1>5. CASE UNCHANGED <<found, asked, oaAt>>
  BY <1>5 DEF MergeInv
<1>6. ASSUME UNCHANGED <<found, asked>>, oaAt' # "ask" PROVE MergeInv'
  BY <1>6 DEF MergeInv
<1>7. ASSUME GiveUp \/ SkipClosed \/ FetchFails \/ (\E n \in 1..MaxFiles : FetchPdf(n))
             \/ WriteFails \/ WriteFile \/ WriteReport \/ StopResolver
      PROVE  MergeInv'
  BY <1>5, <1>6, <1>7 DEF GiveUp, SkipClosed, FetchFails, FetchPdf, WriteFails, WriteFile,
                          WriteReport, StopResolver
<1>8. CASE UNCHANGED oaVars
  BY <1>5, <1>8 DEF oaVars
<1> QED BY <1>2, <1>3, <1>4, <1>7, <1>8 DEF OpenAccessNext

(* Whatever the providers answer and in whatever order, the open PDF of a  *)
(* URL is not lost to another description of it.                           *)
THEOREM MergeLosesNoPdf == OpenAccessSpec => []OpenPdfSurvives
<1>1. OpenAccessInit => MergeInv
  BY DEF OpenAccessInit, MergeInv
<1>2. MergeInv => OpenPdfSurvives
  BY MergeKeepsOpenPdf DEF MergeInv, OpenPdfSurvives
<1> QED BY <1>1, <1>2, MergeInvNext, PTL DEF OpenAccessSpec

-----------------------------------------------------------------------------
(***************************************************************************)
(* CnkiDownload.  The file is hashed, checked and copied by separate reads *)
(* while the browser goes on.  From the check on, what is of the hashed    *)
(* paper is whole, in the download and in the copy, because a download     *)
(* only grows; so a copy with the hash is of a whole file.                 *)
(***************************************************************************)
Contents == Content \union {Nothing}
Listing == [content : Contents, time : Nat]
Verifier == [at : {"idle", "hash", "check", "archive", "copy", "compare"},
             file : Name \union {"none"}, hash : Contents, to : Slot \union {NoSlot}]

CnkiTypes ==
  /\ downloads \in [Name -> Listing] /\ clock \in Nat
  /\ verifier \in Verifier
  /\ DOMAIN archive = Slot
  /\ \A r \in results : r.to \in Slot

(* The content is no other part of the hashed paper than the whole of it.  *)
WholeIfHashed(content) ==
  verifier.file \in PdfName /\ content # Nothing /\ content.paper = verifier.hash.paper =>
    content.part = Whole

VerifierSound ==
  /\ verifier.at # "idle" => verifier.file \in Name
  /\ verifier.at \in {"check", "archive", "copy", "compare"} => verifier.hash # Nothing
  /\ verifier.at \in {"archive", "copy"} => WholeIfHashed(Source)
  /\ verifier.at \in {"copy", "compare"} => /\ verifier.to \in Slot
                                            /\ verifier.to[1] = verifier.file
                                            /\ WholeIfHashed(archive[verifier.to])

CnkiInv ==
  /\ CnkiTypes /\ VerifierSound /\ VerifiedIsWhole
  /\ \A r \in results : r.hash # Nothing

LEMMA ContentTyped ==
  /\ Nothing.part = 0 /\ Nothing.paper = "none" /\ Nothing \in Contents
  /\ \A content \in Content : content.part \in 0..Whole
BY DEF Contents, Content, Nothing

LEMMA CnkiInvInit == CnkiInit => CnkiInv
<1> SUFFICES ASSUME CnkiInit PROVE CnkiInv
  OBVIOUS
<1>1. Absent \in Listing
  BY ContentTyped DEF Absent, Listing
<1>2. Resting \in Verifier /\ Resting.at = "idle"
  BY ContentTyped DEF Resting, Verifier
<1>3. CnkiTypes
  BY <1>1, <1>2 DEF CnkiInit, CnkiTypes
<1> QED BY <1>2, <1>3 DEF CnkiInit, CnkiInv, VerifierSound, VerifiedIsWhole

(* What a step of the browser does to the file that is verified.           *)
LEMMA BrowserStep ==
  ASSUME CnkiInv, NEW f \in Name, NEW entry \in Listing,
         downloads' = [downloads EXCEPT ![f] = entry], clock' \in Nat,
         UNCHANGED <<verifier, archive, results>>,
         f = verifier.file /\ verifier.at \in {"archive", "copy"} => WholeIfHashed(entry.content)
  PROVE  CnkiInv'
<1> USE DEF CnkiInv
<1>1. CnkiTypes'
  BY DEF CnkiTypes
<1>2. verifier.at \in {"archive", "copy"} => WholeIfHashed(Source)'
  <2> SUFFICES ASSUME verifier.at \in {"archive", "copy"} PROVE WholeIfHashed(Source)'
    OBVIOUS
  <2>1. verifier.file \in Name
    BY DEF VerifierSound
  <2>2. CASE f = verifier.file
    <3>1. Source' = entry.content
      BY <2>1, <2>2 DEF Source, CnkiTypes
    <3> QED BY <2>2, <3>1 DEF WholeIfHashed
  <2>3. CASE f # verifier.file
    <3>1. Source' = Source
      BY <2>1, <2>3 DEF Source, CnkiTypes
    <3> QED BY <3>1 DEF WholeIfHashed, VerifierSound
  <2> QED BY <2>2, <2>3
<1>3. VerifierSound'
  BY <1>2 DEF VerifierSound, WholeIfHashed
<1>4. VerifiedIsWhole'
  BY DEF VerifiedIsWhole
<1> QED BY <1>1, <1>3, <1>4

LEMMA BrowserInv ==
  ASSUME CnkiInv, NEW f \in Name,
         (\E p \in Paper : BeginDownload(f, p)) \/ ContinueDownload(f) \/ RemoveFile(f)
  PROVE  CnkiInv'
<1> USE DEF CnkiInv
<1>1. downloads[f] \in Listing /\ clock \in Nat
  BY DEF CnkiTypes
<1>2. ASSUME NEW p \in Paper, BeginDownload(f, p) PROVE CnkiInv'
  <2> DEFINE content == [paper |-> p, part |-> 1]
             entry == [content |-> content, time |-> clock + 1]
  <2>1. content \in Content /\ content.paper = p /\ p # verifier.hash.paper
    BY <1>2 DEF BeginDownload, Content, Whole
  <2>2. entry \in Listing /\ entry.content = content
    BY <1>1, <2>1 DEF Listing, Contents
  <2>3. /\ downloads' = [downloads EXCEPT ![f] = entry] /\ clock' \in Nat
        /\ UNCHANGED <<verifier, archive, results>>
    BY <1>1, <1>2 DEF BeginDownload, ChangeFile
  <2>4. WholeIfHashed(content)
    BY <2>1 DEF WholeIfHashed
  <2> HIDE DEF content, entry
  <2> QED BY <2>2, <2>3, <2>4, BrowserStep
<1>3. CASE ContinueDownload(f)
  <2> DEFINE old == downloads[f].content
  <2>1. PICK n \in old.part + 1 .. Whole : ChangeFile(f, [old EXCEPT !.part = n])
    BY <1>3 DEF ContinueDownload
  <2> DEFINE content == [old EXCEPT !.part = n]
             entry == [content |-> content, time |-> clock + 1]
  <2>2. old \in Content /\ old # Nothing /\ old.part \in 0..Whole
    BY <1>1, <1>3, ContentTyped DEF ContinueDownload, Present, Listing, Contents
  <2>3. n \in 0..Whole /\ old.part < n
    BY <2>1, <2>2 DEF Whole
  <2>4. content \in Content /\ content.paper = old.paper
    BY <2>2, <2>3 DEF Content
  <2>5. entry \in Listing /\ entry.content = content
    BY <1>1, <2>4 DEF Listing, Contents
  <2>6. /\ downloads' = [downloads EXCEPT ![f] = entry] /\ clock' \in Nat
        /\ UNCHANGED <<verifier, archive, results>>
    BY <1>1, <2>1 DEF ChangeFile
  <2>7. f = verifier.file /\ verifier.at \in {"archive", "copy"} => WholeIfHashed(content)
    <3> SUFFICES ASSUME f = verifier.file, verifier.at \in {"archive", "copy"}
                 PROVE  WholeIfHashed(content)
      OBVIOUS
    <3>1. WholeIfHashed(old)
      BY DEF VerifierSound, Source
    <3>2. old.part # Whole
      BY <2>2, <2>3 DEF Whole
    <3> QED BY <2>2, <2>4, <3>1, <3>2 DEF WholeIfHashed
  <2> HIDE DEF old, content, entry
  <2> QED BY <2>5, <2>6, <2>7, BrowserStep
<1>4. CASE RemoveFile(f)
  <2>1. Absent \in Listing /\ Absent.content = Nothing
    BY ContentTyped DEF Absent, Listing
  <2>2. WholeIfHashed(Absent.content)
    BY <2>1 DEF WholeIfHashed
  <2>3. /\ downloads' = [downloads EXCEPT ![f] = Absent] /\ clock' \in Nat
        /\ UNCHANGED <<verifier, archive, results>>
    BY <1>1, <1>4 DEF RemoveFile
  <2> QED BY <2>1, <2>2, <2>3, BrowserStep
<1> QED BY <1>2, <1>3, <1>4

(* The steps of verify up to the choice of the destination only read.      *)
LEMMA VerifierInv ==
  ASSUME CnkiInv,
         \/ \E f \in Name : SelectCandidate(f)
         \/ HashFile \/ CheckFile \/ \E s \in Slot : ChooseDestination(s)
  PROVE  CnkiInv'
<1> USE DEF CnkiInv
<1>1. UNCHANGED <<downloads, clock, archive, results>> /\ VerifiedIsWhole'
  BY DEF SelectCandidate, HashFile, CheckFile, ChooseDestination, VerifiedIsWhole
<1>2. ASSUME verifier' \in Verifier, VerifierSound' PROVE CnkiInv'
  BY <1>1, <1>2 DEF CnkiTypes
<1>3. verifier \in Verifier /\ downloads \in [Name -> Listing]
  BY DEF CnkiTypes
<1>4. ASSUME NEW f \in Name, SelectCandidate(f) PROVE CnkiInv'
  <2>1. verifier' = [Resting EXCEPT !.at = "hash", !.file = f] /\ Resting \in Verifier
    BY <1>4, ContentTyped DEF SelectCandidate, Resting, Verifier
  <2>2. verifier'.at = "hash" /\ verifier'.file = f /\ verifier' \in Verifier
    BY <2>1 DEF Verifier, Resting
  <2> QED BY <1>2, <2>2 DEF VerifierSound
<1>5. CASE HashFile
  <2>1. verifier.file \in Name /\ Source \in Contents /\ Source # Nothing
    BY <1>3, <1>5 DEF HashFile, VerifierSound, Source, Present, Listing
  <2>2. /\ verifier'.at = "check" /\ verifier'.file = verifier.file /\ verifier'.hash = Source
        /\ verifier' \in Verifier
    BY <1>3, <1>5, <2>1 DEF HashFile, Verifier
  <2> QED BY <1>2, <2>1, <2>2 DEF VerifierSound
<1>6. CASE CheckFile
  <2>1. /\ verifier'.at = "archive" /\ verifier'.file = verifier.file
        /\ verifier'.hash = verifier.hash /\ verifier' \in Verifier
    BY <1>3, <1>6 DEF CheckFile, Verifier
  <2>2. Source' = Source /\ (verifier.file \in PdfName => Source.part = Whole)
    BY <1>1, <1>6, <2>1 DEF CheckFile, Source
  <2>3. verifier.at = "check"
    BY <1>6 DEF CheckFile
  <2> QED BY <1>2, <2>1, <2>2, <2>3 DEF VerifierSound, WholeIfHashed
<1>7. ASSUME NEW s \in Slot, ChooseDestination(s) PROVE CnkiInv'
  <2>1. /\ verifier'.at = "copy" /\ verifier'.file = verifier.file
        /\ verifier'.hash = verifier.hash /\ verifier'.to = s /\ verifier' \in Verifier
    BY <1>3, <1>7 DEF ChooseDestination, Verifier
  <2>2. Source' = Source /\ verifier.at = "archive" /\ WholeIfHashed(Source)
    BY <1>1, <1>7, <2>1 DEF ChooseDestination, Source, VerifierSound
  <2>3. s[1] = verifier.file /\ archive[s] \in {Nothing, Source}
    <3>1. s = <<s[1], s[2]>>
      BY DEF Slot
    <3> QED BY <1>7, <3>1 DEF ChooseDestination, UniqueDestination
  <2>4. WholeIfHashed(archive[s])
    BY <2>2, <2>3 DEF WholeIfHashed
  <2>5. WholeIfHashed(Source)' /\ WholeIfHashed(archive[verifier.to])'
    BY <1>1, <2>1, <2>2, <2>4 DEF WholeIfHashed
  <2> QED BY <1>2, <2>1, <2>2, <2>3, <2>5 DEF VerifierSound
<1> QED BY <1>4, <1>5, <1>6, <1>7

LEMMA RestingInv ==
  ASSUME CnkiInv, verifier' = Resting, UNCHANGED <<downloads, clock>>,
         DOMAIN archive' = Slot, VerifiedIsWhole',
         \A r \in results' : r.to \in Slot /\ r.hash # Nothing
  PROVE  CnkiInv'
<1>1. Resting \in Verifier /\ Resting.at = "idle"
  BY ContentTyped DEF Resting, Verifier
<1> QED BY <1>1 DEF CnkiInv, CnkiTypes, VerifierSound

LEMMA ArchiveInv ==
  ASSUME CnkiInv, KeepCopy \/ VerifyCopy \/ VerifyStops \/ \E all \in BOOLEAN : CopyFile(all)
  PROVE  CnkiInv'
<1> USE DEF CnkiInv
<1>1. verifier \in Verifier /\ downloads \in [Name -> Listing] /\ DOMAIN archive = Slot
  BY DEF CnkiTypes
<1>2. CASE KeepCopy
  <2>1. /\ verifier.at = "copy" /\ verifier'.at = "compare" /\ verifier'.file = verifier.file
        /\ verifier'.hash = verifier.hash /\ verifier'.to = verifier.to /\ verifier' \in Verifier
        /\ UNCHANGED <<downloads, clock, archive, results>>
    BY <1>1, <1>2 DEF KeepCopy, Verifier
  <2>2. CnkiTypes' /\ VerifiedIsWhole'
    BY <2>1 DEF CnkiTypes, VerifiedIsWhole
  <2>3. VerifierSound'
    BY <2>1 DEF VerifierSound, WholeIfHashed
  <2> QED BY <2>1, <2>2, <2>3
<1>3. CASE VerifyCopy
  <2> DEFINE new == [to |-> verifier.to, hash |-> verifier.hash]
  <2>1. /\ verifier.at = "compare" /\ archive[verifier.to] = verifier.hash
        /\ results' = results \union {new} /\ verifier' = Resting
        /\ UNCHANGED <<downloads, clock, archive>>
    BY <1>3 DEF VerifyCopy, HashMatches
  <2>2. /\ verifier.hash # Nothing /\ verifier.to \in Slot /\ verifier.to[1] = verifier.file
        /\ WholeIfHashed(archive[verifier.to])
    BY <2>1 DEF VerifierSound
  <2>3. verifier.to[1] \in PdfName => verifier.hash.part = Whole
    BY <2>1, <2>2 DEF WholeIfHashed
  <2>4. VerifiedIsWhole'
    BY <2>1, <2>2, <2>3 DEF VerifiedIsWhole
  <2>5. \A r \in results' : r.to \in Slot /\ r.hash # Nothing
    BY <2>1, <2>2 DEF CnkiTypes
  <2> QED BY <1>1, <2>1, <2>4, <2>5, RestingInv
<1>4. CASE VerifyStops
  BY <1>1, <1>4, RestingInv DEF VerifyStops, VerifiedIsWhole, CnkiTypes
<1>5. ASSUME NEW all \in BOOLEAN, CopyFile(all) PROVE CnkiInv'
  <2>1. /\ verifier.at = "copy" /\ archive[verifier.to] = Nothing
        /\ verifier.to \in Slot /\ WholeIfHashed(Source) /\ Source # Nothing
        /\ UNCHANGED <<downloads, clock, results>>
    BY <1>5 DEF CopyFile, VerifierSound, Source, Present
  <2>2. PICK copied : archive' = [archive EXCEPT ![verifier.to] = copied]
    BY <1>5 DEF CopyFile
  <2>3. /\ DOMAIN archive' = Slot /\ \A r \in results : r.to \in Slot
        /\ \A r \in results : archive'[r.to] = archive[r.to]
    BY <1>1, <2>1, <2>2 DEF CnkiTypes, VerifiedIsWhole
  <2>4. VerifiedIsWhole'
    BY <2>1, <2>3 DEF VerifiedIsWhole
  <2>5. CASE ~all
    <3>1. verifier' = Resting
      BY <1>5, <2>5 DEF CopyFile
    <3> QED BY <2>1, <2>3, <2>4, <3>1, RestingInv
  <2>6. CASE all
    <3>1. /\ verifier'.at = "compare" /\ verifier'.file = verifier.file
          /\ verifier'.hash = verifier.hash /\ verifier'.to = verifier.to /\ verifier' \in Verifier
      BY <1>1, <1>5, <2>6 DEF CopyFile, Verifier
    <3>2. archive'[verifier.to] = Source
      <4>1. verifier.file \in Name /\ Source \in Content
        BY <1>1, <2>1 DEF VerifierSound, Source, Listing, Contents
      <4>2. [Source EXCEPT !.part = IF all THEN @ ELSE 0] = Source
        BY <2>6, <4>1 DEF Content
      <4> QED BY <1>1, <1>5, <2>1, <4>2 DEF CopyFile
    <3>3. CnkiTypes'
      BY <1>1, <2>1, <2>3, <3>1 DEF CnkiTypes
    <3>4. VerifierSound'
      BY <2>1, <3>1, <3>2 DEF VerifierSound, WholeIfHashed
    <3> QED BY <2>1, <2>4, <3>3, <3>4
  <2> QED BY <2>5, <2>6
<1> QED BY <1>2, <1>3, <1>4, <1>5

LEMMA CnkiInvNext == CnkiInv /\ [CnkiNext]_cnkiVars => CnkiInv'
<1> SUFFICES ASSUME CnkiInv, [CnkiNext]_cnkiVars PROVE CnkiInv'
  OBVIOUS
<1>1. CASE TakeSnapshot \/ UNCHANGED cnkiVars
  <2>1. UNCHANGED <<downloads, clock, verifier, archive, results>>
    BY <1>1 DEF TakeSnapshot, cnkiVars
  <2> QED BY <2>1 DEF CnkiInv, CnkiTypes, VerifierSound, WholeIfHashed, Source, VerifiedIsWhole
<1> QED BY <1>1, BrowserInv, VerifierInv, ArchiveInv DEF CnkiNext

(* A file reported as fulltext-verified has the reported hash and is a     *)
(* whole PDF, for any browser that goes on, removes and replaces files     *)
(* between the hash, the check and the copy.                               *)
THEOREM VerifiedDownloadIsWhole == CnkiSpec => []VerifiedIsWhole
<1>1. CnkiInv => VerifiedIsWhole
  BY DEF CnkiInv
<1> QED BY <1>1, CnkiInvInit, CnkiInvNext, PTL DEF CnkiSpec

-----------------------------------------------------------------------------
(***************************************************************************)
(* ZoteroImport.  A run that is about to write an item back either holds   *)
(* what the web library holds, or an older version, which is refused; and  *)
(* items only grow.                                                        *)
(***************************************************************************)
Ensured == {Collection[i] : i \in DOMAIN Collection}
Data == [version : Nat, in : SUBSET Ensured, notes : Nat]
ItemState == [of : Record \union {0}, pdf : BOOLEAN, shown : BOOLEAN, synced : BOOLEAN, data : Data]
Import == [at : {"off", "ensure", "find", "attach", "wait", "get", "put", "audit"},
           pos : Nat, item : Int, tries : Nat, data : Data]
Result == {"none", "skipped", "error", "filed"}

ZoteroTypes ==
  /\ items \in [1..MaxItems -> ItemState]
  /\ imp \in Import
  /\ outcome \in [Record -> Result]

(* Items of the library have a record.                                     *)
ItemsNamed == \A i \in 1..MaxItems : items[i] # NoItem => items[i].of # 0

(* The place of a run in the manifest, and the collections it has ensured. *)
RunSound ==
  /\ imp.at \in {"find", "attach", "wait", "get", "put"} => imp.pos \in Record
  /\ imp.at = "ensure" => /\ imp.pos \in DOMAIN Collection
                          /\ \A i \in DOMAIN Collection : i < imp.pos => Collection[i] \in colls
  /\ imp.at \notin {"off", "ensure"} => Ensured \subseteq colls

(* The item in hand, and what was read of it.                              *)
ItemSound ==
  /\ imp.at \in {"attach", "get", "put"} => imp.item \in Item /\ items[imp.item].of = imp.pos
  /\ imp.at \in {"get", "put"} => items[imp.item].pdf
  /\ imp.at = "put" =>
       /\ imp.data.version <= items[imp.item].data.version
       /\ imp.data.version = items[imp.item].data.version => imp.data = items[imp.item].data

ZoteroInv == ZoteroTypes /\ ItemsNamed /\ RunSound /\ ItemSound /\ FiledMeansFiled

(* An item stays, keeps its record and PDF, and loses no collection or     *)
(* edit; what a run read of it is at most as new.                          *)
ItemGrows(i) ==
  /\ items'[i].of = items[i].of
  /\ items[i].pdf => items'[i].pdf
  /\ items[i].data.in \subseteq items'[i].data.in
  /\ items[i].data.notes <= items'[i].data.notes
  /\ \/ items'[i].data = items[i].data
     \/ items[i].data.version < items'[i].data.version

LEMMA ZoteroInvInit == ZoteroInit => ZoteroInv
<1> SUFFICES ASSUME ZoteroInit PROVE ZoteroInv
  OBVIOUS
<1> USE ZoteroAssumption DEF ZoteroInit
<1>1. NewData \in Data
  BY DEF NewData, Data
<1>2. NoItem \in ItemState /\ Off \in Import
  BY <1>1 DEF NoItem, NewItem, ItemState, Off, Import
<1>3. ZoteroTypes
  BY <1>2 DEF ZoteroTypes, Result
<1>4. ItemsNamed /\ RunSound /\ ItemSound
  BY DEF ItemsNamed, RunSound, ItemSound, Off
<1>5. FiledMeansFiled
  BY DEF FiledMeansFiled
<1> QED BY <1>3, <1>4, <1>5 DEF ZoteroInv

(* What an item of the library keeps when it grows.                        *)
LEMMA ItemStays ==
  ASSUME ZoteroInv, items' \in [1..MaxItems -> ItemState],
         NEW i \in Item, ItemGrows(i)
  PROVE  i \in Item'
<1>1. items[i].of # 0
  BY DEF ZoteroInv, ItemsNamed, Item
<1>2. NoItem.of = 0
  BY DEF NoItem, NewItem
<1> QED BY <1>1, <1>2 DEF ItemGrows, Item, NoItem, NewItem

(* A report stays true while items grow.                                   *)
LEMMA ReportsStay ==
  ASSUME ZoteroInv, items' \in [1..MaxItems -> ItemState],
         \A i \in Item : ItemGrows(i), colls \subseteq colls',
         \A r \in Record : outcome'[r] = "filed" => outcome[r] = "filed"
  PROVE  FiledMeansFiled'
<1> SUFFICES ASSUME NEW r \in Record, outcome'[r] = "filed"
             PROVE  \E i \in Item' : /\ items'[i].of = r /\ items'[i].pdf
                                     /\ Destination[r] \subseteq items'[i].data.in \intersect colls'
  BY DEF FiledMeansFiled
<1>1. PICK i \in Item : /\ items[i].of = r /\ items[i].pdf
                        /\ Destination[r] \subseteq items[i].data.in \intersect colls
  BY DEF ZoteroInv, FiledMeansFiled
<1>2. i \in Item'
  BY ItemStays
<1> QED BY <1>1, <1>2 DEF ItemGrows

(* A run that goes to the next record, or to the audit.                    *)
LEMMA NextIsSound ==
  ASSUME ZoteroInv, NextRecord, imp.at \in {"find", "attach", "wait", "get", "put"},
         colls' = colls
  PROVE  imp' \in Import /\ RunSound' /\ ItemSound'
<1> USE ZoteroAssumption
<1>1. imp.pos \in Nat
  BY DEF ZoteroInv, ZoteroTypes, Import
<1>2. NewData \in Data
  BY DEF NewData, Data
<1>3. imp' \in Import
  <2>1. Off \in Import
    BY <1>2 DEF Off, Import
  <2>2. \A at \in {"find", "audit"}, pos \in Nat : [Off EXCEPT !.at = at, !.pos = pos] \in Import
    BY <2>1 DEF Import
  <2>3. [Off EXCEPT !.at = "audit"] \in Import
    BY <2>1 DEF Import
  <2> QED BY <1>1, <2>2, <2>3 DEF NextRecord
<1>4. imp'.at \in {"find", "audit"} /\ (imp'.at = "find" => imp'.pos \in Record)
  BY DEF NextRecord, Off
<1>5. Ensured \subseteq colls'
  BY DEF ZoteroInv, RunSound
<1> QED BY <1>3, <1>4, <1>5 DEF RunSound, ItemSound

(* The record of a stored item.                                            *)
LEMMA Typed ==
  ASSUME NEW item \in ItemState
  PROVE  /\ item.of \in Record \union {0} /\ item.pdf \in BOOLEAN /\ item.data \in Data
         /\ item.data.version \in Nat /\ item.data.notes \in Nat /\ item.data.in \in SUBSET Ensured
BY DEF ItemState, Data

(* A step that replaces one item by one that has grown.                    *)
LEMMA OneGrows ==
  ASSUME ZoteroInv, NEW k \in Item, NEW item \in ItemState, items' = [items EXCEPT ![k] = item],
         item.of = items[k].of, items[k].pdf => item.pdf,
         items[k].data.in \subseteq item.data.in, items[k].data.notes <= item.data.notes,
         item.data = items[k].data \/ items[k].data.version < item.data.version
  PROVE  items' \in [1..MaxItems -> ItemState] /\ ItemsNamed' /\ \A i \in Item : ItemGrows(i)
<1>1. /\ k \in 1..MaxItems /\ items \in [1..MaxItems -> ItemState]
      /\ Item \subseteq 1..MaxItems /\ items[k] # NoItem
  BY DEF Item, ZoteroInv, ZoteroTypes
<1>2. items'[k] = item /\ \A i \in 1..MaxItems : i # k => items'[i] = items[i]
  BY <1>1
<1>3. ItemsNamed'
  BY <1>1, <1>2 DEF ZoteroInv, ItemsNamed, NoItem, NewItem
<1>4. ASSUME NEW i \in Item PROVE ItemGrows(i)
  <2>1. items[i].data.notes \in Nat
    BY <1>1, Typed
  <2> QED BY <1>1, <1>2, <2>1 DEF ItemGrows
<1> QED BY <1>1, <1>3, <1>4

LEMMA NoneGrows ==
  ASSUME ZoteroInv, items' = items
  PROVE  items' \in [1..MaxItems -> ItemState] /\ ItemsNamed' /\ \A i \in Item : ItemGrows(i)
<1>1. ASSUME NEW i \in Item PROVE ItemGrows(i)
  <2>1. items[i].data.notes \in Nat
    BY Typed DEF Item, ZoteroInv, ZoteroTypes
  <2> QED BY <2>1 DEF ItemGrows
<1> QED BY <1>1 DEF ZoteroInv, ZoteroTypes, ItemsNamed

(* A run that does not move stays sound while items grow.                  *)
LEMMA RunStays ==
  ASSUME ZoteroInv, items' \in [1..MaxItems -> ItemState], \A i \in Item : ItemGrows(i),
         UNCHANGED <<imp, colls>>
  PROVE  imp' \in Import /\ RunSound' /\ ItemSound'
<1>1. imp' \in Import /\ RunSound'
  BY DEF ZoteroInv, ZoteroTypes, RunSound
<1>2. CASE imp.at \in {"attach", "get", "put"}
  <2> DEFINE i == imp.item
  <2>1. i \in Item /\ i \in 1..MaxItems /\ items[i].of = imp.pos
    BY <1>2 DEF ZoteroInv, ItemSound, Item
  <2>2. i \in Item' /\ ItemGrows(i)
    BY <2>1, ItemStays
  <2>3. items[i].data.version \in Nat /\ items'[i].data.version \in Nat /\ imp.data.version \in Nat
    BY <2>1, Typed DEF ZoteroInv, ZoteroTypes, Import, Data
  <2>4. imp.at \in {"get", "put"} => items'[i].pdf
    BY <2>2 DEF ZoteroInv, ItemSound, ItemGrows
  <2>5. CASE imp.at = "put"
    <3>1. /\ imp.data.version <= items[i].data.version
          /\ imp.data.version = items[i].data.version => imp.data = items[i].data
      BY <2>5 DEF ZoteroInv, ItemSound
    <3>2. items'[i].data = items[i].data \/ items[i].data.version < items'[i].data.version
      BY <2>2 DEF ItemGrows
    <3>3. /\ imp.data.version <= items'[i].data.version
          /\ imp.data.version = items'[i].data.version => imp.data = items'[i].data
      BY <2>3, <3>1, <3>2
    <3> QED BY <1>1, <2>1, <2>2, <2>4, <2>5, <3>3 DEF ItemSound, ItemGrows
  <2> QED BY <1>1, <1>2, <2>1, <2>2, <2>4, <2>5 DEF ItemSound, ItemGrows
<1> QED BY <1>1, <1>2 DEF ItemSound

LEMMA DataEdited ==
  ASSUME NEW data \in Data
  PROVE  LET edited == [data EXCEPT !.notes = @ + 1, !.version = @ + 1]
         IN  /\ edited \in Data /\ edited.in = data.in
             /\ data.notes <= edited.notes /\ data.version < edited.version
<1>1. data.notes \in Nat /\ data.version \in Nat
  BY DEF Data
<1>2. data.notes + 1 \in Nat /\ data.version + 1 \in Nat
  BY <1>1
<1>3. [data EXCEPT !.notes = @ + 1, !.version = @ + 1] \in Data
  BY <1>2 DEF Data
<1>4. /\ [data EXCEPT !.notes = @ + 1, !.version = @ + 1].notes = data.notes + 1
      /\ [data EXCEPT !.notes = @ + 1, !.version = @ + 1].version = data.version + 1
      /\ [data EXCEPT !.notes = @ + 1, !.version = @ + 1].in = data.in
  BY DEF Data
<1> QED BY <1>1, <1>3, <1>4

LEMMA EditsStay ==
  ASSUME ZoteroInv, NEW i \in 1..MaxItems, ShowItem(i) \/ SyncItem(i) \/ EditItem(i)
  PROVE  ZoteroInv' /\ \A j \in Item : ItemGrows(j)
<1>1. i \in Item /\ UNCHANGED <<imp, outcome, colls>>
  BY DEF ShowItem, SyncItem, EditItem
<1>2. items[i] \in ItemState
  BY DEF ZoteroInv, ZoteroTypes
<1>3. items' \in [1..MaxItems -> ItemState] /\ ItemsNamed' /\ \A j \in Item : ItemGrows(j)
  <2>1. CASE ShowItem(i)
    <3> DEFINE item == [items[i] EXCEPT !.shown = TRUE]
    <3>1. /\ item \in ItemState /\ item.of = items[i].of /\ item.pdf = items[i].pdf
          /\ item.data = items[i].data
      BY <1>2 DEF ItemState
    <3>2. items' = [items EXCEPT ![i] = item]
      BY <2>1 DEF ShowItem
    <3>3. /\ items[i].data.notes <= item.data.notes
          /\ items[i].data.in \subseteq item.data.in
      BY <1>2, <3>1, Typed
    <3> HIDE DEF item
    <3> QED BY <1>1, <3>1, <3>2, <3>3, OneGrows
  <2>2. CASE SyncItem(i)
    <3> DEFINE item == [items[i] EXCEPT !.synced = TRUE]
    <3>1. /\ item \in ItemState /\ item.of = items[i].of /\ item.pdf = items[i].pdf
          /\ item.data = items[i].data
      BY <1>2 DEF ItemState
    <3>2. items' = [items EXCEPT ![i] = item]
      BY <2>2 DEF SyncItem
    <3>3. /\ items[i].data.notes <= item.data.notes
          /\ items[i].data.in \subseteq item.data.in
      BY <1>2, <3>1, Typed
    <3> HIDE DEF item
    <3> QED BY <1>1, <3>1, <3>2, <3>3, OneGrows
  <2>3. CASE EditItem(i)
    <3> DEFINE data == [items[i].data EXCEPT !.notes = @ + 1, !.version = @ + 1]
               item == [items[i] EXCEPT !.data = data]
    <3>1. /\ items[i].data \in Data
          /\ items[i].data.notes \in Nat /\ items[i].data.version \in Nat
      BY <1>2, Typed
    <3>2. /\ data \in Data /\ data.in = items[i].data.in
          /\ items[i].data.notes <= data.notes /\ items[i].data.version < data.version
      BY <3>1, DataEdited
    <3>3. item \in ItemState /\ item.of = items[i].of /\ item.pdf = items[i].pdf /\ item.data = data
      BY <1>2, <3>2 DEF ItemState
    <3>4. items' = [items EXCEPT ![i] = item]
      BY <2>3 DEF EditItem
    <3> HIDE DEF data, item
    <3> QED BY <1>1, <3>2, <3>3, <3>4, OneGrows
  <2> QED BY <2>1, <2>2, <2>3
<1>4. FiledMeansFiled'
  BY <1>1, <1>3, ReportsStay
<1>5. imp' \in Import /\ RunSound' /\ ItemSound'
  BY <1>1, <1>3, RunStays
<1> QED BY <1>1, <1>3, <1>4, <1>5 DEF ZoteroInv, ZoteroTypes

(* A report of an error, or of a skipped record.                           *)
LEMMA ReportsTyped ==
  ASSUME ZoteroInv, NEW what \in Result, outcome' = outcome \/ Report(what)
  PROVE  /\ outcome' \in [Record -> Result]
         /\ what # "filed" => \A r \in Record : outcome'[r] = "filed" => outcome[r] = "filed"
BY DEF ZoteroInv, ZoteroTypes, Report

(* Steps that leave the library alone and confirm no record.               *)
LEMMA MoveStep ==
  ASSUME ZoteroInv, items' = items, colls' = colls,
         outcome' \in [Record -> Result],
         \A r \in Record : outcome'[r] = "filed" => outcome[r] = "filed",
         imp' \in Import, RunSound', ItemSound'
  PROVE  ZoteroInv' /\ \A i \in Item : ItemGrows(i)
<1>1. items' \in [1..MaxItems -> ItemState] /\ ItemsNamed' /\ \A i \in Item : ItemGrows(i)
  BY NoneGrows
<1> QED BY <1>1, ReportsStay DEF ZoteroInv, ZoteroTypes

LEMMA OffTyped == Off \in Import /\ Off.at = "off" /\ NewData \in Data
<1>1. NewData \in Data
  BY DEF NewData, Data
<1> QED BY <1>1 DEF Off, Import

LEMMA LeaveStep ==
  ASSUME ZoteroInv, StartImport \/ WriteAudit \/ StopImport
  PROVE  ZoteroInv' /\ \A i \in Item : ItemGrows(i)
<1>1. items' = items /\ colls' = colls
  BY DEF StartImport, WriteAudit, StopImport
<1>2. /\ outcome' \in [Record -> Result]
      /\ \A r \in Record : outcome'[r] = "filed" => outcome[r] = "filed"
  BY DEF ZoteroInv, ZoteroTypes, Result, StartImport, WriteAudit, StopImport
<1>3. imp' \in Import /\ RunSound' /\ ItemSound'
  <2>1. CASE imp' = Off
    BY <2>1, OffTyped DEF RunSound, ItemSound
  <2>2. CASE imp' = [Off EXCEPT !.at = "ensure", !.pos = 1]
    <3>1. imp' \in Import /\ imp'.at = "ensure" /\ imp'.pos = 1
      BY <2>2, OffTyped DEF Import
    <3> QED BY <3>1, ZoteroAssumption DEF RunSound, ItemSound
  <2> QED BY <2>1, <2>2 DEF StartImport, WriteAudit, StopImport
<1> QED BY <1>1, <1>2, <1>3, MoveStep

LEMMA EnsureStep ==
  ASSUME ZoteroInv, EnsureCollection
  PROVE  ZoteroInv' /\ \A i \in Item : ItemGrows(i)
<1> USE ZoteroAssumption
<1>1. /\ imp.at = "ensure" /\ imp.pos \in 1..Len(Collection) /\ imp \in Import
      /\ \A i \in DOMAIN Collection : i < imp.pos => Collection[i] \in colls
  BY DEF ZoteroInv, ZoteroTypes, RunSound, EnsureCollection
<1>2. /\ items' = items /\ outcome' = outcome
      /\ colls' = colls \union {Collection[imp.pos]}
  BY DEF EnsureCollection
<1>3. items' \in [1..MaxItems -> ItemState] /\ ItemsNamed' /\ \A i \in Item : ItemGrows(i)
  BY <1>2, NoneGrows
<1>4. FiledMeansFiled'
  BY <1>2, <1>3, ReportsStay
<1>5. imp' \in Import /\ RunSound' /\ ItemSound'
  <2>1. CASE imp.pos < Len(Collection)
    <3>1. imp' = [imp EXCEPT !.pos = imp.pos + 1]
      BY <2>1 DEF EnsureCollection
    <3>2. imp' \in Import /\ imp'.at = "ensure" /\ imp'.pos = imp.pos + 1
      BY <1>1, <3>1 DEF Import
    <3>3. imp'.pos \in DOMAIN Collection
      BY <1>1, <2>1, <3>2
    <3>4. \A i \in DOMAIN Collection : i < imp'.pos => Collection[i] \in colls'
      BY <1>1, <1>2, <3>2
    <3> QED BY <3>2, <3>3, <3>4 DEF RunSound, ItemSound
  <2>2. CASE ~(imp.pos < Len(Collection))
    <3>1. imp' = [Off EXCEPT !.at = "find", !.pos = 1]
      BY <2>2 DEF EnsureCollection
    <3>2. imp' \in Import /\ imp'.at = "find" /\ imp'.pos = 1
      BY <3>1, OffTyped DEF Import
    <3>3. \A i \in DOMAIN Collection : i < imp.pos \/ i = imp.pos
      BY <1>1, <2>2
    <3>4. Ensured \subseteq colls'
      BY <1>1, <1>2, <3>3 DEF Ensured
    <3> QED BY <3>2, <3>4 DEF RunSound, ItemSound
  <2> QED BY <2>1, <2>2
<1> QED BY <1>2, <1>3, <1>4, <1>5 DEF ZoteroInv, ZoteroTypes

LEMMA FailStep ==
  ASSUME ZoteroInv, RecordFails
  PROVE  ZoteroInv' /\ \A i \in Item : ItemGrows(i)
<1>1. imp' \in Import /\ RunSound' /\ ItemSound'
  BY NextIsSound DEF RecordFails
<1>2. /\ outcome' \in [Record -> Result]
      /\ \A r \in Record : outcome'[r] = "filed" => outcome[r] = "filed"
  BY ReportsTyped DEF RecordFails, Result
<1> QED BY <1>1, <1>2, MoveStep DEF RecordFails

(* An item is taken in hand, or its data is read.                          *)
LEMMA TakeStep ==
  ASSUME ZoteroInv, NEW i \in 1..MaxItems, FindExisting(i) \/ WaitForItem(i) \/ GetItem
  PROVE  ZoteroInv' /\ \A j \in Item : ItemGrows(j)
<1>1. items' = items /\ colls' = colls /\ imp \in Import
  BY DEF ZoteroInv, ZoteroTypes, FindExisting, WaitForItem, GetItem
<1>2. CASE FindExisting(i) /\ ~items[i].pdf
  <2>1. imp' \in Import /\ RunSound' /\ ItemSound'
    BY <1>2, NextIsSound DEF FindExisting
  <2>2. /\ outcome' \in [Record -> Result]
        /\ \A r \in Record : outcome'[r] = "filed" => outcome[r] = "filed"
    BY <1>2, ReportsTyped DEF FindExisting, Result
  <2> QED BY <1>1, <2>1, <2>2, MoveStep
<1>3. CASE (FindExisting(i) /\ items[i].pdf) \/ WaitForItem(i)
  <2>1. /\ imp' = [imp EXCEPT !.at = "get", !.item = i] /\ outcome' = outcome
        /\ imp.at \in {"find", "wait"} /\ i \in Item /\ items[i].of = imp.pos /\ items[i].pdf
    BY <1>3 DEF FindExisting, WaitForItem, Visible
  <2>2. imp' \in Import /\ imp'.at = "get" /\ imp'.item = i /\ imp'.pos = imp.pos
    <3>1. i \in Int
      BY ZoteroAssumption
    <3>2. ASSUME NEW item \in Int PROVE [imp EXCEPT !.at = "get", !.item = item] \in Import
      BY <1>1 DEF Import
    <3> QED BY <1>1, <2>1, <3>1, <3>2 DEF Import
  <2>3. RunSound'
    BY <1>1, <2>1, <2>2 DEF ZoteroInv, RunSound
  <2>4. ItemSound'
    BY <1>1, <2>1, <2>2 DEF ItemSound, Item
  <2> QED BY <1>1, <2>1, <2>2, <2>3, <2>4, MoveStep DEF ZoteroInv, ZoteroTypes
<1>4. CASE GetItem
  <2>1. /\ imp.item \in Item /\ items[imp.item].of = imp.pos /\ items[imp.item].pdf
        /\ imp.at = "get" /\ items[imp.item] \in ItemState
    BY <1>4 DEF GetItem, ZoteroInv, ItemSound, ZoteroTypes, Item
  <2>2. imp' = [imp EXCEPT !.at = "put", !.data = items[imp.item].data] /\ outcome' = outcome
    BY <1>4 DEF GetItem
  <2>3. items[imp.item].data \in Data /\ items[imp.item].data.version \in Nat
    BY <2>1, Typed
  <2>4. /\ imp' \in Import /\ imp'.at = "put" /\ imp'.item = imp.item /\ imp'.pos = imp.pos
        /\ imp'.data = items[imp.item].data
    <3>1. ASSUME NEW data \in Data PROVE [imp EXCEPT !.at = "put", !.data = data] \in Import
      BY <1>1 DEF Import
    <3> QED BY <1>1, <2>2, <2>3, <3>1 DEF Import
  <2>5. RunSound'
    BY <1>1, <2>1, <2>4 DEF ZoteroInv, RunSound
  <2>6. ItemSound'
    BY <1>1, <2>1, <2>3, <2>4 DEF ItemSound, Item
  <2> QED BY <1>1, <2>2, <2>4, <2>5, <2>6, MoveStep DEF ZoteroInv, ZoteroTypes
<1> QED BY <1>2, <1>3, <1>4

LEMMA CreateStep ==
  ASSUME ZoteroInv, NEW i \in 1..MaxItems, NEW answered \in BOOLEAN, SaveItem(i, answered)
  PROVE  ZoteroInv' /\ \A j \in Item : ItemGrows(j)
<1> USE ZoteroAssumption
<1>1. /\ imp.at = "find" /\ imp.pos \in Record /\ imp \in Import /\ colls' = colls
      /\ items \in [1..MaxItems -> ItemState] /\ items[i] = NoItem
      /\ items' = [items EXCEPT ![i] = NewItem(imp.pos)]
  BY DEF SaveItem, ZoteroInv, ZoteroTypes, RunSound
<1>2. NewItem(imp.pos) \in ItemState /\ NewItem(imp.pos).of = imp.pos /\ imp.pos # 0
  BY <1>1, OffTyped DEF NewItem, ItemState
<1>3. items' \in [1..MaxItems -> ItemState]
  BY <1>1, <1>2
<1>4. items'[i] = NewItem(imp.pos) /\ \A j \in 1..MaxItems : j # i => items'[j] = items[j]
  BY <1>1
<1>5. ItemsNamed'
  BY <1>2, <1>4 DEF ZoteroInv, ItemsNamed
<1>6. ASSUME NEW j \in Item PROVE ItemGrows(j)
  <2>1. j \in 1..MaxItems /\ j # i
    BY <1>1 DEF Item
  <2>2. items'[j] = items[j] /\ items[j].data.notes \in Nat
    BY <1>1, <1>4, <2>1, Typed
  <2> QED BY <2>2 DEF ItemGrows
<1>7. /\ outcome' \in [Record -> Result]
      /\ \A r \in Record : outcome'[r] = "filed" => outcome[r] = "filed"
  <2>1. outcome' = outcome \/ Report("error")
    BY DEF SaveItem
  <2> QED BY <2>1, ReportsTyped DEF Result
<1>8. FiledMeansFiled'
  BY <1>1, <1>3, <1>6, <1>7, ReportsStay
<1>9. imp' \in Import /\ RunSound' /\ ItemSound'
  <2>1. CASE answered
    <3>1. imp' = [imp EXCEPT !.at = "attach", !.item = i]
      BY <2>1 DEF SaveItem
    <3>2. imp' \in Import /\ imp'.at = "attach" /\ imp'.item = i /\ imp'.pos = imp.pos
      <4>1. i \in Int
        BY ZoteroAssumption
      <4>2. ASSUME NEW item \in Int PROVE [imp EXCEPT !.at = "attach", !.item = item] \in Import
        BY <1>1 DEF Import
      <4> QED BY <1>1, <3>1, <4>1, <4>2 DEF Import
    <3>3. i \in Item' /\ items'[i].of = imp.pos
      BY <1>2, <1>4 DEF Item, NoItem, NewItem
    <3>4. RunSound'
      BY <1>1, <3>2 DEF ZoteroInv, RunSound
    <3> QED BY <3>2, <3>3, <3>4 DEF ItemSound
  <2>2. CASE ~answered
    BY <1>1, <2>2, NextIsSound DEF SaveItem
  <2> QED BY <2>1, <2>2
<1> QED BY <1>3, <1>5, <1>6, <1>7, <1>8, <1>9 DEF ZoteroInv, ZoteroTypes

LEMMA AttachStep ==
  ASSUME ZoteroInv, NEW answered \in BOOLEAN, SaveAttachment(answered)
  PROVE  ZoteroInv' /\ \A j \in Item : ItemGrows(j)
<1> DEFINE i == imp.item
           item == [items[i] EXCEPT !.pdf = TRUE]
<1>1. /\ imp.at = "attach" /\ imp \in Import /\ colls' = colls /\ i \in Item
      /\ items[i] \in ItemState /\ items[i].data.notes \in Nat
  BY Typed DEF SaveAttachment, ZoteroInv, ZoteroTypes, ItemSound, Item
<1>2. item \in ItemState /\ item.of = items[i].of /\ item.pdf /\ item.data = items[i].data
  BY <1>1 DEF ItemState
<1>3. items' = [items EXCEPT ![i] = item]
  BY DEF SaveAttachment
<1>4. items' \in [1..MaxItems -> ItemState] /\ ItemsNamed' /\ \A j \in Item : ItemGrows(j)
  <2>1. items[i].data.notes <= item.data.notes /\ items[i].data.in \subseteq item.data.in
    BY <1>1, <1>2
  <2> HIDE DEF item
  <2> QED BY <1>1, <1>2, <1>3, <2>1, OneGrows
<1>5. /\ outcome' \in [Record -> Result]
      /\ \A r \in Record : outcome'[r] = "filed" => outcome[r] = "filed"
  <2>1. outcome' = outcome \/ Report("error")
    BY DEF SaveAttachment
  <2> QED BY <2>1, ReportsTyped DEF Result
<1>6. FiledMeansFiled'
  BY <1>1, <1>4, <1>5, ReportsStay
<1>7. imp' \in Import /\ RunSound' /\ ItemSound'
  <2>1. CASE answered
    <3>1. imp' = [imp EXCEPT !.at = "wait"]
      BY <2>1 DEF SaveAttachment, Go
    <3>2. imp' \in Import /\ imp'.at = "wait" /\ imp'.pos = imp.pos
      BY <1>1, <3>1 DEF Import
    <3> QED BY <1>1, <3>2 DEF ZoteroInv, RunSound, ItemSound
  <2>2. CASE ~answered
    BY <1>1, <2>2, NextIsSound DEF SaveAttachment
  <2> QED BY <2>1, <2>2
<1> QED BY <1>4, <1>5, <1>6, <1>7 DEF ZoteroInv, ZoteroTypes

(* A PUT that goes through: what was read is what is there.                *)
LEMMA PutGrows ==
  ASSUME ZoteroInv, imp.at = "put", Unmodified,
         items' = [items EXCEPT ![imp.item].data = Filed(imp.data)]
  PROVE  /\ items' \in [1..MaxItems -> ItemState] /\ ItemsNamed' /\ \A j \in Item : ItemGrows(j)
         /\ imp.item \in Item' /\ items'[imp.item].of = imp.pos /\ items'[imp.item].pdf
         /\ Destination[imp.pos] \subseteq items'[imp.item].data.in
<1> USE ZoteroAssumption
<1> DEFINE i == imp.item
           data == Filed(imp.data)
           item == [items[i] EXCEPT !.data = data]
<1>1. /\ i \in Item /\ i \in 1..MaxItems /\ items[i] \in ItemState /\ items[i].of = imp.pos
      /\ items[i].pdf /\ imp.pos \in Record /\ items \in [1..MaxItems -> ItemState]
      /\ items[i].data = imp.data /\ imp.data \in Data
  BY DEF Unmodified, ZoteroInv, ZoteroTypes, ItemSound, RunSound, Item, Import
<1>2. imp.data.version \in Nat /\ imp.data.notes \in Nat /\ imp.data.in \subseteq Ensured
  BY <1>1 DEF Data
<1>3. Destination[imp.pos] \subseteq Ensured
  BY <1>1 DEF Ensured
<1>4. /\ data \in Data /\ data.in = imp.data.in \union Destination[imp.pos]
      /\ data.notes = imp.data.notes /\ data.version = imp.data.version + 1
  <2>1. imp.data.in \union Destination[imp.pos] \in SUBSET Ensured /\ imp.data.version + 1 \in Nat
    BY <1>2, <1>3
  <2> QED BY <1>1, <2>1 DEF Filed, Data
<1>5. item \in ItemState /\ item.of = items[i].of /\ item.pdf = items[i].pdf /\ item.data = data
  BY <1>1, <1>4 DEF ItemState
<1>6. items' = [items EXCEPT ![i] = item] /\ items'[i] = item
  BY <1>1
<1>7. items' \in [1..MaxItems -> ItemState] /\ ItemsNamed' /\ \A j \in Item : ItemGrows(j)
  <2>1. /\ items[i].data.notes <= item.data.notes /\ items[i].data.in \subseteq item.data.in
        /\ items[i].data.version < item.data.version
    BY <1>1, <1>2, <1>4, <1>5
  <2>2. items' = [items EXCEPT ![i] = item]
    BY <1>6
  <2>3. i \in Item /\ item \in ItemState /\ item.of = items[i].of /\ item.pdf = items[i].pdf
    BY <1>1, <1>5
  <2> HIDE DEF item, data, i
  <2> QED BY <2>1, <2>2, <2>3, OneGrows
<1>8. i \in Item'
  BY <1>1, <1>7, ItemStays
<1> QED BY <1>1, <1>4, <1>5, <1>6, <1>7, <1>8

LEMMA PutStep ==
  ASSUME ZoteroInv, PutItem
  PROVE  ZoteroInv' /\ \A j \in Item : ItemGrows(j)
<1>1. /\ imp.at = "put" /\ Unmodified /\ colls' = colls /\ NextRecord /\ Report("filed")
      /\ items' = [items EXCEPT ![imp.item].data = Filed(imp.data)]
  BY DEF PutItem
<1>2. /\ items' \in [1..MaxItems -> ItemState] /\ ItemsNamed' /\ \A j \in Item : ItemGrows(j)
      /\ imp.item \in Item' /\ items'[imp.item].of = imp.pos /\ items'[imp.item].pdf
      /\ Destination[imp.pos] \subseteq items'[imp.item].data.in
  BY <1>1, PutGrows
<1>3. imp' \in Import /\ RunSound' /\ ItemSound'
  BY <1>1, NextIsSound
<1>4. outcome' \in [Record -> Result]
  BY <1>1, ReportsTyped DEF Result
<1>5. FiledMeansFiled'
  <2> SUFFICES ASSUME NEW r \in Record, outcome'[r] = "filed"
               PROVE  \E i \in Item' : /\ items'[i].of = r /\ items'[i].pdf
                                       /\ Destination[r] \subseteq items'[i].data.in \intersect colls'
    BY DEF FiledMeansFiled
  <2>1. CASE r = imp.pos
    <3>1. Destination[r] \subseteq Ensured
      BY ZoteroAssumption DEF Ensured
    <3>2. Ensured \subseteq colls
      BY <1>1 DEF ZoteroInv, RunSound
    <3> QED BY <1>1, <1>2, <2>1, <3>1, <3>2
  <2>2. CASE r # imp.pos
    <3>1. outcome[r] = "filed"
      BY <1>1, <2>2 DEF Report, ZoteroInv, ZoteroTypes
    <3>2. PICK i \in Item : /\ items[i].of = r /\ items[i].pdf
                            /\ Destination[r] \subseteq items[i].data.in \intersect colls
      BY <3>1 DEF ZoteroInv, FiledMeansFiled
    <3>3. i \in Item'
      BY <1>2, ItemStays
    <3> QED BY <1>1, <1>2, <3>2, <3>3 DEF ItemGrows
  <2> QED BY <2>1, <2>2
<1> QED BY <1>2, <1>3, <1>4, <1>5 DEF ZoteroInv, ZoteroTypes

LEMMA RetryStep ==
  ASSUME ZoteroInv, NEW done \in BOOLEAN, ClassifyFails(done)
  PROVE  ZoteroInv' /\ \A j \in Item : ItemGrows(j)
<1>1. imp.at \in {"get", "put"} /\ colls' = colls /\ imp \in Import
  BY DEF ClassifyFails, ZoteroInv, ZoteroTypes
<1>2. items' \in [1..MaxItems -> ItemState] /\ ItemsNamed' /\ \A j \in Item : ItemGrows(j)
  <2>1. CASE done
    BY <2>1, PutGrows DEF ClassifyFails
  <2>2. CASE ~done
    BY <2>2, NoneGrows DEF ClassifyFails
  <2> QED BY <2>1, <2>2
<1>3. /\ outcome' \in [Record -> Result]
      /\ \A r \in Record : outcome'[r] = "filed" => outcome[r] = "filed"
  <2>1. outcome' = outcome \/ Report("error")
    BY DEF ClassifyFails, AfterLast
  <2> QED BY <2>1, ReportsTyped DEF Result
<1>4. FiledMeansFiled'
  BY <1>1, <1>2, <1>3, ReportsStay
<1>5. imp' \in Import /\ RunSound' /\ ItemSound'
  <2>1. CASE imp' = [imp EXCEPT !.at = "get", !.tries = imp.tries + 1]
    <3>1. imp.tries + 1 \in Nat
      BY <1>1 DEF Import
    <3>2. imp' \in Import /\ imp'.at = "get" /\ imp'.item = imp.item /\ imp'.pos = imp.pos
      BY <1>1, <2>1, <3>1 DEF Import
    <3>3. RunSound'
      BY <1>1, <3>2 DEF ZoteroInv, RunSound
    <3>4. imp.item \in Item /\ items[imp.item].of = imp.pos /\ items[imp.item].pdf
      BY <1>1 DEF ZoteroInv, ItemSound
    <3>5. imp.item \in Item' /\ ItemGrows(imp.item)
      BY <1>2, <3>4, ItemStays
    <3>6. ItemSound'
      BY <3>2, <3>4, <3>5 DEF ItemSound, ItemGrows
    <3> QED BY <3>2, <3>3, <3>6
  <2>2. CASE NextRecord
    BY <1>1, <2>2, NextIsSound
  <2> QED BY <2>1, <2>2 DEF ClassifyFails
<1> QED BY <1>2, <1>3, <1>4, <1>5 DEF ZoteroInv, ZoteroTypes

LEMMA ZoteroInvNext ==
  ASSUME ZoteroInv, [ZoteroNext]_zoteroVars
  PROVE  ZoteroInv' /\ \A i \in Item : ItemGrows(i)
<1>1. CASE UNCHANGED zoteroVars
  <2>1. items' \in [1..MaxItems -> ItemState] /\ ItemsNamed' /\ \A i \in Item : ItemGrows(i)
    BY <1>1, NoneGrows DEF zoteroVars
  <2>2. FiledMeansFiled'
    BY <1>1, <2>1, ReportsStay DEF zoteroVars
  <2>3. imp' \in Import /\ RunSound' /\ ItemSound'
    BY <1>1, <2>1, RunStays DEF zoteroVars
  <2> QED BY <1>1, <2>1, <2>2, <2>3 DEF ZoteroInv, ZoteroTypes, zoteroVars
<1>2. ASSUME NEW i \in 1..MaxItems, ShowItem(i) \/ SyncItem(i) \/ EditItem(i)
      PROVE  ZoteroInv' /\ \A j \in Item : ItemGrows(j)
  BY <1>2, EditsStay
<1>3. ASSUME NEW i \in 1..MaxItems, FindExisting(i) \/ WaitForItem(i)
      PROVE  ZoteroInv' /\ \A j \in Item : ItemGrows(j)
  BY <1>3, TakeStep
<1>4. CASE GetItem
  <2>1. imp.item \in 1..MaxItems
    BY <1>4 DEF GetItem, ZoteroInv, ItemSound, Item
  <2> QED BY <1>4, <2>1, TakeStep
<1>5. ASSUME NEW i \in 1..MaxItems, NEW answered \in BOOLEAN, SaveItem(i, answered)
      PROVE  ZoteroInv' /\ \A j \in Item : ItemGrows(j)
  BY <1>5, CreateStep
<1>6. ASSUME NEW answered \in BOOLEAN, SaveAttachment(answered)
      PROVE  ZoteroInv' /\ \A j \in Item : ItemGrows(j)
  BY <1>6, AttachStep
<1>7. ASSUME NEW done \in BOOLEAN, ClassifyFails(done)
      PROVE  ZoteroInv' /\ \A j \in Item : ItemGrows(j)
  BY <1>7, RetryStep
<1> QED BY <1>1, <1>2, <1>3, <1>4, <1>5, <1>6, <1>7,
           LeaveStep, EnsureStep, FailStep, PutStep DEF ZoteroNext

-----------------------------------------------------------------------------
(* For any manifest, any failures, and a person editing at any time.       *)
THEOREM ZoteroInvariant == ZoteroSpec => []ZoteroInv
BY ZoteroInvInit, ZoteroInvNext, PTL DEF ZoteroSpec

(* A record reported as filed is in its collections with a PDF, whatever   *)
(* later runs, failures and edits do.                                      *)
THEOREM ReportedIsFiled == ZoteroSpec => []FiledMeansFiled
<1>1. ZoteroInv => FiledMeansFiled
  BY DEF ZoteroInv
<1> QED BY <1>1, ZoteroInvariant, PTL

(* classify overwrites no edit of a person, however late its requests      *)
(* arrive and however often it repeats them.                               *)
THEOREM NoEditIsLost == ZoteroSpec => EditsSurvive
<1>1. ZoteroInv /\ [ZoteroNext]_zoteroVars =>
        [\A i \in Item : items'[i].data.notes >= items[i].data.notes]_zoteroVars
  <2> SUFFICES ASSUME ZoteroInv, [ZoteroNext]_zoteroVars, NEW i \in Item
               PROVE  items'[i].data.notes >= items[i].data.notes
    OBVIOUS
  <2>1. ItemGrows(i)
    BY ZoteroInvNext
  <2>2. ZoteroInv'
    BY ZoteroInvNext
  <2>3. items'[i].data.notes \in Nat /\ items[i].data.notes \in Nat
    BY <2>2, Typed DEF Item, ZoteroInv, ZoteroTypes
  <2> QED BY <2>1, <2>3 DEF ItemGrows
<1> QED BY <1>1, ZoteroInvariant, PTL DEF ZoteroSpec, EditsSurvive

-----------------------------------------------------------------------------
(* Runs without errors so far: every item is shown, but for the one in     *)
(* hand, so a search that finds nothing of a record means that there is    *)
(* nothing.                                                                *)
Calm == clean /\ \A r \in Record : outcome[r] # "error"

Settled ==
  /\ \A i, j \in 1..MaxItems : items[i].of # 0 /\ items[i].of = items[j].of => i = j
  /\ \A i \in 1..MaxItems : items[i].of # 0 /\ ~items[i].shown =>
       imp.at \in {"attach", "wait"} /\ items[i].of = imp.pos

(* No report yet of the record in hand and of those after it.              *)
AtRecord == imp.at \in {"find", "attach", "wait", "get", "put"}
Unreported ==
  /\ imp.at = "ensure" => \A r \in Record : outcome[r] = "none"
  /\ AtRecord => \A r \in Record : imp.pos <= r => outcome[r] = "none"

OneInv == Unreported /\ (imp.at = "off" /\ clean => Calm) /\ (Calm => Settled)

LEMMA InLibrary ==
  ASSUME ZoteroInv, NEW i \in 1..MaxItems
  PROVE  i \in Item <=> items[i].of # 0
<1>1. NoItem.of = 0
  BY DEF NoItem, NewItem
<1> QED BY <1>1 DEF Item, ZoteroInv, ItemsNamed

(* A step that creates no item, and moves away from no item in hand.       *)
LEMMA StaysSettled ==
  ASSUME Settled,
         \A i \in 1..MaxItems : /\ items'[i].of = items[i].of
                                /\ items[i].shown => items'[i].shown,
         imp.at \in {"attach", "wait"} => imp'.at \in {"attach", "wait"} /\ imp'.pos = imp.pos
  PROVE  Settled'
BY DEF Settled

(* An error that is reported ends the calm.                                *)
LEMMA ErrorIsNoted ==
  ASSUME ZoteroInv, imp.at \notin {"off", "ensure", "audit"}, Report("error")
  PROVE  ~Calm'
<1>1. imp.pos \in Record /\ DOMAIN outcome = Record
  BY DEF ZoteroInv, ZoteroTypes, Import, RunSound
<1> QED BY <1>1 DEF Report, Calm

(* A report of anything else does not hide one.                            *)
LEMMA CalmBefore ==
  ASSUME ZoteroInv, Unreported, clean' = clean, Calm', AtRecord,
         outcome' = outcome \/ Report("skipped") \/ Report("filed")
  PROVE  Calm
<1> USE DEF ZoteroInv, ZoteroTypes, Calm
<1>1. CASE outcome' = outcome
  BY <1>1
<1>2. CASE Report("skipped") \/ Report("filed")
  <2>1. \A r \in Record : r # imp.pos => outcome'[r] = outcome[r]
    BY <1>2 DEF Report
  <2>2. imp.pos \in Record /\ outcome[imp.pos] = "none"
    BY ZoteroAssumption DEF Unreported, AtRecord, RunSound, Import
  <2> QED BY <2>1, <2>2
<1> QED BY <1>1, <1>2

LEMMA UnreportedNext ==
  ASSUME ZoteroInv, Unreported, [ZoteroNext]_zoteroVars
  PROVE  Unreported'
<1> USE DEF Unreported, AtRecord
<1>1. imp \in Import /\ imp.pos \in Nat /\ outcome \in [Record -> Result] /\ Record \subseteq Nat \ {0}
  BY ZoteroAssumption DEF ZoteroInv, ZoteroTypes, Import
<1>2. CASE outcome' = outcome /\ imp' = imp
  BY <1>2
<1>3. CASE outcome' = outcome /\ AtRecord /\ imp'.pos = imp.pos /\ imp'.at \in {"attach", "wait", "get", "put"}
  BY <1>3
<1>4. ASSUME AtRecord, NextRecord, NEW what, Report(what) PROVE Unreported'
  <2>1. imp'.at = "audit" \/ (imp'.at = "find" /\ imp'.pos = imp.pos + 1)
    BY <1>4 DEF NextRecord, Off
  <2>2. \A r \in Record : r # imp.pos => outcome'[r] = outcome[r]
    BY <1>1, <1>4 DEF Report
  <2> QED BY <1>1, <1>4, <2>1, <2>2
<1>5. CASE StartImport
  <2>1. imp'.at = "ensure" /\ \A r \in Record : outcome'[r] = "none"
    BY <1>5 DEF StartImport, Off
  <2> QED BY <2>1
<1>6. CASE EnsureCollection
  <2>1. imp.at = "ensure" /\ imp'.at \in {"ensure", "find"} /\ outcome' = outcome
    BY <1>1, <1>6 DEF EnsureCollection, Off, Import
  <2> QED BY <2>1
<1>7. CASE WriteAudit \/ StopImport
  <2>1. imp'.at = "off"
    BY <1>7 DEF WriteAudit, StopImport, Off
  <2> QED BY <2>1
<1>8. ASSUME NEW i \in 1..MaxItems, ShowItem(i) \/ SyncItem(i) \/ EditItem(i)
      PROVE  Unreported'
  BY <1>2, <1>8 DEF ShowItem, SyncItem, EditItem
<1>9. ASSUME NEW i \in 1..MaxItems, FindExisting(i) \/ WaitForItem(i)
      PROVE  Unreported'
  <2>1. CASE outcome' = outcome
    <3>1. (NextRecord /\ Report("skipped")) \/ (imp'.at = "get" /\ imp'.pos = imp.pos)
      BY <1>1, <1>9 DEF FindExisting, WaitForItem, Import
    <3> QED BY <1>3, <1>4, <1>9, <2>1, <3>1 DEF FindExisting, WaitForItem
  <2>2. CASE NextRecord /\ Report("skipped")
    BY <1>4, <1>9, <2>2 DEF FindExisting, WaitForItem
  <2> QED BY <1>9, <2>1, <2>2 DEF FindExisting, WaitForItem
<1>10. ASSUME NEW i \in 1..MaxItems, NEW answered \in BOOLEAN, SaveItem(i, answered)
       PROVE  Unreported'
  <2>1. imp.at = "find"
    BY <1>10 DEF SaveItem
  <2>2. CASE answered
    <3>1. imp'.at = "attach" /\ imp'.pos = imp.pos /\ outcome' = outcome
      BY <1>1, <1>10, <2>2 DEF SaveItem, Import
    <3> QED BY <1>3, <2>1, <3>1
  <2>3. CASE ~answered
    BY <1>4, <1>10, <2>1, <2>3 DEF SaveItem
  <2> QED BY <2>2, <2>3
<1>11. ASSUME NEW answered \in BOOLEAN, SaveAttachment(answered)
       PROVE  Unreported'
  <2>1. imp.at = "attach"
    BY <1>11 DEF SaveAttachment
  <2>2. CASE answered
    <3>1. imp'.at = "wait" /\ imp'.pos = imp.pos /\ outcome' = outcome
      BY <1>1, <1>11, <2>2 DEF SaveAttachment, Go, Import
    <3> QED BY <1>3, <2>1, <3>1
  <2>3. CASE ~answered
    BY <1>4, <1>11, <2>1, <2>3 DEF SaveAttachment
  <2> QED BY <2>2, <2>3
<1>12. CASE GetItem
  <2>1. imp.at = "get" /\ imp'.at = "put" /\ imp'.pos = imp.pos /\ outcome' = outcome
    BY <1>1, <1>12 DEF GetItem, Import
  <2> QED BY <1>3, <2>1
<1>13. CASE PutItem
  BY <1>4, <1>13 DEF PutItem
<1>14. ASSUME NEW done \in BOOLEAN, ClassifyFails(done)
       PROVE  Unreported'
  <2>1. imp.at \in {"get", "put"}
    BY <1>14 DEF ClassifyFails
  <2>2. CASE imp.tries + 1 < Retries
    <3>1. imp'.at = "get" /\ imp'.pos = imp.pos /\ outcome' = outcome
      BY <1>1, <1>14, <2>2 DEF ClassifyFails, Import
    <3> QED BY <1>3, <2>1, <3>1
  <2>3. CASE ~(imp.tries + 1 < Retries)
    BY <1>4, <1>14, <2>1, <2>3 DEF ClassifyFails
  <2> QED BY <2>2, <2>3
<1>15. CASE RecordFails
  BY <1>4, <1>15 DEF RecordFails
<1> QED BY <1>2, <1>5, <1>6, <1>7, <1>8, <1>9, <1>10, <1>11, <1>12, <1>13, <1>14, <1>15
        DEF ZoteroNext, zoteroVars

LEMMA OneInvNext ==
  ASSUME ZoteroInv, ZoteroInv', OneInv, [ZoteroNext]_zoteroVars
  PROVE  OneInv'
<1> USE UnreportedNext DEF OneInv
<1>1. CASE UNCHANGED zoteroVars
  BY <1>1 DEF zoteroVars, Calm, Settled
<1>2. ASSUME NEW i \in 1..MaxItems, ShowItem(i) \/ SyncItem(i) \/ EditItem(i)
      PROVE  OneInv'
  <2>1. UNCHANGED <<imp, outcome, clean>>
    BY <1>2 DEF ShowItem, SyncItem, EditItem
  <2>2. \A j \in 1..MaxItems : /\ items'[j].of = items[j].of
                               /\ items[j].shown => items'[j].shown
    BY <1>2 DEF ShowItem, SyncItem, EditItem, ZoteroInv, ZoteroTypes, ItemState
  <2> QED BY <2>1, <2>2, StaysSettled DEF Calm
<1>3. CASE StartImport
  <2>1. imp.at = "off" /\ UNCHANGED <<items, clean>> /\ imp'.at = "ensure"
    BY <1>3 DEF StartImport, Off
  <2>2. Settled => Settled'
    BY <2>1, StaysSettled
  <2> QED BY <2>1, <2>2 DEF Calm
<1>4. CASE EnsureCollection
  <2>1. imp.at = "ensure" /\ imp'.at \in {"ensure", "find"} /\ UNCHANGED <<items, outcome, clean>>
    BY <1>4 DEF EnsureCollection, Off, ZoteroInv, ZoteroTypes, Import
  <2>2. Settled => Settled'
    BY <2>1, StaysSettled
  <2> QED BY <2>1, <2>2 DEF Calm
<1>5. CASE WriteAudit \/ StopImport
  <2>1. imp' = Off /\ imp'.at = "off" /\ items' = items
    BY <1>5 DEF WriteAudit, StopImport, Off
  <2>2. CASE StopImport
    BY <2>1, <2>2 DEF StopImport, Calm
  <2>3. CASE WriteAudit
    <3>1. imp.at = "audit" /\ outcome' = outcome /\ clean' = Calm
      BY <2>3 DEF WriteAudit, Calm
    <3>2. Settled => Settled'
      BY <2>1, <3>1, StaysSettled
    <3> QED BY <2>1, <3>1, <3>2 DEF Calm
  <2> QED BY <1>5, <2>2, <2>3
<1>6. CASE imp.at \in {"find", "attach", "wait", "get", "put"} /\ Report("error") /\ NextRecord
  <2>1. ~Calm' /\ imp'.at # "off"
    BY <1>6, ErrorIsNoted DEF NextRecord, Off
  <2> QED BY <2>1
<1>7. ASSUME NEW i \in 1..MaxItems, FindExisting(i)
      PROVE  OneInv'
  <2>1. /\ imp.at = "find" /\ imp'.at \in {"find", "audit", "get"}
        /\ UNCHANGED <<items, clean>> /\ (outcome' = outcome \/ Report("skipped"))
    BY <1>7 DEF FindExisting, NextRecord, Off, ZoteroInv, ZoteroTypes, Import
  <2>2. Settled => Settled'
    BY <2>1, StaysSettled
  <2> QED BY <2>1, <2>2, CalmBefore DEF AtRecord
<1>8. ASSUME NEW i \in 1..MaxItems, WaitForItem(i)
      PROVE  OneInv'
  <2>1. /\ imp.at = "wait" /\ imp'.at = "get" /\ imp'.pos = imp.pos /\ UNCHANGED <<items, outcome, clean>>
        /\ items[i].of = imp.pos /\ items[i].shown
    BY <1>8 DEF WaitForItem, Visible, ZoteroInv, ZoteroTypes, Import
  <2>2. imp.pos # 0
    BY <2>1, ZoteroAssumption DEF ZoteroInv, RunSound
  <2>3. Settled => Settled'
    BY <2>1, <2>2 DEF Settled
  <2> QED BY <2>1, <2>3 DEF Calm
<1>9. ASSUME NEW i \in 1..MaxItems, NEW answered \in BOOLEAN, SaveItem(i, answered)
      PROVE  OneInv'
  <2>1. /\ imp.at = "find" /\ Visible(imp.pos) = {} /\ items[i] = NoItem
        /\ items' = [items EXCEPT ![i] = NewItem(imp.pos)] /\ clean' = clean
    BY <1>9 DEF SaveItem
  <2>2. CASE ~answered
    BY <1>6, <1>9, <2>1, <2>2 DEF SaveItem
  <2>3. CASE answered
    <3>1. imp'.at = "attach" /\ imp'.pos = imp.pos /\ outcome' = outcome
      BY <1>9, <2>1, <2>3 DEF SaveItem, ZoteroInv, ZoteroTypes, Import
    <3>2. ASSUME Settled PROVE Settled'
      <4>1. \A j \in 1..MaxItems : items[j].of # imp.pos
        <5>1. ASSUME NEW j \in 1..MaxItems, items[j].of = imp.pos
              PROVE  FALSE
          <6>1. items[j].of # 0
            BY <2>1, <5>1, ZoteroAssumption DEF ZoteroInv, RunSound
          <6>2. j \in Item /\ items[j].shown
            BY <2>1, <3>2, <6>1, InLibrary DEF Settled
          <6> QED BY <2>1, <5>1, <6>2 DEF Visible
        <5> QED BY <5>1
      <4>2. items'[i].of = imp.pos /\ \A j \in 1..MaxItems : j # i => items'[j] = items[j]
        BY <2>1 DEF NewItem, ZoteroInv, ZoteroTypes
      <4>3. \A j \in 1..MaxItems : items[j].of # 0 => items[j].shown
        BY <2>1, <3>2 DEF Settled
      <4> QED BY <3>1, <3>2, <4>1, <4>2, <4>3 DEF Settled
    <3> QED BY <2>1, <3>1, <3>2 DEF Calm
  <2> QED BY <2>2, <2>3
<1>10. ASSUME NEW answered \in BOOLEAN, SaveAttachment(answered)
       PROVE  OneInv'
  <2>1. imp.at = "attach" /\ items' = [items EXCEPT ![imp.item].pdf = TRUE] /\ clean' = clean
    BY <1>10 DEF SaveAttachment
  <2>2. CASE ~answered
    BY <1>6, <1>10, <2>1, <2>2 DEF SaveAttachment
  <2>3. CASE answered
    <3>1. imp'.at = "wait" /\ imp'.pos = imp.pos /\ outcome' = outcome
      BY <1>10, <2>3 DEF SaveAttachment, Go, ZoteroInv, ZoteroTypes, Import
    <3>2. \A j \in 1..MaxItems : items'[j].of = items[j].of /\ items'[j].shown = items[j].shown
      BY <2>1 DEF ZoteroInv, ZoteroTypes, ItemState
    <3>3. Settled => Settled'
      BY <2>1, <3>1, <3>2, StaysSettled
    <3> QED BY <2>1, <3>1, <3>3 DEF Calm
  <2> QED BY <2>2, <2>3
<1>11. CASE GetItem
  <2>1. imp.at = "get" /\ imp'.at = "put" /\ UNCHANGED <<items, outcome, clean>>
    BY <1>11 DEF GetItem, ZoteroInv, ZoteroTypes, Import
  <2>2. Settled => Settled'
    BY <2>1, StaysSettled
  <2> QED BY <2>1, <2>2 DEF Calm
<1>12. CASE PutItem \/ \E done \in BOOLEAN : ClassifyFails(done)
  <2>1. /\ imp.at \in {"get", "put"} /\ clean' = clean
        /\ items' = items \/ items' = [items EXCEPT ![imp.item].data = Filed(imp.data)]
    BY <1>12 DEF PutItem, ClassifyFails
  <2>2. \A j \in 1..MaxItems : items'[j].of = items[j].of /\ items'[j].shown = items[j].shown
    BY <2>1 DEF ZoteroInv, ZoteroTypes, ItemState
  <2>3. CASE NextRecord /\ Report("error")
    BY <1>6, <2>1, <2>3
  <2>4. CASE ~(NextRecord /\ Report("error"))
    <3>1. (outcome' = outcome \/ Report("filed")) /\ imp'.at # "off"
      BY <1>12, <2>1, <2>4 DEF PutItem, ClassifyFails, AfterLast, NextRecord, Off, ZoteroInv, ZoteroTypes, Import
    <3>2. Calm' => Calm
      BY <2>1, <3>1, CalmBefore DEF AtRecord
    <3>3. Settled => Settled'
      BY <2>1, <2>2, StaysSettled
    <3> QED BY <3>1, <3>2, <3>3
  <2> QED BY <2>3, <2>4
<1>13. CASE RecordFails
  BY <1>6, <1>13 DEF RecordFails
<1> QED BY <1>1, <1>2, <1>3, <1>4, <1>5, <1>7, <1>8, <1>9, <1>10, <1>11, <1>12, <1>13
        DEF ZoteroNext

(* Runs without errors can be repeated over one library: each record stays *)
(* one item, although a new item is not shown to searches at once.         *)
THEOREM RecordsStayOneItem == ZoteroSpec => []OneItemPerRecord
<1>1. ZoteroInit => OneInv
  <2>1. NoItem.of = 0
    BY DEF NoItem, NewItem
  <2> QED BY <2>1 DEF ZoteroInit, OneInv, Unreported, AtRecord, Calm, Settled, Off
<1>2. ZoteroInv /\ OneInv => OneItemPerRecord
  <2> SUFFICES ASSUME ZoteroInv, OneInv, Calm,
                      NEW i \in Item, NEW j \in Item, items[i].of = items[j].of
               PROVE  i = j
    BY DEF OneItemPerRecord, Calm
  <2>1. i \in 1..MaxItems /\ j \in 1..MaxItems
    BY DEF Item
  <2> QED BY <2>1, InLibrary DEF OneInv, Settled
<1>3. ZoteroInv /\ ZoteroInv' /\ OneInv /\ [ZoteroNext]_zoteroVars => OneInv'
  BY OneInvNext
<1> QED BY <1>1, <1>2, <1>3, ZoteroInvariant, PTL DEF ZoteroSpec

-----------------------------------------------------------------------------
(***************************************************************************)
(* empirical.py for any callers, models and versions of the inputs.        *)
(*                                                                         *)
(* mkdir makes one caller the owner of the directory, and only until it    *)
(* writes the bundle; so what the owner has established of the directory   *)
(* (OwnerKnows) stays true until the bundle says it (BundleSound).         *)
(***************************************************************************)
Owning == {"copy", "compare", "estimate", "stata", "hash", "bundle"}
Places == Owning \union {"idle", "look", "mkdir", "verify"}
Outcome == {"none", "complete", "partial", "failed"}
ModelResults == [Model -> {"todo"} \union ModelResult]
Hashes == [File -> Nat]

Bundles == [status : Outcome, fingerprint : {<<>>} \union (Request \X Nat),
            hashes : Hashes, models : ModelResults]
Calls == [at : Places, request : Request, signed : Nat, status : Outcome,
          models : ModelResults, hashes : Hashes]

EmpTypes ==
  /\ input \in Nat
  /\ run \in [Runner -> Calls]
  /\ dir \in [exists : BOOLEAN, files : Hashes, bundle : Bundles]
  /\ given \in [Runner -> Bundles]

Owns(p) == run[p].at \in Owning

(* The directory has at most one owner, and none once it has a bundle.     *)
OneOwner ==
  /\ \A p \in Runner : Owns(p) => dir.exists /\ ~Bundled
  /\ \A p, q \in Runner : Owns(p) /\ Owns(q) => p = q
  /\ Bundled => dir.exists

InputIsSigned(p) == dir.files["raw"] = run[p].signed
Completed(p) == run[p].status = "complete" => AllModels(p, {"complete"})

OwnerKnows(p) ==
  /\ run[p].at \in {"estimate", "stata"} => InputIsSigned(p)
  /\ run[p].at \in {"stata", "hash", "bundle"} => run[p].status # "none" /\ Completed(p)
  /\ run[p].at = "hash" => run[p].status = "failed" \/ InputIsSigned(p)
  /\ run[p].at = "bundle" => run[p].status = "failed" \/ run[p].hashes["raw"] = run[p].signed
  /\ run[p].at = "verify" => Bundled /\ dir.bundle.fingerprint = Fingerprint(p)

BundleSound(b) ==
  /\ b.status # "failed" => b.hashes["raw"] = b.fingerprint[2]
  /\ b.status = "complete" => \A m \in Model : b.models[m] = "complete"

(* A bundle in hand belongs to the call that ended last.                   *)
GivenSound(p) ==
  given[p] # NoBundle =>
    run[p].at = "idle" /\ given[p].fingerprint = Fingerprint(p) /\ BundleSound(given[p])

EmpInv ==
  /\ EmpTypes /\ OneOwner
  /\ Bundled => BundleSound(dir.bundle)
  /\ \A p \in Runner : OwnerKnows(p) /\ GivenSound(p)

LEMMA EmpInvInit == EmpInit => EmpInv
<1> SUFFICES ASSUME EmpInit PROVE EmpInv
  OBVIOUS
<1> USE DEF EmpInit, NoCall, NoDir
<1>1. EmpTypes
  BY DEF EmpTypes, Calls, Bundles, Places, Outcome, ModelResults, Hashes, NoFiles, NoBundle, Request
<1>2. ~Bundled
  BY DEF Bundled
<1>3. \A p \in Runner : ~Owns(p) /\ OwnerKnows(p) /\ GivenSound(p)
  BY DEF Owns, Owning, OwnerKnows, GivenSound
<1> QED BY <1>1, <1>2, <1>3 DEF EmpInv, OneOwner

-----------------------------------------------------------------------------
(* Types.                                                                  *)
LEMMA CallMoves ==
  ASSUME NEW call \in Calls, NEW place \in Places, NEW status \in Outcome
  PROVE  /\ [call EXCEPT !.at = place, !.status = status] \in Calls
         /\ [call EXCEPT !.status = status, !.at = place] \in Calls
BY DEF Calls

LEMMA CallEstimates ==
  ASSUME NEW call \in Calls, NEW models \in ModelResults
  PROVE  [call EXCEPT !.models = models] \in Calls
BY DEF Calls

LEMMA PlacesAre == /\ \A place \in Owning : place \in Places
                   /\ "hash" \in Places /\ "stata" \in Places
                   /\ "failed" \in Outcome /\ "partial" \in Outcome /\ "complete" \in Outcome
BY DEF Places, Owning, Outcome

LEMMA EmpTypesNext ==
  ASSUME EmpTypes, [EmpNext]_empVars
  PROVE  EmpTypes'
<1> USE DEF EmpTypes
<1>1. ASSUME NEW p \in Runner, NEW call \in Calls, run' = [run EXCEPT ![p] = call],
             UNCHANGED <<input, dir, given>>
      PROVE  EmpTypes'
  BY <1>1
<1>2. ASSUME NEW p \in Runner, NEW place \in Places
      PROVE  [run[p] EXCEPT !.at = place] \in Calls
  BY DEF Calls
<1>3. NoCall \in Calls /\ NoBundle \in Bundles
  BY DEF NoCall, NoBundle, Calls, Bundles, Places, Request, Outcome, ModelResults, Hashes, NoFiles
<1>4. ASSUME NEW p \in Runner PROVE [run[p] EXCEPT !.at = "hash", !.status = "failed"] \in Calls
  BY CallMoves, PlacesAre
<1>5. CASE ChangeInput
  BY <1>5 DEF ChangeInput
<1>6. ASSUME NEW p \in Runner, NEW request \in Request, Call(p, request) PROVE EmpTypes'
  <2>1. [NoCall EXCEPT !.at = "look", !.request = request, !.signed = input] \in Calls
    BY <1>3 DEF Calls, Places
  <2> QED BY <1>3, <1>6, <2>1 DEF Call
<1>7. ASSUME NEW p \in Runner, FindNothing(p) \/ Intake(p) \/ IntakeFails(p) PROVE EmpTypes'
  <2>1. "mkdir" \in Places /\ "estimate" \in Places
    BY DEF Places, Owning
  <2>2. CASE FindNothing(p)
    BY <1>1, <1>2, <2>1, <2>2 DEF FindNothing, GoOn
  <2>3. CASE Intake(p)
    BY <1>1, <1>2, <2>1, <2>3 DEF Intake, GoOn
  <2>4. CASE IntakeFails(p)
    BY <1>1, <1>4, <2>4 DEF IntakeFails, Fail
  <2> QED BY <1>7, <2>2, <2>3, <2>4
<1>8. ASSUME NEW p \in Runner, RefuseRunId(p) \/ Stop(p) PROVE EmpTypes'
  BY <1>1, <1>3, <1>8 DEF RefuseRunId, Stop, Raise
<1>9. ASSUME NEW p \in Runner, ReturnPrevious(p) \/ ReturnBundle(p) PROVE EmpTypes'
  BY <1>2, <1>3, <1>9 DEF ReturnPrevious, ReturnBundle, GoOn, Raise, Places
<1>10. ASSUME NEW p \in Runner, MakeDirectory(p) \/ CopyInput(p) PROVE EmpTypes'
  <2>1. "copy" \in Places /\ "compare" \in Places
    BY DEF Places, Owning
  <2>2. run' \in [Runner -> Calls]
    BY <1>2, <1>3, <1>10, <2>1 DEF MakeDirectory, CopyInput, GoOn, Raise
  <2>3. [dir EXCEPT !.files["raw"] = input] \in [exists : BOOLEAN, files : Hashes, bundle : Bundles]
    BY DEF Hashes
  <2>4. [dir EXCEPT !.exists = TRUE] \in [exists : BOOLEAN, files : Hashes, bundle : Bundles]
    OBVIOUS
  <2> QED BY <1>10, <2>2, <2>3, <2>4 DEF MakeDirectory, CopyInput
<1>11. ASSUME NEW p \in Runner, NEW m \in Model, NEW result \in ModelResult,
              Estimate(p, m, result)
       PROVE  EmpTypes'
  <2>1. run' \in [Runner -> Calls]
    <3>1. run[p].models \in ModelResults
      BY DEF Calls
    <3>2. [run[p].models EXCEPT ![m] = result] \in ModelResults
      BY <3>1 DEF ModelResults
    <3>3. [run[p] EXCEPT !.models = [run[p].models EXCEPT ![m] = result]] \in Calls
      BY <3>2, CallEstimates
    <3> QED BY <1>11, <3>3 DEF Estimate
  <2>2. dir' \in [exists : BOOLEAN, files : Hashes, bundle : Bundles]
    BY <1>11 DEF Estimate, Hashes
  <2> QED BY <1>11, <2>1, <2>2 DEF Estimate
<1>12. ASSUME NEW p \in Runner, Estimated(p) PROVE EmpTypes'
  <2>1. [run[p] EXCEPT
       !.status = IF AllModels(p, {"complete"}) THEN "complete" ELSE "partial",
       !.at = IF run[p].request.stata THEN "stata" ELSE "hash"] \in Calls
    BY CallMoves, PlacesAre
  <2> QED BY <1>12, <2>1 DEF Estimated
<1>13. ASSUME NEW p \in Runner, NEW ended \in BOOLEAN, NEW differs \in BOOLEAN,
              StataReview(p, ended, differs)
       PROVE  EmpTypes'
  <2>1. dir' \in [exists : BOOLEAN, files : Hashes, bundle : Bundles]
    BY <1>13 DEF StataReview, Hashes
  <2>2. [run[p] EXCEPT !.at = "hash",
           !.status = IF differs /\ Comparable(p) # {} THEN "partial" ELSE @] \in Calls
    <3>1. run[p] \in Calls /\ run[p].status \in Outcome
      BY DEF Calls
    <3> QED BY <3>1, CallMoves, PlacesAre
  <2>3. run' \in [Runner -> Calls]
    BY <1>4, <1>13, <2>2 DEF StataReview, Fail
  <2> QED BY <1>13, <2>1, <2>3 DEF StataReview
<1>14. ASSUME NEW p \in Runner, HashArtifacts(p) PROVE EmpTypes'
  <2>1. [run[p] EXCEPT !.hashes = dir.files, !.at = "bundle"] \in Calls
    BY DEF Calls, Places, Owning
  <2> QED BY <1>14, <2>1 DEF HashArtifacts
<1>15. ASSUME NEW p \in Runner, WriteBundle(p) PROVE EmpTypes'
  <2>1. [status |-> run[p].status, fingerprint |-> Fingerprint(p),
         hashes |-> run[p].hashes, models |-> run[p].models] \in Bundles
    BY DEF Calls, Bundles, Fingerprint
  <2> QED BY <1>2, <1>15, <2>1 DEF WriteBundle, GoOn, Places
<1>16. CASE ReviewAgain
  BY <1>16 DEF ReviewAgain, Hashes
<1>17. CASE BackupBegins \/ BackupCopies \/ BackupReadsBack \/ BackupStops \/ UNCHANGED empVars
  BY <1>17 DEF BackupBegins, BackupCopies, BackupReadsBack, BackupStops, empVars
<1> QED BY <1>5, <1>6, <1>7, <1>8, <1>9, <1>10, <1>11, <1>12, <1>13, <1>14, <1>15, <1>16,
           <1>17 DEF EmpNext

-----------------------------------------------------------------------------
(* What a step of p must leave to the others.                              *)
LEMMA OthersKeep ==
  ASSUME EmpInv, NEW q \in Runner, run'[q] = run[q], given'[q] = given[q],
         Bundled => dir'.bundle = dir.bundle,
         Owns(q) => dir'.files["raw"] = dir.files["raw"]
  PROVE  OwnerKnows(q)' /\ GivenSound(q)'
<1> OwnerKnows(q) /\ GivenSound(q)
  BY DEF EmpInv
<1>1. GivenSound(q)'
  BY DEF GivenSound, BundleSound, Fingerprint
<1>2. run[q].at = "verify" => Bundled' /\ dir'.bundle.fingerprint = Fingerprint(q)'
  BY DEF OwnerKnows, Bundled, Fingerprint
<1>3. run[q].at \in {"estimate", "stata", "hash"} => (InputIsSigned(q)' <=> InputIsSigned(q))
  BY DEF Owns, Owning, InputIsSigned
<1> QED BY <1>1, <1>2, <1>3 DEF OwnerKnows, Completed, AllModels

(* A step of p that changes nothing of the others.                         *)
VisitFrame(p) ==
  /\ \A q \in Runner \ {p} : run'[q] = run[q] /\ given'[q] = given[q]
  /\ Bundled => dir'.bundle = dir.bundle
  /\ \A q \in Runner \ {p} : Owns(q) => dir'.files["raw"] = dir.files["raw"]

LEMMA FrameKeeps ==
  ASSUME EmpInv, EmpTypes', NEW p \in Runner, VisitFrame(p), OneOwner',
         Bundled' => BundleSound(dir.bundle)', OwnerKnows(p)', GivenSound(p)'
  PROVE  EmpInv'
<1> ASSUME NEW q \in Runner PROVE OwnerKnows(q)' /\ GivenSound(q)'
  BY OthersKeep DEF VisitFrame
<1> QED BY DEF EmpInv

(* A call that has nothing of the directory afterwards.                    *)
LEMMA CallerStep ==
  ASSUME EmpInv, EmpTypes', NEW p \in Runner, dir' = dir,
         \A q \in Runner \ {p} : run'[q] = run[q] /\ given'[q] = given[q],
         run'[p].at \in {"idle", "look", "mkdir"}, GivenSound(p)'
  PROVE  EmpInv'
<1>1. OneOwner'
  BY DEF EmpInv, OneOwner, Owns, Owning, Bundled
<1>2. OwnerKnows(p)'
  BY DEF OwnerKnows
<1>3. Bundled' => BundleSound(dir.bundle)'
  BY DEF EmpInv, Bundled, BundleSound
<1> QED BY <1>1, <1>2, <1>3, FrameKeeps DEF VisitFrame

(* A step of the owner, who stays the owner and leaves the bundle to later. *)
LEMMA OwnerStep ==
  ASSUME EmpInv, EmpTypes', NEW p \in Runner, Owns(p), Owns(p)', given' = given,
         \A q \in Runner \ {p} : run'[q] = run[q],
         dir'.exists = dir.exists, dir'.bundle = dir.bundle, OwnerKnows(p)'
  PROVE  EmpInv'
<1>1. ~Bundled /\ \A q \in Runner \ {p} : ~Owns(q)
  BY DEF EmpInv, OneOwner
<1>2. OneOwner'
  BY <1>1 DEF EmpInv, OneOwner, Owns, Bundled
<1>3. ~Bundled'
  BY <1>1 DEF Bundled
<1>4. GivenSound(p)'
  <2>1. given[p] = NoBundle
    BY DEF EmpInv, GivenSound, Owns, Owning
  <2> QED BY <2>1 DEF GivenSound
<1> QED BY <1>1, <1>2, <1>3, <1>4, FrameKeeps DEF VisitFrame

LEMMA EmpInvNext ==
  ASSUME EmpInv, [EmpNext]_empVars
  PROVE  EmpInv'
<1>0. EmpTypes /\ EmpTypes'
  BY EmpTypesNext DEF EmpInv
<1> USE DEF EmpTypes, At
<1>1. ASSUME NEW p \in Runner PROVE run[p].at # "idle" => given[p] = NoBundle
  BY DEF EmpInv, GivenSound
<1>2. ASSUME NEW p \in Runner, NEW request \in Request, Call(p, request) PROVE EmpInv'
  <2>1. run'[p].at = "look" /\ given'[p] = NoBundle
    BY <1>0, <1>2 DEF Call, NoCall
  <2> QED BY <1>0, <1>2, <2>1, CallerStep DEF Call, GivenSound
<1>3. ASSUME NEW p \in Runner, FindNothing(p) \/ RefuseRunId(p) \/ Stop(p) PROVE EmpInv'
  <2>1. run'[p].at \in {"idle", "look", "mkdir"} /\ given'[p] = NoBundle
    <3>1. given'[p] = NoBundle
      BY <1>1, <1>3 DEF FindNothing, RefuseRunId, Stop
    <3>2. CASE FindNothing(p)
      BY <1>0, <3>1, <3>2 DEF FindNothing, GoOn, Calls
    <3>3. CASE RefuseRunId(p) \/ Stop(p)
      BY <1>0, <3>1, <3>3 DEF RefuseRunId, Stop, Raise, NoCall
    <3> QED BY <1>3, <3>2, <3>3
  <2>2. dir' = dir /\ \A q \in Runner \ {p} : run'[q] = run[q] /\ given'[q] = given[q]
    BY <1>0, <1>3 DEF FindNothing, RefuseRunId, Stop, GoOn, Raise
  <2> QED BY <1>0, <2>1, <2>2, CallerStep DEF GivenSound
<1>4. ASSUME NEW p \in Runner, ReturnPrevious(p) PROVE EmpInv'
  <2>1. /\ run'[p].at = "idle" /\ given'[p] = dir.bundle /\ Bundled
        /\ run'[p].request = run[p].request /\ run'[p].signed = run[p].signed
        /\ dir.bundle.fingerprint = Fingerprint(p)
    BY <1>0, <1>4 DEF ReturnPrevious, GoOn, Verified, SameRun, Calls
  <2>2. GivenSound(p)'
    BY <2>1 DEF GivenSound, EmpInv, Fingerprint, BundleSound
  <2> QED BY <1>0, <1>4, <2>1, <2>2, CallerStep DEF ReturnPrevious, GoOn
<1>5. ASSUME NEW p \in Runner, ReturnBundle(p) PROVE EmpInv'
  <2>1. CASE Verified
    <3>1. /\ run'[p].at = "idle" /\ given'[p] = dir.bundle /\ Bundled
          /\ run'[p].request = run[p].request /\ run'[p].signed = run[p].signed
      BY <1>0, <1>5, <2>1 DEF ReturnBundle, GoOn, Verified, Calls
    <3>2. dir.bundle.fingerprint = Fingerprint(p)
      BY <1>5 DEF ReturnBundle, EmpInv, OwnerKnows
    <3>3. GivenSound(p)'
      BY <3>1, <3>2 DEF GivenSound, EmpInv, Fingerprint, BundleSound
    <3> QED BY <1>0, <1>5, <2>1, <3>1, <3>3, CallerStep DEF ReturnBundle, GoOn
  <2>2. CASE ~Verified
    <3>1. run'[p].at = "idle" /\ given'[p] = NoBundle
      BY <1>0, <1>1, <1>5, <2>2 DEF ReturnBundle, Raise, NoCall
    <3> QED BY <1>0, <1>5, <2>2, <3>1, CallerStep DEF ReturnBundle, Raise, GivenSound
  <2> QED BY <2>1, <2>2
<1>6. ASSUME NEW p \in Runner, MakeDirectory(p) PROVE EmpInv'
  <2>1. CASE dir.exists
    <3>1. run'[p].at = "idle" /\ given'[p] = NoBundle
      BY <1>0, <1>1, <1>6, <2>1 DEF MakeDirectory, Raise, NoCall
    <3> QED BY <1>0, <1>6, <2>1, <3>1, CallerStep DEF MakeDirectory, Raise, GivenSound
  <2>2. CASE ~dir.exists
    <3>1. ~Bundled /\ \A q \in Runner : ~Owns(q)
      BY <2>2 DEF EmpInv, OneOwner
    <3>2. /\ run'[p].at = "copy" /\ given' = given /\ dir'.exists /\ dir'.bundle = dir.bundle
          /\ \A q \in Runner \ {p} : run'[q] = run[q]
      BY <1>0, <1>6, <2>2 DEF MakeDirectory, GoOn, Calls
    <3>3. OneOwner' /\ ~Bundled'
      BY <3>1, <3>2 DEF OneOwner, Owns, Bundled
    <3>4. OwnerKnows(p)' /\ GivenSound(p)'
      BY <1>1, <1>6, <3>2 DEF MakeDirectory, OwnerKnows, GivenSound
    <3> QED BY <1>0, <3>1, <3>2, <3>3, <3>4, FrameKeeps DEF VisitFrame
  <2> QED BY <2>1, <2>2
<1>7. ASSUME NEW p \in Runner, CopyInput(p) \/ Intake(p) PROVE EmpInv'
  <2>1. /\ Owns(p) /\ Owns(p)' /\ given' = given
        /\ dir'.exists = dir.exists /\ dir'.bundle = dir.bundle
        /\ \A q \in Runner \ {p} : run'[q] = run[q]
    BY <1>0, <1>7 DEF CopyInput, Intake, GoOn, Owns, Owning, Calls
  <2>2. OwnerKnows(p)'
    BY <1>0, <1>7 DEF CopyInput, Intake, GoOn, UnchangedInput, OwnerKnows, InputIsSigned, Calls
  <2> QED BY <1>0, <2>1, <2>2, OwnerStep
<1>8. ASSUME NEW p \in Runner, IntakeFails(p) PROVE EmpInv'
  <2>1. /\ Owns(p) /\ run'[p].at = "hash" /\ run'[p].status = "failed" /\ given' = given /\ dir' = dir
        /\ \A q \in Runner \ {p} : run'[q] = run[q]
    BY <1>0, <1>8 DEF IntakeFails, Fail, Owns, Owning, Calls
  <2> QED BY <1>0, <2>1, OwnerStep DEF OwnerKnows, Completed, Owns, Owning
<1>9. ASSUME NEW p \in Runner, NEW m \in Model, NEW result \in ModelResult,
             Estimate(p, m, result)
      PROVE  EmpInv'
  <2>1. /\ Owns(p) /\ run'[p].at = "estimate" /\ run'[p].signed = run[p].signed /\ given' = given
        /\ dir'.exists = dir.exists /\ dir'.bundle = dir.bundle
        /\ dir'.files["raw"] = dir.files["raw"]
        /\ \A q \in Runner \ {p} : run'[q] = run[q]
    BY <1>0, <1>9 DEF Estimate, Owns, Owning, Calls, Hashes, File
  <2>2. InputIsSigned(p)
    BY <1>9 DEF Estimate, EmpInv, OwnerKnows
  <2> QED BY <1>0, <2>1, <2>2, OwnerStep DEF OwnerKnows, InputIsSigned, Owns, Owning
<1>10. ASSUME NEW p \in Runner, Estimated(p) PROVE EmpInv'
  <2>1. /\ Owns(p) /\ run'[p].at \in {"stata", "hash"} /\ given' = given /\ dir' = dir
        /\ run'[p].signed = run[p].signed /\ run'[p].models = run[p].models
        /\ run'[p].status = IF AllModels(p, {"complete"}) THEN "complete" ELSE "partial"
        /\ \A q \in Runner \ {p} : run'[q] = run[q]
    BY <1>0, <1>10 DEF Estimated, Owns, Owning, Calls
  <2>2. InputIsSigned(p)
    BY <1>10 DEF Estimated, EmpInv, OwnerKnows
  <2>3. OwnerKnows(p)'
    BY <2>1, <2>2 DEF OwnerKnows, InputIsSigned, Completed, AllModels
  <2> QED BY <1>0, <2>1, <2>3, OwnerStep DEF Owns, Owning
<1>11. ASSUME NEW p \in Runner, NEW ended \in BOOLEAN, NEW differs \in BOOLEAN,
              StataReview(p, ended, differs)
       PROVE  EmpInv'
  <2>1. /\ Owns(p) /\ run'[p].at = "hash" /\ given' = given
        /\ run'[p].signed = run[p].signed /\ run'[p].models = run[p].models
        /\ run'[p].status \in {"failed", "partial", run[p].status}
        /\ \A q \in Runner \ {p} : run'[q] = run[q]
    BY <1>0, <1>11 DEF StataReview, Fail, Owns, Owning, Calls
  <2>2. /\ dir'.exists = dir.exists /\ dir'.bundle = dir.bundle
        /\ dir'.files["raw"] = dir.files["raw"]
    BY <1>0, <1>11 DEF StataReview, Hashes, File
  <2>3. InputIsSigned(p) /\ run[p].status # "none" /\ Completed(p)
    BY <1>11 DEF StataReview, EmpInv, OwnerKnows
  <2>4. OwnerKnows(p)'
    BY <2>1, <2>2, <2>3 DEF OwnerKnows, InputIsSigned, Completed, AllModels
  <2> QED BY <1>0, <2>1, <2>2, <2>4, OwnerStep DEF Owns, Owning
<1>12. ASSUME NEW p \in Runner, HashArtifacts(p) PROVE EmpInv'
  <2>1. /\ Owns(p) /\ run'[p].at = "bundle" /\ given' = given /\ dir' = dir
        /\ run'[p].signed = run[p].signed /\ run'[p].models = run[p].models
        /\ run'[p].status = run[p].status /\ run'[p].hashes = dir.files
        /\ \A q \in Runner \ {p} : run'[q] = run[q]
    BY <1>0, <1>12 DEF HashArtifacts, Owns, Owning, Calls
  <2>2. run[p].status # "none" /\ Completed(p) /\ (run[p].status = "failed" \/ InputIsSigned(p))
    BY <1>12 DEF HashArtifacts, EmpInv, OwnerKnows
  <2>3. OwnerKnows(p)'
    BY <2>1, <2>2 DEF OwnerKnows, InputIsSigned, Completed, AllModels
  <2> QED BY <1>0, <2>1, <2>3, OwnerStep DEF Owns, Owning
<1>13. ASSUME NEW p \in Runner, WriteBundle(p) PROVE EmpInv'
  <2>1. /\ ~Bundled /\ dir.exists /\ \A q \in Runner \ {p} : ~Owns(q)
    BY <1>13 DEF WriteBundle, EmpInv, OneOwner, Owns, Owning
  <2>2. /\ run[p].status # "none" /\ Completed(p)
        /\ run[p].status = "failed" \/ run[p].hashes["raw"] = run[p].signed
    BY <1>13 DEF WriteBundle, EmpInv, OwnerKnows
  <2>3. /\ run'[p].at = "verify" /\ run'[p].request = run[p].request
        /\ run'[p].signed = run[p].signed /\ given' = given
        /\ \A q \in Runner \ {p} : run'[q] = run[q]
    BY <1>0, <1>13 DEF WriteBundle, GoOn, Calls
  <2>4. /\ dir'.exists = dir.exists
        /\ dir'.bundle = [status |-> run[p].status, fingerprint |-> Fingerprint(p),
                          hashes |-> run[p].hashes, models |-> run[p].models]
    BY <1>0, <1>13 DEF WriteBundle
  <2>5. Bundled'
    BY <2>2, <2>4 DEF Bundled, NoBundle
  <2>6. BundleSound(dir.bundle)'
    BY <2>2, <2>4 DEF BundleSound, Completed, AllModels, Fingerprint
  <2>7. OneOwner'
    BY <2>1, <2>3, <2>4, <2>5 DEF OneOwner, Owns, Owning
  <2>8. OwnerKnows(p)'
    BY <2>3, <2>4, <2>5 DEF OwnerKnows, Fingerprint
  <2>9. GivenSound(p)'
    BY <1>1, <1>13, <2>3 DEF WriteBundle, GivenSound
  <2> QED BY <1>0, <2>1, <2>3, <2>6, <2>7, <2>8, <2>9, FrameKeeps DEF VisitFrame
<1>14. CASE ReviewAgain
  <2>1. /\ UNCHANGED <<run, given>> /\ dir'.exists = dir.exists /\ dir'.bundle = dir.bundle
        /\ dir'.files["raw"] = dir.files["raw"]
    BY <1>0, <1>14 DEF ReviewAgain, Hashes, File
  <2>2. \A q \in Runner : OwnerKnows(q)' /\ GivenSound(q)'
    BY <2>1, OthersKeep
  <2> QED BY <1>0, <2>1, <2>2 DEF EmpInv, OneOwner, Owns, Bundled, BundleSound
<1>15. CASE ChangeInput \/ BackupBegins \/ BackupCopies \/ BackupReadsBack \/ BackupStops
            \/ UNCHANGED empVars
  <2>1. UNCHANGED <<run, given, dir>>
    BY <1>15 DEF ChangeInput, BackupBegins, BackupCopies, BackupReadsBack, BackupStops, empVars
  <2>2. \A q \in Runner : OwnerKnows(q)' /\ GivenSound(q)'
    BY <2>1, OthersKeep
  <2> QED BY <1>0, <2>1, <2>2 DEF EmpInv, OneOwner, Owns, Bundled, BundleSound
<1> QED BY <1>2, <1>3, <1>4, <1>5, <1>6, <1>7, <1>8, <1>9, <1>10, <1>11, <1>12, <1>13, <1>14,
           <1>15 DEF EmpNext

-----------------------------------------------------------------------------
(* For any callers, models and changes of the inputs.                      *)
THEOREM EmpInvariant == EmpSpec => []EmpInv
BY EmpInvInit, EmpInvNext, PTL DEF EmpSpec

(* What run returns was made for the request and the inputs of its caller. *)
THEOREM RunReturnsRequested == EmpSpec => []ReturnedIsRequested
<1>1. EmpInv => ReturnedIsRequested
  BY DEF EmpInv, GivenSound, BundleSound, ReturnedIsRequested, Fingerprint
<1> QED BY <1>1, EmpInvariant, PTL

(* A bundle is never written over, and its inputs and models stay.         *)
THEOREM BundleStays == EmpSpec => BundleIsFinal
<1>1. ASSUME EmpInv, EmpNext, Bundled
      PROVE  dir'.bundle = dir.bundle /\ \A f \in {"raw", "models"} : dir'.files[f] = dir.files[f]
  <2>1. \A p \in Runner : ~Owns(p)
    BY <1>1 DEF EmpInv, OneOwner
  <2>2. EmpTypes /\ dir.exists
    BY <1>1 DEF EmpInv, OneOwner
  <2>3. CASE ReviewAgain
    BY <2>2, <2>3 DEF ReviewAgain, EmpTypes, Hashes, File
  <2>4. CASE dir' = dir
    BY <2>4
  <2> QED BY <1>1, <2>1, <2>2, <2>3, <2>4
       DEF EmpNext, ChangeInput, Call, FindNothing, ReturnPrevious, RefuseRunId, MakeDirectory,
           CopyInput, IntakeFails, Intake, Estimate, Estimated, StataReview, HashArtifacts,
           WriteBundle, ReturnBundle, Stop, BackupBegins, BackupCopies, BackupReadsBack,
           BackupStops, Owns, Owning, At
<1>2. EmpInv /\ [EmpNext]_empVars =>
        [Bundled => /\ dir'.bundle = dir.bundle
                    /\ \A f \in {"raw", "models"} : dir'.files[f] = dir.files[f]]_empVars
  BY <1>1 DEF empVars
<1> QED BY <1>2, EmpInvariant, PTL DEF EmpSpec, BundleIsFinal

-----------------------------------------------------------------------------
(***************************************************************************)
(* MethodPreflight for panels of any size.  The verdict records that no    *)
(* issue was blocking; what that means of the data needs the first period  *)
(* with treatment.                                                         *)
(***************************************************************************)
PreInv ==
  /\ panel \in [Unit -> [Time -> Treatment]]
  /\ Passed => "blocking" \notin Issues

LEMMA PreInvInit == PreInit => PreInv
<1> SUFFICES ASSUME PreInit PROVE PreInv
  OBVIOUS
<1>1. panel \in [Unit -> [Time -> Treatment]]
  <2>1. [u \in Unit |-> [t \in Time |-> NoRow]] \in [Unit -> [Time -> Treatment]]
    BY DEF Treatment
  <2> QED BY <2>1 DEF PreInit
<1> QED BY <1>1 DEF PreInit, PreInv, Passed

LEMMA IssuesKept ==
  ASSUME method' = method, panel' = panel, facts' = facts, shape' = shape
  PROVE  Issues' = Issues
BY DEF Issues, Pending, DidIssues, SyntheticIssues, DynamicIssues, InstrumentBound, When, Like,
       Severity, Units, Periods, Observed, Reversals, InvalidTreatment, Treated, Balanced

LEMMA PreInvNext == PreInv /\ [PreNext]_preVars => PreInv'
<1> SUFFICES ASSUME PreInv, [PreNext]_preVars PROVE PreInv'
  OBVIOUS
<1>1. method' = method /\ panel' = panel /\ facts' = facts /\ shape' = shape
  BY DEF PreNext, Preflight, Refuse, preVars
<1>2. Issues' = Issues
  BY <1>1, IssuesKept
<1>3. Passed' => "blocking" \notin Issues
  BY DEF PreNext, Preflight, Refuse, preVars, PreInv, Passed
<1> QED BY <1>1, <1>2, <1>3 DEF PreInv

(* A unit without a reversal that is treated at some time is treated from  *)
(* then on: a first period without treatment later, and the last one       *)
(* before it, would be a reversal.                                         *)
LEMMA StaysTreated ==
  ASSUME PreInv, ~InvalidTreatment, Reversals = {}, NEW u \in Unit,
         NEW start \in Observed(u), panel[u][start] = 1,
         NEW t \in Observed(u), t >= start
  PROVE  panel[u][t] = 1
<1> SUFFICES ASSUME panel[u][t] # 1 PROVE FALSE
  OBVIOUS
<1>1. ASSUME NEW r \in Observed(u) PROVE panel[u][r] \in {0, 1} /\ r \in 1..MaxPeriod
  BY DEF InvalidTreatment, Observed, Time
<1> DEFINE Lapses == {r \in Observed(u) : r >= start /\ panel[u][r] = 0}
<1>2. Lapses \subseteq Nat /\ Lapses # {}
  BY <1>1, PreflightAssumption DEF PreflightAssumption
<1>3. PICK lapse \in Lapses : \A r \in Lapses : lapse <= r
  BY <1>2, LeastNatural
<1> DEFINE Earlier == {r \in Observed(u) : r < lapse}
<1>4. Earlier \in SUBSET (0..MaxPeriod) /\ start \in Earlier
  BY <1>1, <1>3, PreflightAssumption DEF PreflightAssumption
<1>5. PICK s \in Earlier : \A r \in Earlier : r <= s
  BY <1>4, GreatestNatural, PreflightAssumption DEF PreflightAssumption
<1>6. start <= s /\ s < lapse /\ s \in Observed(u) /\ lapse \in Observed(u)
      /\ s \notin Lapses /\ panel[u][lapse] = 0
  BY <1>1, <1>3, <1>4, <1>5, PreflightAssumption DEF PreflightAssumption
<1>7. panel[u][s] = 1
  BY <1>1, <1>6
<1>8. \A r \in Observed(u) : r <= s \/ r >= lapse
  BY <1>1, <1>3, <1>5, PreflightAssumption DEF PreflightAssumption
<1>9. panel[u][lapse] < panel[u][s]
  BY <1>6, <1>7
<1> QED BY <1>6, <1>8, <1>9 DEF Reversals

LEMMA PassedStaggered == PreInv => PassedIsStaggered
<1> SUFFICES ASSUME PreInv, Passed, Like(method) \in {"did", "sdid"}, NEW u \in Unit
             PROVE  \E start \in 1..MaxPeriod + 1 :
                      \A t \in Observed(u) : panel[u][t] = IF t >= start THEN 1 ELSE 0
  BY DEF PassedIsStaggered
<1>1. "blocking" \notin Issues
  BY DEF PreInv
<1>2. "missingColumns" \notin facts
  BY <1>1 DEF Issues
<1>3. ~InvalidTreatment /\ Reversals = {}
  <2>1. "blocking" \notin Pending
    BY <1>1, <1>2 DEF Issues
  <2>2. CASE Like(method) = "did"
    <3>1. Pending = DidIssues
      BY <2>2 DEF Pending, Like
    <3> QED BY <2>1, <3>1 DEF DidIssues, When
  <2>3. CASE Like(method) = "sdid"
    <3>1. Pending = SyntheticIssues
      BY <2>3 DEF Pending, Like
    <3>2. When(InvalidTreatment \/ Reversals # {}, "blocking") \subseteq SyntheticIssues
      BY DEF SyntheticIssues
    <3> QED BY <2>1, <3>1, <3>2 DEF When
  <2> QED BY <2>2, <2>3
<1>4. ASSUME NEW r \in Observed(u) PROVE panel[u][r] \in {0, 1} /\ r \in 1..MaxPeriod
  BY <1>3 DEF InvalidTreatment, Observed, Time
<1> DEFINE On == {r \in Observed(u) : panel[u][r] = 1}
<1>5. CASE On = {}
  <2>1. MaxPeriod + 1 \in 1..MaxPeriod + 1 /\ \A t \in Observed(u) : ~(t >= MaxPeriod + 1)
    BY <1>4, PreflightAssumption DEF PreflightAssumption
  <2>2. \A t \in Observed(u) : panel[u][t] = 0
    BY <1>4, <1>5
  <2> QED BY <2>1, <2>2
<1>6. CASE On # {}
  <2>1. On \subseteq Nat
    BY <1>4, PreflightAssumption DEF PreflightAssumption
  <2>2. PICK start \in On : \A r \in On : start <= r
    BY <1>6, <2>1, LeastNatural
  <2>3. start \in 1..MaxPeriod + 1
    BY <1>4, PreflightAssumption DEF PreflightAssumption
  <2>4. ASSUME NEW t \in Observed(u) PROVE panel[u][t] = IF t >= start THEN 1 ELSE 0
    <3>1. CASE t >= start
      BY <1>3, <2>2, <3>1, StaysTreated
    <3>2. CASE ~(t >= start)
      <4>1. t \notin On
        BY <1>4, <2>1, <2>2, <3>2
      <4> QED BY <1>4, <3>2, <4>1
    <3> QED BY <3>1, <3>2
  <2> QED BY <2>3, <2>4
<1> QED BY <1>5, <1>6

(* A panel that passes the checks of a staggered design is staggered, for  *)
(* panels of any size.                                                     *)
THEOREM PassedDesignsAreStaggered == PreSpec => []PassedIsStaggered
BY PassedStaggered, PreInvInit, PreInvNext, PTL DEF PreSpec
=============================================================================
