---------------------------- MODULE MCStandalone ----------------------------
(* The parts of the system that share no state with each other, on small   *)
(* instances: a behaviour is of one part, chosen at the start, because     *)
(* their interleavings show nothing.                                       *)
EXTENDS OpenAccess, CnkiDownload, ZoteroImport, EmpiricalRun, MethodPreflight,
        ContextPacker, EngineExecution, CodexAdapter, DagVisit, FileRunLock

CONSTANT Part

VARIABLE part

skillVars == <<oaVars, cnkiVars, zoteroVars, empVars, preVars>>
kernelVars == <<packVars, engineVars, codexVars, visitVars, vars>>
standaloneVars == <<part, skillVars, kernelVars>>

(* Many initial states only for the part that is looked at.                *)
StandaloneInit ==
  /\ part \in Part
  /\ OpenAccessInit /\ CnkiInit /\ ZoteroInit /\ EmpInit
  /\ EngineInit /\ Init
  /\ IF part = "preflight" THEN PreInit
     ELSE method = "iv" /\ facts = {} /\ verdict = "none" /\ panel = <<>> /\ shape = <<>>
  /\ IF part = "context" THEN ContextInit
     ELSE /\ depends = <<>> /\ allowed = FALSE /\ file = <<>> /\ writes = 0 /\ replaced = {}
          /\ packer = [at |-> "none"]
  /\ IF part = "codex" THEN CodexInit ELSE CodexInit /\ ~persist
  /\ IF part = "visit" THEN VisitInit
     ELSE /\ edges = <<>> /\ next = 1 /\ stack = <<>> /\ visiting = {} /\ visited = {}
          /\ finding = "none"

StandaloneNext ==
  /\ UNCHANGED part
  /\ \/ /\ part = "openAccess" /\ OpenAccessNext
        /\ UNCHANGED <<kernelVars, cnkiVars, zoteroVars, empVars, preVars>>
     \/ /\ part = "cnki" /\ CnkiNext
        /\ UNCHANGED <<kernelVars, oaVars, zoteroVars, empVars, preVars>>
     \/ /\ part = "zotero" /\ ZoteroNext
        /\ UNCHANGED <<kernelVars, oaVars, cnkiVars, empVars, preVars>>
     \/ /\ part = "empirical" /\ EmpNext
        /\ UNCHANGED <<kernelVars, oaVars, cnkiVars, zoteroVars, preVars>>
     \/ /\ part = "preflight" /\ PreNext
        /\ UNCHANGED <<kernelVars, oaVars, cnkiVars, zoteroVars, empVars>>
     \/ /\ part = "context" /\ ContextNext
        /\ UNCHANGED <<skillVars, engineVars, codexVars, visitVars, vars>>
     \/ /\ part = "engine" /\ EngineNext
        /\ UNCHANGED <<skillVars, packVars, codexVars, visitVars, vars>>
     \/ /\ part = "codex" /\ CodexNext
        /\ UNCHANGED <<skillVars, packVars, engineVars, visitVars, vars>>
     \/ /\ part = "visit" /\ DagNext
        /\ UNCHANGED <<skillVars, packVars, engineVars, codexVars, vars>>
     \/ /\ part = "runLock" /\ Next
        /\ UNCHANGED <<skillVars, packVars, engineVars, codexVars, visitVars>>

StandaloneSpec == StandaloneInit /\ [][StandaloneNext]_standaloneVars

-----------------------------------------------------------------------------
(* OpenAccess.  URLs 1 and 2 differ in a trailing slash, as do 5 and 6.    *)
Urls == 1..6
Keys == <<1, 1, 3, 4, 5, 5>>
SecureUrls == {3, 4}
PdfUrls == {3, 5}
Loc(pdf, landing, oa, version, license) ==
  [pdf |-> pdf, landing |-> landing, kind |-> "landing-page", oa |-> oa,
   version |-> version, license |-> license]
Link(url, kind) == [Loc(0, url, "unsaid", "unsaid", FALSE) EXCEPT !.kind = kind]

(* A bare open PDF against closed or landing descriptions of its URL with  *)
(* licence and version; and four open PDFs, one more than the attempts.    *)
AnswersOf ==
  [crossref   |-> {<<Link(2, "landing-page"), Link(3, "unknown")>>, <<Link(5, "unknown")>>},
   openalex   |-> {<<Loc(1, 2, "no", "published", TRUE)>>,
                   <<Loc(0, 1, "yes", "published", TRUE), Loc(4, 0, "yes", "other", FALSE)>>,
                   <<Loc(3, 0, "yes", "published", TRUE), Loc(4, 0, "yes", "other", TRUE)>>},
   unpaywall  |-> {<<Loc(1, 0, "unsaid", "unsaid", FALSE)>>,
                   <<Loc(6, 0, "unsaid", "unsaid", FALSE), Loc(2, 5, "yes", "published", TRUE)>>}]

(* ZoteroImport. *)
Collections == <<"topic", "method">>
Filing == <<{"topic", "method"}, {"topic"}>>

(* ContextPacker: a manifest, two artifacts of one task, one of a task     *)
(* that may be far, and one that no role may read.                         *)
Produced(producer, role, text, costs, terms, match) ==
  [producer |-> producer, external |-> FALSE, role |-> role, text |-> text,
   costs |-> costs, terms |-> terms, match |-> match]
Artifacts ==
  <<[Produced(0, FALSE, FALSE, <<2>>, 0, 0) EXCEPT !.external = TRUE],
    Produced(1, TRUE, TRUE, <<2, 5, 8>>, 1, 2), Produced(2, TRUE, FALSE, <<3>>, 1, 1),
    Produced(3, TRUE, TRUE, <<2, 4, 5>>, 0, 2), Produced(1, FALSE, TRUE, <<1, 2>>, 0, 3)>>

(* DagVisit: every graph over a list of three tasks.                       *)
CONSTANTS t1, t2, t3
Triple == <<t1, t2, t3>>
AllGraphs == [Task -> SUBSET Task]
Types == [t \in Task |-> "agent"]
AgentOf == [t \in Task |-> "writing-agent"]
NoProducer == [t \in Task |-> NoTask]

(* FileRunLock: an owner for each process.                                 *)
CONSTANTS a, b, c, p1, p2, p3
Separate == [p \in Process |-> IF p = p1 THEN a ELSE IF p = p2 THEN b ELSE c]
=============================================================================
