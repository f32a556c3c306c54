--------------------------- MODULE ContextPacker ---------------------------
(***************************************************************************)
(* context.py: pack collects what the tasks before a task produced, checks *)
(* each file against the hash in the state, reads it, and fills a budget   *)
(* of tokens with references and excerpts, the most relevant first.  The   *)
(* project directory is open to others in the meantime.                    *)
(*                                                                         *)
(* A file is a number: 0 when it is missing, 1 with the content that was   *)
(* recorded, more when it was written again.                               *)
(***************************************************************************)
EXTENDS Integers, Sequences, FiniteSets

CONSTANTS
  PackTask,    \* tasks; a larger one may depend on smaller ones
  Packed,      \* the task the context is for
  Artifact,    \* the artifacts of the state, oldest first: records of
               \* producer (0: the manifest), external, role (the prefix
               \* policy of the agent admits its path), text, costs (tokens
               \* of the reference with its first 0, 1, ... excerpts), terms
               \* (goal terms in the path) and match (with the excerpts)
  Budget,      \* token_budget
  MaxWrites    \* bound on the changes of the project directory

ASSUME ContextAssumption ==
  /\ PackTask \subseteq Nat /\ Packed \in PackTask
  /\ Budget \in Nat /\ MaxWrites \in Nat
  /\ Artifact \in Seq([producer : Nat, external : BOOLEAN, role : BOOLEAN, text : BOOLEAN,
                       costs : Seq(Nat), terms : Nat, match : Nat])
  /\ \A i \in DOMAIN Artifact :
       LET costs == Artifact[i].costs
       IN Len(costs) > 0 /\ \A n \in 2..Len(costs) : costs[n - 1] < costs[n]

VARIABLES
  depends,    \* task -> the tasks it depends on
  allowed,    \* content_allowed: public data, or a person allowed it
  file,       \* artifact -> its file
  packer,     \* what pack has found
  writes,     \* number of changes of the project directory
  replaced    \* history: artifacts whose file changed between hash and read

projectVars == <<depends, allowed, file, writes, replaced>>
packVars == <<projectVars, packer>>

Id == DOMAIN Artifact
External(i) == Artifact[i].external

ContextInit ==
  /\ depends \in {d \in [PackTask -> SUBSET PackTask] : \A t \in PackTask : \A s \in d[t] : s < t}
  /\ allowed \in BOOLEAN
  /\ file \in {f \in [Id -> 0..2] : \A i \in Id : External(i) => f[i] = 1}
  /\ packer = [at |-> "ancestors", ancestors |-> depends[Packed], frontier |-> depends[Packed],
               next |-> 1, candidates |-> {}, selected |-> {}, used |-> 0]
  /\ writes = 0 /\ replaced = {}

PackerAt(place) == packer.at = place

(* Mutant: the dependencies of dependencies are found, but not followed. *)
MutNewAncestors(t) == {}

(* The dependencies of t that are not yet known.                           *)
NewAncestors(t) == depends[t] \ packer.ancestors

(* One pass of the loop of _ancestor_tasks, which pops any task.           *)
FollowTask(t) ==
  /\ PackerAt("ancestors") /\ t \in packer.frontier
  /\ packer' = [packer EXCEPT !.ancestors = @ \union NewAncestors(t),
                              !.frontier = (@ \ {t}) \union NewAncestors(t)]
  /\ UNCHANGED projectVars

AncestorsKnown ==
  /\ PackerAt("ancestors") /\ packer.frontier = {}
  /\ packer' = [packer EXCEPT !.at = "scan"]
  /\ UNCHANGED projectVars

-----------------------------------------------------------------------------
Current == packer.next
Scans == PackerAt("scan") /\ Current \in Id

(* A candidate: the content it quotes (0: a reference), and its score.     *)
Quote(content) == [id |-> Current, content |-> content,
                   score |-> IF External(Current) \/ file[Current] # 1 THEN 0
                             ELSE IF content = 0 THEN Artifact[Current].terms
                             ELSE Artifact[Current].match]

Add(candidate) ==
  packer' = [packer EXCEPT !.at = "scan", !.next = @ + 1, !.candidates = @ \union {candidate}]

Related == Artifact[Current].producer \in packer.ancestors \union {0}

Admitted == Related /\ (External(Current) \/ Artifact[Current].role)

SkipArtifact ==
  /\ Scans /\ ~Admitted
  /\ packer' = [packer EXCEPT !.next = @ + 1]
  /\ UNCHANGED projectVars

(* The file is there with its hash, is text, and may be shown.             *)
Readable ==
  /\ ~External(Current) /\ file[Current] = 1
  /\ Artifact[Current].text /\ allowed

Refer ==
  /\ Scans /\ Admitted /\ ~Readable
  /\ Add(Quote(0))
  /\ UNCHANGED projectVars

VerifyHash ==
  /\ Scans /\ Admitted /\ Readable
  /\ packer' = [packer EXCEPT !.at = "read"]
  /\ UNCHANGED projectVars

(* The text is read after its hash; a file that is gone by then ends pack  *)
(* with an error.                                                          *)
ReadText ==
  /\ PackerAt("read")
  /\ IF file[Current] = 0 THEN packer' = [packer EXCEPT !.at = "failed"]
     ELSE Add([id |-> Current, content |-> file[Current], score |-> Artifact[Current].match])
  /\ UNCHANGED projectVars

Scanned ==
  /\ PackerAt("scan") /\ Current \notin Id
  /\ packer' = [packer EXCEPT !.at = "select"]
  /\ UNCHANGED projectVars

-----------------------------------------------------------------------------
(* The most relevant candidate, among equals the most recent.              *)
Before(a, b) == a.score > b.score \/ (a.score = b.score /\ a.id > b.id)
Best == CHOOSE a \in packer.candidates : \A b \in packer.candidates \ {a} : Before(a, b)

(* The tokens of an artifact with its first n excerpts.                    *)
Tokens(i, n) == Artifact[i].costs[n + 1]

Fits(tokens) == packer.used + tokens <= Budget

(* The excerpts that are taken: up to the first that does not fit.         *)
Prefix(a) ==
  LET all == IF a.content = 0 THEN 0 ELSE Len(Artifact[a.id].costs) - 1
      stops == {n \in 0..all : n = all \/ ~Fits(Tokens(a.id, n + 1))}
  IN CHOOSE n \in stops : \A m \in stops : n <= m

SelectNext ==
  /\ PackerAt("select") /\ packer.candidates # {}
  /\ LET best == Best
         tokens == Tokens(best.id, Prefix(best))
         kept == [id |-> best.id, content |-> best.content, excerpts |-> Prefix(best),
                  tokens |-> tokens]
     IN packer' = IF Fits(tokens)
                  THEN [packer EXCEPT !.candidates = @ \ {best}, !.used = @ + tokens,
                                      !.selected = @ \union {kept}]
                  ELSE [packer EXCEPT !.candidates = @ \ {best}]
  /\ UNCHANGED projectVars

EndPack ==
  /\ PackerAt("select") /\ packer.candidates = {}
  /\ packer' = [packer EXCEPT !.at = "done"]
  /\ UNCHANGED projectVars

-----------------------------------------------------------------------------
(* Somebody writes or deletes a file of the project.                       *)
WriteProject(i, content) ==
  /\ ~External(i) /\ writes < MaxWrites
  /\ file[i] # content
  /\ file' = [file EXCEPT ![i] = content]
  /\ writes' = writes + 1
  /\ replaced' = IF PackerAt("read") /\ i = Current THEN replaced \union {i} ELSE replaced
  /\ UNCHANGED <<depends, allowed, packer>>

ContextNext ==
  \/ \E t \in PackTask : FollowTask(t)
  \/ AncestorsKnown \/ SkipArtifact \/ Refer \/ VerifyHash \/ ReadText \/ Scanned
  \/ SelectNext \/ EndPack
  \/ \E i \in Id, content \in {0, 2} : WriteProject(i, content)

ContextSpec == ContextInit /\ [][ContextNext]_packVars

-----------------------------------------------------------------------------
(* t is reached from the packed task along dependencies.                   *)
Ancestor(t) ==
  \A S \in SUBSET PackTask :
    depends[Packed] \subseteq S /\ (\A u \in S : depends[u] \subseteq S) => t \in S

SelectedIds == {s.id : s \in packer.selected}

(* The context that is handed to an agent is exactly what the task may and *)
(* can see: artifacts of the tasks it depends on, directly or not, and of  *)
(* no other; within the hard budget, which leaves out nothing that still   *)
(* fits; quoting files only where content is allowed, and with another     *)
(* content than the recorded one only when the file was replaced between   *)
(* its hash and its read.                                                  *)
PackIsExact ==
  PackerAt("done") =>
    /\ packer.used <= Budget
    /\ \A i \in Id :
         LET producer == Artifact[i].producer
             visible == /\ producer = 0 \/ Ancestor(producer)
                        /\ External(i) \/ Artifact[i].role
         IN IF i \in SelectedIds THEN visible
            ELSE visible => packer.used + Tokens(i, 0) > Budget
    /\ \A s \in packer.selected : s.content # 0 =>
         allowed /\ (s.content = 1 \/ s.id \in replaced)
=============================================================================
