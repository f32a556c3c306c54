------------------------ MODULE AgentExecutorProofs -------------------------
(***************************************************************************)
(* The tool registry and the agent executor for any processes, requests,   *)
(* contents, rounds and threads.                                           *)
(*                                                                         *)
(* The argument: as long as no two calls on one key or path overlapped,    *)
(* every thread that can still matter (it runs, or its caller still waits  *)
(* for it or records its result) has its key and its path to itself.  So   *)
(* what it checked, wrote and read stays as it was until its next step,    *)
(* and the record a caller writes is the first one of its key.             *)
(***************************************************************************)
EXTENDS AgentExecutor, TLAPS

Thread == [by : Caller, request : Request, at : ThreadPlaces, digest : Content \union {None}]
Call == [at : Places, request : Request \union {None}, thread : Nat,
         artifact : Artifact \union {None}]

Waiting(c) == call[c].at \in {"waiting", "record"}
Held(i) == \E c \in Caller : Waiting(c) /\ call[c].thread = i
Busy(i) == Alive(i) \/ Held(i)

RegistryTypes ==
  /\ files \in [Path -> Content \union {None}]
  /\ temp \in [Path -> Content \union {None}]
  /\ ledger \in [Key -> Record \union {None}]
  /\ threads \in Seq(Thread)
  /\ call \in [Caller -> Call]
  /\ raced \in BOOLEAN
  /\ delivered \in [Key -> SUBSET Request]

(* A caller waits for the thread it started for its request.               *)
CallsMatch ==
  \A c \in Caller :
    /\ call[c].at # "out" => call[c].request \in Request
    /\ call[c].at = "complete" => call[c].artifact \in Artifact
    /\ Waiting(c) =>
         /\ call[c].thread \in DOMAIN threads
         /\ threads[call[c].thread].by = c
         /\ threads[call[c].thread].request = call[c].request
    /\ call[c].at = "record" => threads[call[c].thread].at = "done"

DoneHasDigest == \A i \in DOMAIN threads : threads[i].at = "done" => threads[i].digest # None

(* What holds under raced = FALSE.                                         *)
ThreadsApart ==
  \A i, j \in DOMAIN threads :
    i # j /\ Busy(i) /\ Busy(j) => ~Overlap(threads[i].request, threads[j].request)

Touched == {"write", "replace", "verify", "unlink", "report", "done"}

(* A busy thread finds its path as its last step left it, and no record    *)
(* names that path.                                                        *)
OnTrack(t) ==
  /\ t.at \in {"write", "replace"} => files[t.request.path] = None
  /\ t.at = "replace" => temp[t.request.path] = t.request.content
  /\ t.at \in {"verify", "unlink", "report", "done"} =>
       files[t.request.path] = t.request.content
  /\ t.at = "done" => t.digest = t.request.content
  /\ t.at \in Touched =>
       \A k \in Key : ledger[k] # None => ledger[k].request.path # t.request.path

BusyOnTrack == \A i \in DOMAIN threads : Busy(i) => OnTrack(threads[i])

Unrecorded == \A c \in Caller : Waiting(c) => ledger[call[c].request.key] = None

RecordsIntact ==
  \A k \in Key : ledger[k] # None =>
    /\ ledger[k].request.key = k
    /\ files[ledger[k].request.path] = ledger[k].request.content
    /\ ledger[k].artifact = [path |-> ledger[k].request.path,
                             content |-> ledger[k].request.content]

DeliveredIsRecorded ==
  \A k \in Key : \A q \in delivered[k] : ledger[k] # None /\ ledger[k].request = q

Backed(a) == \E k \in Key : ledger[k] # None /\ ledger[k].artifact = a

CompleteIsBacked == \A c \in Caller : call[c].at = "complete" => Backed(call[c].artifact)

Undisturbed ==
  /\ ThreadsApart /\ BusyOnTrack /\ Unrecorded
  /\ RecordsIntact /\ DeliveredIsRecorded /\ CompleteIsBacked

RegistryInv ==
  /\ RegistryTypes /\ CallsMatch /\ DoneHasDigest
  /\ ~raced => Undisturbed

LEMMA RegistryInvInit == RegistryInit => RegistryInv
<1> SUFFICES ASSUME RegistryInit PROVE RegistryInv
  OBVIOUS
<1> USE DEF RegistryInit
<1>1. /\ threads = <<>> /\ DOMAIN threads = {}
      /\ \A c \in Caller : call[c] = NoCall
      /\ \A k \in Key : ledger[k] = None /\ delivered[k] = {}
  OBVIOUS
<1>2. NoCall \in Call /\ NoCall.at = "out"
  BY DEF NoCall, Call, Places
<1>3. RegistryTypes
  <2>1. call \in [Caller -> Call]
    BY <1>2
  <2>2. /\ files \in [Path -> Content \union {None}] /\ temp \in [Path -> Content \union {None}]
        /\ ledger \in [Key -> Record \union {None}]
    OBVIOUS
  <2>3. threads \in Seq(Thread)
    BY <1>1
  <2>4. raced \in BOOLEAN /\ delivered \in [Key -> SUBSET Request]
    OBVIOUS
  <2> QED BY <2>1, <2>2, <2>3, <2>4 DEF RegistryTypes
<1>4. CallsMatch /\ DoneHasDigest
  BY <1>1, <1>2 DEF CallsMatch, DoneHasDigest, Waiting
<1>5. ThreadsApart /\ BusyOnTrack
  BY <1>1 DEF ThreadsApart, BusyOnTrack
<1>6. Unrecorded /\ RecordsIntact /\ DeliveredIsRecorded /\ CompleteIsBacked
  BY <1>1, <1>2 DEF Unrecorded, RecordsIntact, DeliveredIsRecorded, CompleteIsBacked, Waiting
<1> QED BY <1>3, <1>4, <1>5, <1>6 DEF RegistryInv, Undisturbed

-----------------------------------------------------------------------------
(* A step of a caller that starts no thread: it goes on waiting for the    *)
(* same thread, or stops waiting, and what it delivers is recorded.        *)
LEMMA CallerStep ==
  ASSUME RegistryInv, NEW c \in Caller, NEW m \in Call,
         call' = [call EXCEPT ![c] = m],
         UNCHANGED <<files, temp, ledger, threads, raced>>,
         m.at # "out" => m.request \in Request,
         m.at = "complete" => m.artifact \in Artifact /\ (~raced => Backed(m.artifact)),
         m.at \in {"waiting", "record"} =>
           Waiting(c) /\ m.thread = call[c].thread /\ m.request = call[c].request,
         m.at = "record" => threads[m.thread].at = "done",
         delivered' \in [Key -> SUBSET Request],
         ~raced => \A k \in Key : \A q \in delivered'[k] :
           q \in delivered[k] \/ (ledger[k] # None /\ ledger[k].request = q)
  PROVE  RegistryInv'
<1> USE DEF RegistryInv
<1>1. call'[c] = m /\ \A d \in Caller \ {c} : call'[d] = call[d]
  BY DEF RegistryTypes
<1>2. RegistryTypes'
  BY DEF RegistryTypes
<1>3. CallsMatch'
  BY <1>1 DEF CallsMatch, Waiting
<1>4. DoneHasDigest'
  BY DEF DoneHasDigest
<1>5. \A i \in DOMAIN threads : Busy(i)' => Busy(i)
  BY <1>1 DEF Busy, Held, Alive, Waiting
<1>6. ASSUME ~raced PROVE Undisturbed'
  <2>1. Undisturbed
    BY <1>6
  <2>2. ThreadsApart' /\ BusyOnTrack'
    BY <1>5, <2>1 DEF Undisturbed, ThreadsApart, BusyOnTrack, OnTrack
  <2>3. Unrecorded'
    BY <1>1, <2>1 DEF Undisturbed, Unrecorded, Waiting
  <2>4. RecordsIntact' /\ DeliveredIsRecorded'
    BY <1>6, <2>1 DEF Undisturbed, RecordsIntact, DeliveredIsRecorded
  <2>5. CompleteIsBacked'
    BY <1>1, <1>6, <2>1 DEF Undisturbed, CompleteIsBacked, Backed
  <2> QED BY <2>2, <2>3, <2>4, <2>5 DEF Undisturbed
<1> QED BY <1>2, <1>3, <1>4, <1>6

LEMMA EnterInv ==
  ASSUME RegistryInv, NEW c \in Caller, NEW q \in Request, Enter(c, q)
  PROVE  RegistryInv'
<1> DEFINE m == [NoCall EXCEPT !.at = "lookup", !.request = q]
<1>1. m \in Call /\ m.at = "lookup" /\ m.request \in Request
  BY DEF NoCall, Call, Places
<1>2. call' = [call EXCEPT ![c] = m] /\ UNCHANGED <<files, temp, ledger, threads, raced, delivered>>
  BY DEF Enter, diskVars, historyVars
<1> HIDE DEF m
<1> QED BY <1>1, <1>2, CallerStep DEF RegistryInv, RegistryTypes

(* The call is over for the executor. *)
LEMMA LeaveCallInv ==
  ASSUME RegistryInv, NEW c \in Caller, call' = [call EXCEPT ![c] = NoCall],
         UNCHANGED <<diskVars, ledger, threads, historyVars>>
  PROVE  RegistryInv'
<1>1. NoCall \in Call /\ NoCall.at = "out"
  BY DEF NoCall, Call, Places
<1>2. UNCHANGED <<files, temp, ledger, threads, raced, delivered>>
  BY DEF diskVars, historyVars
<1> QED BY <1>1, <1>2, CallerStep DEF RegistryInv, RegistryTypes

(* RefuseReplay, ToolReturned, ToolRaised, ToolTimesOut: only the place of *)
(* the caller changes.                                                     *)
LEMMA PlaceInv ==
  ASSUME RegistryInv, NEW c \in Caller, NEW at \in {"record", "error"},
         call' = [call EXCEPT ![c].at = at], call[c].at # "out",
         at = "record" => In(c, "waiting") /\ Mine(c).at = "done",
         UNCHANGED <<diskVars, ledger, threads, historyVars>>
  PROVE  RegistryInv'
<1> DEFINE m == [call[c] EXCEPT !.at = at]
<1>1. call[c] \in Call /\ call[c].request \in Request
  BY DEF RegistryInv, RegistryTypes, CallsMatch
<1>2. /\ m \in Call /\ m.at = at /\ m.request = call[c].request
      /\ m.thread = call[c].thread
  BY <1>1 DEF Call, Places
<1>3. call' = [call EXCEPT ![c] = m]
  BY <1>1
<1>4. UNCHANGED <<files, temp, ledger, threads, raced, delivered>>
  BY DEF diskVars, historyVars
<1>5. m.at = "record" => Waiting(c) /\ threads[m.thread].at = "done"
  BY <1>2 DEF In, Mine, Waiting
<1> HIDE DEF m
<1> QED BY <1>1, <1>2, <1>3, <1>4, <1>5, CallerStep DEF RegistryInv, RegistryTypes

(* A replayed result is the one on record.                                 *)
LEMMA ReplayInv ==
  ASSUME RegistryInv, NEW c \in Caller, Replay(c)
  PROVE  RegistryInv'
<1> DEFINE q == call[c].request
           a == ledger[q.key].artifact
           m == [call[c] EXCEPT !.at = "complete", !.artifact = a]
<1>1. /\ call[c] \in Call /\ q \in Request /\ q.key \in Key
      /\ ledger[q.key] \in Record /\ ledger[q.key] # None /\ ledger[q.key].request = q
  BY RegistryAssumption
     DEF RegistryInv, RegistryTypes, CallsMatch, Replay, In, Recorded, SameInputs, Inputs
<1>2. a \in Artifact
  BY <1>1 DEF Record
<1>3. m \in Call /\ m.at = "complete" /\ m.request = q /\ m.artifact = a
  BY <1>1, <1>2 DEF Call, Places
<1>4. /\ call' = [call EXCEPT ![c] = m]
      /\ delivered' = [delivered EXCEPT ![q.key] = @ \union {q}]
      /\ UNCHANGED <<files, temp, ledger, threads, raced>>
  BY <1>1 DEF Replay, Complete, Recorded, diskVars
<1>5. Backed(m.artifact)
  BY <1>1, <1>3 DEF Backed
<1>6. /\ delivered' \in [Key -> SUBSET Request]
      /\ \A k \in Key : \A r \in delivered'[k] :
           r \in delivered[k] \/ (ledger[k] # None /\ ledger[k].request = r)
  BY <1>1, <1>4 DEF RegistryInv, RegistryTypes
<1> HIDE DEF m, a, q
<1> QED BY <1>1, <1>2, <1>3, <1>4, <1>5, <1>6, CallerStep

(* The tool is started: if it meets no other call, its thread is the only  *)
(* busy one on its key and path.                                           *)
LEMMA StartToolInv ==
  ASSUME RegistryInv, NEW c \in Caller, StartTool(c)
  PROVE  RegistryInv'
<1> DEFINE q == call[c].request
           n == Len(threads) + 1
           m == [call[c] EXCEPT !.at = "waiting", !.thread = n]
<1> USE DEF RegistryInv
<1>1. /\ call[c] \in Call /\ call[c].at = "lookup" /\ q \in Request /\ q.key \in Key
      /\ ledger[q.key] = None
  BY RegistryAssumption
     DEF RegistryTypes, CallsMatch, StartTool, In, Recorded, Inputs
<1>2. /\ threads \in Seq(Thread) /\ Len(threads) \in Nat /\ DOMAIN threads = 1 .. Len(threads)
      /\ n \in Nat /\ n \notin DOMAIN threads
  BY DEF RegistryTypes
<1>3. PICK t \in Thread : t = [by |-> c, request |-> q, at |-> "exists", digest |-> None]
  BY <1>1 DEF Thread, ThreadPlaces
<1>4. /\ threads' \in Seq(Thread) /\ DOMAIN threads' = DOMAIN threads \union {n}
      /\ threads'[n] = t /\ \A i \in DOMAIN threads : threads'[i] = threads[i]
  <2>1. threads' = Append(threads, t)
    BY <1>3 DEF StartTool
  <2> QED BY <1>2, <2>1
<1>5. m \in Call /\ m.at = "waiting" /\ m.thread = n /\ m.request = q
  BY <1>1, <1>2 DEF Call, Places
<1>6. call' = [call EXCEPT ![c] = m]
  BY <1>1 DEF StartTool
<1>7. /\ t.by = c /\ t.request = q /\ t.at = "exists"
      /\ UNCHANGED <<files, temp, ledger, delivered>>
  BY <1>3 DEF StartTool, diskVars
<1>8. raced' = (\/ raced
                \/ \E i \in DOMAIN threads : Alive(i) /\ Overlap(threads[i].request, q)
                \/ \E d \in Caller : Waiting(d) /\ Overlap(call[d].request, q))
  BY DEF StartTool, Waiting
<1> HIDE DEF q, n, m
<1>9. call'[c] = m /\ \A d \in Caller \ {c} : call'[d] = call[d]
  BY <1>6 DEF RegistryTypes
<1>10. RegistryTypes'
  BY <1>4, <1>5, <1>6, <1>7, <1>8 DEF RegistryTypes
<1>11. CallsMatch'
  BY <1>1, <1>4, <1>5, <1>7, <1>9 DEF CallsMatch, Waiting
<1>12. DoneHasDigest'
  BY <1>4, <1>7 DEF DoneHasDigest
<1>13. \A i \in DOMAIN threads : Busy(i)' => Busy(i)
  <2> SUFFICES ASSUME NEW i \in DOMAIN threads, Busy(i)', ~Alive(i)
               PROVE  Held(i)
    BY DEF Busy
  <2>1. PICK d \in Caller : Waiting(d)' /\ call'[d].thread = i
    BY <1>4 DEF Busy, Held, Alive
  <2>2. d # c
    BY <1>2, <1>5, <1>9, <2>1
  <2> QED BY <1>9, <2>1, <2>2 DEF Held, Waiting
<1>14. ASSUME ~raced' PROVE Undisturbed'
  <2>1. /\ Undisturbed
        /\ \A i \in DOMAIN threads : Alive(i) => ~Overlap(threads[i].request, q)
        /\ \A d \in Caller : Waiting(d) => ~Overlap(call[d].request, q)
    BY <1>8, <1>14
  <2>2. ASSUME NEW i \in DOMAIN threads, Busy(i)
        PROVE  ~Overlap(threads[i].request, q) /\ ~Overlap(q, threads[i].request)
    <3>1. ~Overlap(threads[i].request, q)
      BY <2>1, <2>2 DEF Busy, Held, CallsMatch
    <3> QED BY <3>1 DEF Overlap
  <2>3. ThreadsApart'
    BY <1>2, <1>4, <1>7, <1>13, <2>1, <2>2 DEF Undisturbed, ThreadsApart
  <2>4. OnTrack(t)'
    BY <1>7 DEF OnTrack, Touched
  <2>5. BusyOnTrack'
    <3>1. \A i \in DOMAIN threads : Busy(i)' => OnTrack(threads[i])'
      BY <1>4, <1>7, <1>13, <2>1 DEF Undisturbed, BusyOnTrack, OnTrack
    <3> QED BY <1>4, <2>4, <3>1 DEF BusyOnTrack
  <2>6. Unrecorded'
    BY <1>1, <1>5, <1>7, <1>9, <2>1 DEF Undisturbed, Unrecorded, Waiting
  <2>7. RecordsIntact' /\ DeliveredIsRecorded'
    BY <1>7, <2>1 DEF Undisturbed, RecordsIntact, DeliveredIsRecorded
  <2>8. CompleteIsBacked'
    BY <1>5, <1>7, <1>9, <2>1 DEF Undisturbed, CompleteIsBacked, Backed
  <2> QED BY <2>3, <2>5, <2>6, <2>7, <2>8 DEF Undisturbed
<1> QED BY <1>10, <1>11, <1>12, <1>14

(* The record is the first of its key, and names what its thread wrote.    *)
LEMMA WriteRecordInv ==
  ASSUME RegistryInv, NEW c \in Caller, WriteRecord(c)
  PROVE  RegistryInv'
<1> DEFINE q == call[c].request
           i == call[c].thread
           a == [path |-> q.path, content |-> threads[i].digest]
           r == [request |-> q, artifact |-> a]
           m == [call[c] EXCEPT !.at = "complete", !.artifact = a]
<1> USE DEF RegistryInv
<1>1. /\ call[c] \in Call /\ call[c].at = "record"
      /\ q \in Request /\ q.key \in Key /\ q.path \in Path /\ q.content \in Content
  BY RegistryAssumption DEF RegistryTypes, CallsMatch, WriteRecord, In, Inputs
<1>2. /\ i \in DOMAIN threads /\ threads[i].request = q /\ threads[i].at = "done"
      /\ threads[i] \in Thread /\ threads[i].digest \in Content
  <2>1. i \in DOMAIN threads /\ threads[i].request = q /\ threads[i].at = "done"
    BY <1>1 DEF CallsMatch, Waiting
  <2>2. threads[i] \in Thread /\ threads[i].digest # None
    BY <2>1 DEF RegistryTypes, DoneHasDigest
  <2> QED BY <2>1, <2>2 DEF Thread
<1>3. a \in Artifact /\ r \in Record /\ r # None /\ r.request = q /\ r.artifact = a
  BY RegistryAssumption, <1>1, <1>2 DEF Artifact, Record
<1>4. m \in Call /\ m.at = "complete" /\ m.request = q /\ m.artifact = a
  BY <1>1, <1>3 DEF Call, Places
<1>5. /\ call' = [call EXCEPT ![c] = m]
      /\ delivered' = [delivered EXCEPT ![q.key] = @ \union {q}]
      /\ ledger' = [ledger EXCEPT ![q.key] = r]
      /\ UNCHANGED <<files, temp, threads, raced>>
  BY <1>1 DEF WriteRecord, Complete, Mine, diskVars
<1>6. a.path = q.path /\ a.content = threads[i].digest
  OBVIOUS
<1> HIDE DEF a, r, m
<1>7. call'[c] = m /\ \A d \in Caller \ {c} : call'[d] = call[d]
  BY <1>5 DEF RegistryTypes
<1>8. ledger'[q.key] = r /\ \A k \in Key \ {q.key} : ledger'[k] = ledger[k]
  BY <1>1, <1>5 DEF RegistryTypes
<1>9. RegistryTypes'
  BY <1>1, <1>3, <1>4, <1>5 DEF RegistryTypes
<1>10. CallsMatch'
  BY <1>1, <1>3, <1>4, <1>5, <1>7 DEF CallsMatch, Waiting
<1>11. DoneHasDigest'
  BY <1>5 DEF DoneHasDigest
<1>12. \A j \in DOMAIN threads : Busy(j)' => Busy(j) /\ j # i
  <2> SUFFICES ASSUME NEW j \in DOMAIN threads, Busy(j)'
               PROVE  Busy(j) /\ j # i
    OBVIOUS
  <2>1. CASE Alive(j)
    BY <1>2, <2>1 DEF Busy, Alive, Ended
  <2>2. CASE ~Alive(j)
    <3>1. PICK d \in Caller : Waiting(d)' /\ call'[d].thread = j
      BY <1>5, <2>2 DEF Busy, Held, Alive
    <3>2. d # c /\ Waiting(d) /\ call[d].thread = j
      BY <1>4, <1>7, <3>1 DEF Waiting
    <3>3. j # i
      BY <1>1, <3>2 DEF CallsMatch, Waiting
    <3> QED BY <3>2, <3>3 DEF Busy, Held
  <2> QED BY <2>1, <2>2
<1>13. ASSUME ~raced' PROVE Undisturbed'
  <2>1. Undisturbed /\ Busy(i)
    BY <1>1, <1>5, <1>13 DEF Busy, Held, Waiting
  <2>2. /\ ledger[q.key] = None
        /\ OnTrack(threads[i])
        /\ files[q.path] = q.content /\ threads[i].digest = q.content
    BY <1>1, <1>2, <2>1 DEF Undisturbed, Unrecorded, BusyOnTrack, OnTrack, Waiting
  <2>3. \A j \in DOMAIN threads : Busy(j)' =>
          /\ threads[j].request.key # q.key /\ threads[j].request.path # q.path
    BY <1>2, <1>12, <2>1 DEF Undisturbed, ThreadsApart, Overlap
  <2>4. ThreadsApart'
    BY <1>5, <1>12, <2>1 DEF Undisturbed, ThreadsApart
  <2>5. ASSUME NEW j \in DOMAIN threads, Busy(j)'
        PROVE  OnTrack(threads[j])'
    <3>1. OnTrack(threads[j])
      BY <1>12, <2>1, <2>5 DEF Undisturbed, BusyOnTrack
    <3> QED BY <1>3, <1>5, <1>8, <2>3, <2>5, <3>1 DEF OnTrack
  <2>6. BusyOnTrack'
    BY <1>5, <2>5 DEF BusyOnTrack
  <2>7. Unrecorded'
    <3> SUFFICES ASSUME NEW d \in Caller, Waiting(d)'
                 PROVE  ledger'[call'[d].request.key] = None
      BY DEF Unrecorded
    <3>1. d # c /\ Waiting(d) /\ call'[d] = call[d]
      BY <1>4, <1>7 DEF Waiting
    <3>2. /\ ledger[call[d].request.key] = None
          /\ call[d].thread \in DOMAIN threads
          /\ threads[call[d].thread].request = call[d].request
          /\ call[d].request \in Request
      BY <2>1, <3>1 DEF Undisturbed, Unrecorded, CallsMatch, Waiting
    <3>3. PICK j \in DOMAIN threads : j = call[d].thread
      BY <3>2
    <3>4. Busy(j)'
      BY <3>1, <3>3 DEF Busy, Held
    <3>5. call[d].request.key # q.key
      BY <2>3, <3>2, <3>3, <3>4
    <3>6. call[d].request.key \in Key \ {q.key}
      BY RegistryAssumption, <3>2, <3>5 DEF Inputs
    <3> QED BY <1>8, <3>1, <3>2, <3>6
  <2>8. RecordsIntact'
    <3> SUFFICES ASSUME NEW k \in Key, ledger'[k] # None
                 PROVE  /\ ledger'[k].request.key = k
                        /\ files[ledger'[k].request.path] = ledger'[k].request.content
                        /\ ledger'[k].artifact = [path |-> ledger'[k].request.path,
                                                  content |-> ledger'[k].request.content]
      BY <1>5 DEF RecordsIntact
    <3>1. CASE k = q.key
      <4>1. ledger'[k].request = q /\ ledger'[k].artifact = a
        BY <1>3, <1>8, <3>1
      <4>2. a = [path |-> q.path, content |-> q.content]
        BY <2>2 DEF a
      <4> QED BY <2>2, <3>1, <4>1, <4>2
    <3>2. CASE k # q.key
      BY <1>8, <2>1, <3>2 DEF Undisturbed, RecordsIntact
    <3> QED BY <3>1, <3>2
  <2>9. DeliveredIsRecorded'
    BY <1>1, <1>3, <1>5, <1>8, <2>1, <2>2 DEF Undisturbed, DeliveredIsRecorded, RegistryTypes
  <2>10. CompleteIsBacked'
    BY <1>1, <1>3, <1>4, <1>7, <1>8, <2>1, <2>2 DEF Undisturbed, CompleteIsBacked, Backed
  <2> QED BY <2>4, <2>6, <2>7, <2>8, <2>9, <2>10 DEF Undisturbed
<1> QED BY <1>9, <1>10, <1>11, <1>13

-----------------------------------------------------------------------------
(* A step of a thread changes what is at its own path only, where no       *)
(* record is, and is on its track again.                                   *)
LEMMA ThreadStep ==
  ASSUME RegistryInv, NEW i \in DOMAIN threads, Alive(i),
         NEW t \in Thread, threads' = [threads EXCEPT ![i] = t],
         t.by = threads[i].by, t.request = threads[i].request,
         t.at = "done" => t.digest # None,
         files' \in [Path -> Content \union {None}],
         temp' \in [Path -> Content \union {None}],
         \A p \in Path \ {t.request.path} : files'[p] = files[p] /\ temp'[p] = temp[p],
         UNCHANGED <<ledger, call, raced, delivered>>,
         ~raced => /\ OnTrack(t)'
                   /\ \/ files' = files
                      \/ \A k \in Key : ledger[k] # None =>
                           ledger[k].request.path # t.request.path
  PROVE  RegistryInv'
<1> USE DEF RegistryInv
<1>1. /\ DOMAIN threads' = DOMAIN threads /\ threads' \in Seq(Thread)
      /\ threads'[i] = t /\ \A j \in DOMAIN threads \ {i} : threads'[j] = threads[j]
      /\ \A j \in DOMAIN threads : threads[j] \in Thread
  BY DEF RegistryTypes
<1>2. RegistryTypes'
  BY <1>1 DEF RegistryTypes
<1>3. CallsMatch'
  <2> SUFFICES ASSUME NEW c \in Caller, Waiting(c)
               PROVE  /\ call[c].thread \in DOMAIN threads'
                      /\ threads'[call[c].thread].by = c
                      /\ threads'[call[c].thread].request = call[c].request
                      /\ call[c].at = "record" => threads'[call[c].thread].at = "done"
    BY DEF CallsMatch, Waiting
  <2>1. CASE call[c].thread = i
    <3>1. call[c].at # "record"
      BY <2>1 DEF CallsMatch, Alive, Ended
    <3> QED BY <1>1, <2>1, <3>1 DEF CallsMatch
  <2>2. CASE call[c].thread # i
    BY <1>1, <2>2 DEF CallsMatch
  <2> QED BY <2>1, <2>2
<1>4. DoneHasDigest'
  BY <1>1 DEF DoneHasDigest
<1>5. \A j \in DOMAIN threads : Busy(j)' => Busy(j)
  BY <1>1 DEF Busy, Held, Alive, Waiting
<1>6. \A j \in DOMAIN threads : threads'[j].request = threads[j].request
  BY <1>1
<1>7. ASSUME ~raced PROVE Undisturbed'
  <2>1. Undisturbed /\ Busy(i)
    BY <1>7 DEF Busy
  <2>2. ThreadsApart'
    BY <1>1, <1>5, <1>6, <2>1 DEF Undisturbed, ThreadsApart
  <2>3. ASSUME NEW j \in DOMAIN threads, j # i, Busy(j)'
        PROVE  OnTrack(threads[j])'
    <3>1. OnTrack(threads[j]) /\ threads[j].request.path # t.request.path
      BY <1>5, <2>1, <2>3 DEF Undisturbed, BusyOnTrack, ThreadsApart, Overlap
    <3>2. threads[j].request.path \in Path /\ threads'[j] = threads[j]
      BY <1>1, <2>3, RegistryAssumption DEF Thread, Inputs
    <3>3. /\ files'[threads[j].request.path] = files[threads[j].request.path]
          /\ temp'[threads[j].request.path] = temp[threads[j].request.path]
      BY <3>1, <3>2
    <3> QED BY <3>1, <3>2, <3>3 DEF OnTrack
  <2>4. OnTrack(t)'
    BY <1>7
  <2>5. BusyOnTrack'
    BY <1>1, <2>3, <2>4 DEF BusyOnTrack
  <2>6. Unrecorded' /\ DeliveredIsRecorded' /\ CompleteIsBacked'
    BY <2>1 DEF Undisturbed, Unrecorded, DeliveredIsRecorded, CompleteIsBacked, Waiting, Backed
  <2>7. RecordsIntact'
    <3> SUFFICES ASSUME NEW k \in Key, ledger[k] # None
                 PROVE  files'[ledger[k].request.path] = files[ledger[k].request.path]
      BY <2>1 DEF Undisturbed, RecordsIntact
    <3>1. ledger[k].request.path \in Path
      BY RegistryAssumption DEF RegistryTypes, Record, Inputs
    <3> QED BY <1>7, <3>1
  <2> QED BY <2>2, <2>5, <2>6, <2>7 DEF Undisturbed
<1> QED BY <1>2, <1>3, <1>4, <1>7

(* What the steps of a thread know about it.                               *)
LEMMA ThreadFacts ==
  ASSUME RegistryInv, NEW i \in DOMAIN threads, threads[i].at \notin Ended
  PROVE  /\ Alive(i) /\ threads[i] \in Thread
         /\ threads[i].request \in Request
         /\ threads[i].request.path \in Path /\ threads[i].request.content \in Content
         /\ ~raced => OnTrack(threads[i])
<1>1. Alive(i) /\ threads[i] \in Thread
  BY DEF RegistryInv, RegistryTypes, Alive
<1>2. /\ threads[i].request \in Request
      /\ threads[i].request.path \in Path /\ threads[i].request.content \in Content
  BY <1>1, RegistryAssumption DEF Thread, Inputs
<1>3. ~raced => OnTrack(threads[i])
  BY <1>1 DEF RegistryInv, Undisturbed, BusyOnTrack, Busy
<1> QED BY <1>1, <1>2, <1>3

(* The steps that leave the disk as it is: t is the thread afterwards.     *)
LEMMA ThreadOnly ==
  ASSUME RegistryInv, NEW i \in DOMAIN threads, Alive(i),
         NEW t \in Thread, threads' = [threads EXCEPT ![i] = t],
         t.by = threads[i].by, t.request = threads[i].request,
         t.at = "done" => t.digest # None,
         UNCHANGED <<diskVars, ledger, call, historyVars>>,
         ~raced => OnTrack(t)
  PROVE  RegistryInv'
<1>1. UNCHANGED <<files, temp, ledger, call, raced, delivered>>
  BY DEF diskVars, historyVars
<1>2. ~raced => OnTrack(t)'
  BY <1>1 DEF OnTrack
<1> QED BY <1>1, <1>2, ThreadStep DEF RegistryInv, RegistryTypes

LEMMA CheckAbsentInv ==
  ASSUME RegistryInv, NEW i \in DOMAIN threads, CheckAbsent(i)
  PROVE  RegistryInv'
<1>1. threads[i].at = "exists" /\ threads[i].at \notin Ended
  BY DEF CheckAbsent, Ended
<1>2. PICK at \in {"write", "failed"} :
        /\ at = IF files[threads[i].request.path] = None THEN "write" ELSE "failed"
        /\ threads' = [threads EXCEPT ![i].at = at]
  BY DEF CheckAbsent, GoTo
<1>3. PICK t \in Thread : t = [threads[i] EXCEPT !.at = at]
  BY <1>1, ThreadFacts DEF Thread, ThreadPlaces, Ended
<1>4. /\ t.by = threads[i].by /\ t.request = threads[i].request /\ t.at = at
      /\ threads' = [threads EXCEPT ![i] = t]
  BY <1>1, <1>2, <1>3, ThreadFacts DEF Thread
<1>5. ASSUME ~raced, at = "write" PROVE OnTrack(t)
  <2>1. files[t.request.path] = None
    BY <1>2, <1>4, <1>5
  <2>2. \A k \in Key : ledger[k] # None => ledger[k].request.path # t.request.path
    <3> SUFFICES ASSUME NEW k \in Key, ledger[k] # None, ledger[k].request.path = t.request.path
                 PROVE  FALSE
      OBVIOUS
    <3>1. ledger[k].request.content \in Content
      BY RegistryAssumption DEF RegistryInv, RegistryTypes, Record, Inputs
    <3> QED BY <1>5, <2>1, <3>1, RegistryAssumption DEF RegistryInv, Undisturbed, RecordsIntact
  <2> QED BY <1>4, <1>5, <2>1, <2>2 DEF OnTrack
<1>6. ~raced => OnTrack(t)
  <2>1. at = "failed" => OnTrack(t)
    BY <1>4 DEF OnTrack, Touched
  <2> QED BY <1>5, <2>1
<1>7. UNCHANGED <<diskVars, ledger, call, historyVars>> /\ Alive(i)
  BY <1>1 DEF CheckAbsent, Alive
<1> QED BY <1>2, <1>4, <1>6, <1>7, ThreadOnly

LEMMA WriteTempInv ==
  ASSUME RegistryInv, NEW i \in DOMAIN threads, WriteTemp(i)
  PROVE  RegistryInv'
<1> DEFINE q == threads[i].request
<1>1. threads[i].at = "write" /\ threads[i].at \notin Ended
  BY DEF WriteTemp, Ended
<1>2. /\ Alive(i) /\ threads[i] \in Thread /\ q.path \in Path /\ q.content \in Content
      /\ ~raced => OnTrack(threads[i])
  BY <1>1, ThreadFacts
<1>3. PICK t \in Thread : t = [threads[i] EXCEPT !.at = "replace"]
  BY <1>2 DEF Thread, ThreadPlaces
<1>4. /\ t.by = threads[i].by /\ t.request = q /\ t.at = "replace"
      /\ threads' = [threads EXCEPT ![i] = t]
  BY <1>2, <1>3 DEF WriteTemp, GoTo, Thread
<1>5. /\ temp' = [temp EXCEPT ![t.request.path] = t.request.content]
      /\ UNCHANGED <<files, ledger, call, raced, delivered>>
  BY <1>4 DEF WriteTemp, historyVars
<1>6. /\ temp' \in [Path -> Content \union {None}] /\ temp'[t.request.path] = t.request.content
      /\ \A p \in Path \ {t.request.path} : temp'[p] = temp[p]
  BY <1>2, <1>4, <1>5 DEF RegistryInv, RegistryTypes
<1>7. ~raced => OnTrack(t)'
  BY <1>1, <1>2, <1>4, <1>5, <1>6 DEF OnTrack, Touched
<1> QED BY <1>2, <1>4, <1>5, <1>6, <1>7, ThreadStep DEF RegistryInv, RegistryTypes

(* A thread on its track finds its own temporary file.                     *)
LEMMA ReplaceInv ==
  ASSUME RegistryInv, NEW i \in DOMAIN threads, Replace(i)
  PROVE  RegistryInv'
<1> DEFINE q == threads[i].request
<1>1. threads[i].at = "replace" /\ threads[i].at \notin Ended
  BY DEF Replace, Ended
<1>2. /\ Alive(i) /\ threads[i] \in Thread /\ q.path \in Path /\ q.content \in Content
      /\ ~raced => OnTrack(threads[i])
  BY <1>1, ThreadFacts
<1>3. PICK at \in {"failed", "verify"} :
        /\ at = IF temp[q.path] = None THEN "failed" ELSE "verify"
        /\ threads' = [threads EXCEPT ![i].at = at]
  BY DEF Replace, GoTo
<1>4. PICK t \in Thread : t = [threads[i] EXCEPT !.at = at]
  BY <1>2 DEF Thread, ThreadPlaces, Ended
<1>5. /\ t.by = threads[i].by /\ t.request = q /\ t.at = at
      /\ threads' = [threads EXCEPT ![i] = t]
  BY <1>2, <1>3, <1>4 DEF Thread
<1>6. CASE temp[q.path] = None
  <2>1. t.at = "failed" /\ UNCHANGED <<diskVars, ledger, call, historyVars>>
    BY <1>3, <1>5, <1>6 DEF Replace
  <2>2. OnTrack(t)
    BY <2>1 DEF OnTrack, Touched
  <2> QED BY <1>2, <1>5, <2>1, <2>2, ThreadOnly
<1>7. CASE temp[q.path] # None
  <2>1. /\ t.at = "verify"
        /\ files' = [files EXCEPT ![t.request.path] = temp[t.request.path]]
        /\ temp' = [temp EXCEPT ![t.request.path] = None]
        /\ UNCHANGED <<ledger, call, raced, delivered>>
    BY <1>3, <1>5, <1>7 DEF Replace, historyVars
  <2>2. /\ files' \in [Path -> Content \union {None}]
        /\ temp' \in [Path -> Content \union {None}]
        /\ files'[t.request.path] = temp[t.request.path]
        /\ \A p \in Path \ {t.request.path} : files'[p] = files[p] /\ temp'[p] = temp[p]
    BY <1>2, <1>5, <2>1 DEF RegistryInv, RegistryTypes
  <2>3. ~raced => /\ temp[t.request.path] = t.request.content
                  /\ \A k \in Key : ledger[k] # None => ledger[k].request.path # t.request.path
    BY <1>1, <1>2, <1>5 DEF OnTrack, Touched
  <2>4. ~raced => OnTrack(t)'
    BY <2>1, <2>2, <2>3 DEF OnTrack
  <2> QED BY <1>2, <1>5, <2>1, <2>2, <2>3, <2>4, ThreadStep
<1> QED BY <1>6, <1>7

LEMMA VerifyInv ==
  ASSUME RegistryInv, NEW i \in DOMAIN threads, Verify(i)
  PROVE  RegistryInv'
<1>1. threads[i].at = "verify" /\ threads[i].at \notin Ended
  BY DEF Verify, Ended
<1>2. /\ Alive(i) /\ threads[i] \in Thread
      /\ ~raced => OnTrack(threads[i])
  BY <1>1, ThreadFacts
<1>3. PICK at \in {"failed", "report", "unlink"} : threads' = [threads EXCEPT ![i].at = at]
  BY DEF Verify, GoTo
<1>4. PICK t \in Thread : t = [threads[i] EXCEPT !.at = at]
  BY <1>2 DEF Thread, ThreadPlaces, Ended
<1>5. /\ t.by = threads[i].by /\ t.request = threads[i].request /\ t.at = at
      /\ threads' = [threads EXCEPT ![i] = t]
  BY <1>2, <1>3, <1>4 DEF Thread
<1>6. ~raced => OnTrack(t)
  BY <1>1, <1>2, <1>5 DEF OnTrack, Touched
<1>7. UNCHANGED <<diskVars, ledger, call, historyVars>>
  BY DEF Verify
<1> QED BY <1>2, <1>5, <1>6, <1>7, ThreadOnly

LEMMA UnlinkInv ==
  ASSUME RegistryInv, NEW i \in DOMAIN threads, Unlink(i)
  PROVE  RegistryInv'
<1>1. threads[i].at = "unlink" /\ threads[i].at \notin Ended
  BY DEF Unlink, Ended
<1>2. /\ Alive(i) /\ threads[i] \in Thread /\ threads[i].request.path \in Path
      /\ ~raced => OnTrack(threads[i])
  BY <1>1, ThreadFacts
<1>3. PICK t \in Thread : t = [threads[i] EXCEPT !.at = "failed"]
  BY <1>2 DEF Thread, ThreadPlaces, Ended
<1>4. /\ t.by = threads[i].by /\ t.request = threads[i].request /\ t.at = "failed"
      /\ threads' = [threads EXCEPT ![i] = t]
  BY <1>2, <1>3 DEF Unlink, GoTo, Thread
<1>5. /\ files' = [files EXCEPT ![t.request.path] = None]
      /\ UNCHANGED <<temp, ledger, call, raced, delivered>>
  BY <1>4 DEF Unlink, historyVars
<1>6. /\ files' \in [Path -> Content \union {None}]
      /\ \A p \in Path \ {t.request.path} : files'[p] = files[p]
  BY <1>5 DEF RegistryInv, RegistryTypes
<1>7. OnTrack(t)'
  BY <1>4 DEF OnTrack, Touched
<1>8. ~raced => \A k \in Key : ledger[k] # None => ledger[k].request.path # t.request.path
  BY <1>1, <1>2, <1>4 DEF OnTrack, Touched
<1> QED BY <1>2, <1>4, <1>5, <1>6, <1>7, <1>8, ThreadStep DEF RegistryInv, RegistryTypes

LEMMA ReportInv ==
  ASSUME RegistryInv, NEW i \in DOMAIN threads, Report(i)
  PROVE  RegistryInv'
<1> DEFINE there == files[threads[i].request.path]
<1>1. threads[i].at = "report" /\ threads[i].at \notin Ended
  BY DEF Report, Ended
<1>2. /\ Alive(i) /\ threads[i] \in Thread /\ there \in Content \union {None}
      /\ ~raced => OnTrack(threads[i])
  BY <1>1, ThreadFacts DEF RegistryInv, RegistryTypes
<1>3. PICK at \in {"failed", "done"} : at = IF there = None THEN "failed" ELSE "done"
  OBVIOUS
<1>4. PICK t \in Thread : t = [threads[i] EXCEPT !.at = at, !.digest = there]
  BY <1>2 DEF Thread, ThreadPlaces, Ended
<1>5. /\ t.by = threads[i].by /\ t.request = threads[i].request
      /\ t.at = at /\ t.digest = there
      /\ threads' = [threads EXCEPT ![i] = t]
  BY <1>2, <1>3, <1>4 DEF Report, Thread
<1>6. ~raced => OnTrack(t)
  BY <1>1, <1>2, <1>3, <1>5 DEF OnTrack, Touched
<1>7. UNCHANGED <<diskVars, ledger, call, historyVars>>
  BY DEF Report
<1> QED BY <1>2, <1>3, <1>5, <1>6, <1>7, ThreadOnly

(* A process that stops takes its threads along: it waits for none of them *)
(* any more, so what they left is nobody's.                                *)
LEMMA StopProcessInv ==
  ASSUME RegistryInv, NEW c \in Caller, StopProcess(c)
  PROVE  RegistryInv'
<1> USE DEF RegistryInv
<1>1. /\ call' = [call EXCEPT ![c] = NoCall]
      /\ UNCHANGED <<files, temp, ledger, raced, delivered>>
  BY DEF StopProcess, diskVars, historyVars
<1>2. /\ DOMAIN threads' = DOMAIN threads /\ Len(threads) \in Nat
      /\ DOMAIN threads = 1 .. Len(threads)
      /\ \A i \in DOMAIN threads : threads[i] \in Thread
  BY DEF StopProcess, RegistryTypes
<1>3. \A i \in DOMAIN threads :
        threads'[i] = IF threads[i].by = c /\ Alive(i)
                      THEN [threads[i] EXCEPT !.at = "failed"] ELSE threads[i]
  BY DEF StopProcess
<1>4. ASSUME NEW i \in DOMAIN threads
      PROVE  /\ threads'[i] \in Thread
             /\ threads'[i].by = threads[i].by /\ threads'[i].request = threads[i].request
             /\ threads'[i].digest = threads[i].digest
             /\ \/ threads'[i] = threads[i]
                \/ threads[i].by = c /\ threads'[i].at = "failed" /\ Alive(i)
  BY <1>2, <1>3 DEF Thread, ThreadPlaces, Ended
<1>5. NoCall \in Call /\ NoCall.at = "out"
  BY DEF NoCall, Call, Places
<1>6. call'[c] = NoCall /\ \A d \in Caller \ {c} : call'[d] = call[d]
  BY <1>1 DEF RegistryTypes
<1>7. threads' \in Seq(Thread)
  BY <1>2, <1>4 DEF StopProcess
<1>8. RegistryTypes'
  BY <1>1, <1>5, <1>7 DEF RegistryTypes
<1>9. CallsMatch'
  <2> SUFFICES ASSUME NEW d \in Caller
               PROVE  /\ call'[d].at # "out" => call'[d].request \in Request
                      /\ call'[d].at = "complete" => call'[d].artifact \in Artifact
                      /\ Waiting(d)' =>
                           /\ call'[d].thread \in DOMAIN threads'
                           /\ threads'[call'[d].thread].by = d
                           /\ threads'[call'[d].thread].request = call'[d].request
                      /\ call'[d].at = "record" => threads'[call'[d].thread].at = "done"
    BY DEF CallsMatch
  <2>1. CASE d = c
    BY <1>5, <1>6, <2>1 DEF Waiting
  <2>2. CASE d # c
    <3>1. call'[d] = call[d] /\ (Waiting(d)' <=> Waiting(d))
      BY <1>6, <2>2 DEF Waiting
    <3>2. Waiting(d) => /\ call[d].thread \in DOMAIN threads
                        /\ threads'[call[d].thread] = threads[call[d].thread]
      BY <1>4, <2>2 DEF CallsMatch
    <3> QED BY <1>2, <3>1, <3>2 DEF CallsMatch, Waiting
  <2> QED BY <2>1, <2>2
<1>10. DoneHasDigest'
  BY <1>2, <1>4 DEF DoneHasDigest
<1>11. \A i \in DOMAIN threads : Busy(i)' => Busy(i) /\ threads'[i] = threads[i]
  <2> SUFFICES ASSUME NEW i \in DOMAIN threads, Busy(i)'
               PROVE  Busy(i) /\ threads'[i] = threads[i]
    OBVIOUS
  <2>1. CASE Alive(i)'
    BY <1>4, <2>1 DEF Busy, Alive, Ended
  <2>2. CASE Held(i)'
    <3>1. PICK d \in Caller : Waiting(d)' /\ call'[d].thread = i
      BY <2>2 DEF Held
    <3>2. d # c /\ call'[d] = call[d]
      BY <1>5, <1>6, <3>1 DEF Waiting
    <3>3. Waiting(d) /\ threads[i].by = d
      BY <3>1, <3>2 DEF CallsMatch, Waiting
    <3> QED BY <1>4, <3>1, <3>2, <3>3 DEF Busy, Held
  <2> QED BY <2>1, <2>2 DEF Busy
<1>12. ASSUME ~raced PROVE Undisturbed'
  <2>1. Undisturbed
    BY <1>12
  <2>2. ThreadsApart' /\ BusyOnTrack'
    BY <1>1, <1>2, <1>11, <2>1 DEF Undisturbed, ThreadsApart, BusyOnTrack, OnTrack
  <2>3. Unrecorded' /\ CompleteIsBacked'
    BY <1>1, <1>5, <1>6, <2>1 DEF Undisturbed, Unrecorded, CompleteIsBacked, Backed, Waiting
  <2>4. RecordsIntact' /\ DeliveredIsRecorded'
    BY <1>1, <2>1 DEF Undisturbed, RecordsIntact, DeliveredIsRecorded
  <2> QED BY <2>2, <2>3, <2>4 DEF Undisturbed
<1> QED BY <1>1, <1>8, <1>9, <1>10, <1>12

(* The steps of execute and of the threads together.                       *)
LEMMA ExecuteStepInv ==
  ASSUME RegistryInv, NEW c \in Caller, ExecuteStep(c)
  PROVE  RegistryInv'
<1>1. CASE Replay(c)
  BY <1>1, ReplayInv
<1>2. CASE RefuseReplay(c)
  <2>1. /\ call' = [call EXCEPT ![c].at = "error"] /\ call[c].at # "out"
        /\ UNCHANGED <<diskVars, ledger, threads, historyVars>>
    BY <1>2 DEF RefuseReplay, In
  <2> QED BY <2>1, PlaceInv
<1>3. CASE StartTool(c)
  BY <1>3, StartToolInv
<1>4. CASE ToolReturned(c)
  <2>1. /\ call' = [call EXCEPT ![c].at = "record"] /\ call[c].at # "out"
        /\ In(c, "waiting") /\ Mine(c).at = "done"
        /\ UNCHANGED <<diskVars, ledger, threads, historyVars>>
    BY <1>4 DEF ToolReturned, In
  <2> QED BY <2>1, PlaceInv
<1>5. CASE ToolRaised(c) \/ ToolTimesOut(c)
  <2>1. /\ call' = [call EXCEPT ![c].at = "error"] /\ call[c].at # "out"
        /\ UNCHANGED <<diskVars, ledger, threads, historyVars>>
    BY <1>5 DEF ToolRaised, ToolTimesOut, In
  <2> QED BY <2>1, PlaceInv
<1>6. CASE WriteRecord(c)
  BY <1>6, WriteRecordInv
<1> QED BY <1>1, <1>2, <1>3, <1>4, <1>5, <1>6 DEF ExecuteStep

LEMMA ToolStepInv ==
  ASSUME RegistryInv, NEW i \in DOMAIN threads, ToolStep(i)
  PROVE  RegistryInv'
BY CheckAbsentInv, WriteTempInv, ReplaceInv, VerifyInv, UnlinkInv, ReportInv DEF ToolStep

LEMMA RegistryStutter ==
  ASSUME RegistryInv, UNCHANGED registryVars
  PROVE  RegistryInv'
<1>1. UNCHANGED <<files, temp, ledger, threads, call, raced, delivered>>
  BY DEF registryVars
<1>2. RegistryTypes' /\ CallsMatch' /\ DoneHasDigest'
  BY <1>1 DEF RegistryInv, RegistryTypes, CallsMatch, DoneHasDigest, Waiting
<1>3. Undisturbed' <=> Undisturbed
  BY <1>1 DEF Undisturbed, ThreadsApart, BusyOnTrack, OnTrack, Unrecorded, RecordsIntact,
              DeliveredIsRecorded, CompleteIsBacked, Backed, Busy, Held, Alive, Waiting
<1> QED BY <1>1, <1>2, <1>3 DEF RegistryInv

(* As long as no calls overlapped, records are for ever.                   *)
LEMMA RecordsStay ==
  ASSUME RegistryInv, ~raced,
         \/ \E c \in Caller : ExecuteStep(c)
         \/ UNCHANGED ledger
  PROVE  \A k \in Key : ledger[k] # None => ledger'[k] = ledger[k]
<1>1. CASE UNCHANGED ledger
  BY <1>1
<1>2. ASSUME NEW c \in Caller, ExecuteStep(c), ledger' # ledger
      PROVE  \A k \in Key : ledger[k] # None => ledger'[k] = ledger[k]
  <2>1. WriteRecord(c)
    BY <1>2 DEF ExecuteStep, Replay, RefuseReplay, StartTool, ToolReturned, ToolRaised,
                ToolTimesOut
  <2>2. ledger[call[c].request.key] = None
    BY <2>1 DEF RegistryInv, Undisturbed, Unrecorded, Waiting, WriteRecord, In
  <2>3. \A k \in Key \ {call[c].request.key} : ledger'[k] = ledger[k]
    BY <2>1 DEF WriteRecord, RegistryInv, RegistryTypes
  <2> QED BY <2>2, <2>3
<1> QED BY <1>1, <1>2

-----------------------------------------------------------------------------
(* The executor: only a caller that works off requests is in the registry, *)
(* and what it has collected was saved.                                    *)
Execution == [at : {"idle", "agent", "tools"}, rounds : 0 .. MaxRounds, left : 0 .. MaxBatch,
              artifacts : SUBSET Artifact]
Answer == [declared : SUBSET Artifact, artifacts : SUBSET Artifact]

(* What an observation lists for its calls only. *)
OfCalls(w) == w.artifacts \ w.declared

ExecutorTypes ==
  /\ exec \in [Caller -> Execution]
  /\ answer \in [Caller -> Answer]

CallsInRounds ==
  \A c \in Caller :
    /\ exec[c].at # "tools" => call[c].at = "out"
    /\ exec[c].at = "tools" => exec[c].left > 0 /\ exec[c].rounds < MaxRounds

CollectedIsSaved ==
  \A c \in Caller : exec[c].artifacts \union OfCalls(answer[c]) \subseteq toolRuns

SavedIsBacked == ~raced => \A a \in toolRuns : Backed(a)

ExecutorInv ==
  /\ RegistryInv /\ ExecutorTypes /\ CallsInRounds
  /\ CollectedIsSaved /\ SavedIsBacked

(* A last observation lists for its calls what they collected, at most.    *)
LEMMA Observed ==
  ASSUME NEW D \in SUBSET Artifact, NEW A \in SUBSET Artifact
  PROVE  Observation(D, A) \in Answer /\ OfCalls(Observation(D, A)) \subseteq A
BY DEF Observation, Answer, OfCalls

LEMMA NothingObserved == NoAnswer \in Answer /\ OfCalls(NoAnswer) = {}
BY DEF NoAnswer, Observation, Answer, OfCalls

LEMMA ExecutorInvInit == Init => ExecutorInv
<1> SUFFICES ASSUME Init PROVE ExecutorInv
  OBVIOUS
<1>1. RegistryInv
  BY RegistryInvInit DEF Init
<1>2. Idle \in Execution /\ Idle.at = "idle" /\ Idle.artifacts = {}
  BY ExecutorAssumption DEF Idle, Execution
<1>3. \A c \in Caller : exec[c] = Idle /\ answer[c] = NoAnswer /\ call[c].at = "out"
  BY DEF Init, RegistryInit, NoCall
<1>4. ExecutorTypes
  BY <1>2, NothingObserved DEF Init, ExecutorTypes
<1>5. CallsInRounds /\ CollectedIsSaved /\ SavedIsBacked
  BY <1>2, <1>3, NothingObserved DEF Init, CallsInRounds, CollectedIsSaved, SavedIsBacked
<1> QED BY <1>1, <1>4, <1>5 DEF ExecutorInv

(* Backing is not lost by a step that keeps the records.                   *)
LEMMA SavedStaysBacked ==
  ASSUME SavedIsBacked, raced => raced',
         ~raced => \A k \in Key : ledger[k] # None => ledger'[k] = ledger[k],
         ~raced' => \A a \in toolRuns' : a \in toolRuns \/ Backed(a)
  PROVE  SavedIsBacked'
<1> SUFFICES ASSUME ~raced', NEW a \in toolRuns'
             PROVE  Backed(a)'
  BY DEF SavedIsBacked
<1>1. Backed(a)
  BY DEF SavedIsBacked
<1> QED BY <1>1 DEF Backed

(* A step of the execution of c: e and w are its execution and its answer  *)
(* afterwards.                                                             *)
LEMMA ExecutionStep ==
  ASSUME ExecutorInv, RegistryInv', NEW c \in Caller, NEW e \in Execution,
         NEW w \in Answer,
         exec' = [exec EXCEPT ![c] = e], answer' = [answer EXCEPT ![c] = w],
         e.artifacts \union OfCalls(w) \subseteq toolRuns', toolRuns \subseteq toolRuns',
         e.at = "tools" => e.left > 0 /\ e.rounds < MaxRounds,
         e.at # "tools" => call'[c].at = "out",
         \A d \in Caller \ {c} : call'[d] = call[d],
         SavedIsBacked'
  PROVE  ExecutorInv'
<1> USE DEF ExecutorInv
<1>1. /\ exec'[c] = e /\ \A d \in Caller \ {c} : exec'[d] = exec[d]
      /\ answer'[c] = w /\ \A d \in Caller \ {c} : answer'[d] = answer[d]
  BY DEF ExecutorTypes
<1>2. ExecutorTypes'
  BY DEF ExecutorTypes
<1>3. CallsInRounds'
  BY <1>1 DEF CallsInRounds
<1>4. CollectedIsSaved'
  BY <1>1 DEF CollectedIsSaved
<1> QED BY <1>2, <1>3, <1>4

(* The next request of c, or its next round.                               *)
LEMMA NextRequestStep ==
  ASSUME ExecutorInv, RegistryInv', NEW c \in Caller, NEW got \in SUBSET Artifact,
         NextRequest(c, got), exec[c].at = "tools", UNCHANGED answer,
         toolRuns' = toolRuns \union got,
         call'[c].at = "out", \A d \in Caller \ {c} : call'[d] = call[d],
         SavedIsBacked'
  PROVE  ExecutorInv'
<1> DEFINE e == [exec[c] EXCEPT
                   !.at = IF exec[c].left = 1 THEN "agent" ELSE "tools",
                   !.left = @ - 1,
                   !.rounds = IF exec[c].left = 1 THEN @ + 1 ELSE @,
                   !.artifacts = @ \union got]
<1>1. /\ exec[c] \in Execution /\ exec[c].left > 0 /\ exec[c].rounds < MaxRounds
      /\ exec[c].artifacts \union OfCalls(answer[c]) \subseteq toolRuns
      /\ answer[c] \in Answer
  BY DEF ExecutorInv, ExecutorTypes, CallsInRounds, CollectedIsSaved
<1>2. /\ e.at = IF exec[c].left = 1 THEN "agent" ELSE "tools"
      /\ e.left = exec[c].left - 1
      /\ e.rounds = IF exec[c].left = 1 THEN exec[c].rounds + 1 ELSE exec[c].rounds
      /\ e.artifacts = exec[c].artifacts \union got
  BY <1>1 DEF Execution
<1>3. e \in Execution
  <2>1. /\ exec[c].left \in 0 .. MaxBatch /\ exec[c].rounds \in 0 .. MaxRounds
        /\ exec[c].artifacts \in SUBSET Artifact
    BY <1>1 DEF Execution
  <2>2. /\ (IF exec[c].left = 1 THEN exec[c].rounds + 1 ELSE exec[c].rounds) \in 0 .. MaxRounds
        /\ exec[c].left - 1 \in 0 .. MaxBatch
        /\ (IF exec[c].left = 1 THEN "agent" ELSE "tools") \in {"idle", "agent", "tools"}
        /\ exec[c].artifacts \union got \in SUBSET Artifact
    BY <1>1, <2>1, ExecutorAssumption
  <2> QED BY <1>1, <2>2 DEF Execution
<1>4. e.at = "tools" => e.left > 0 /\ e.rounds < MaxRounds
  BY <1>1, <1>2, ExecutorAssumption DEF Execution
<1>5. exec' = [exec EXCEPT ![c] = e]
  BY <1>1 DEF NextRequest, ExecutorInv, ExecutorTypes
<1>6. answer' = [answer EXCEPT ![c] = answer[c]]
  BY DEF ExecutorInv, ExecutorTypes
<1>7. e.artifacts \union OfCalls(answer[c]) \subseteq toolRuns'
  BY <1>1, <1>2
<1> HIDE DEF e
<1> QED BY <1>1, <1>3, <1>4, <1>5, <1>6, <1>7, ExecutionStep

(* The end of an execution, whatever it answers of what it collected.      *)
LEMMA EndStep ==
  ASSUME ExecutorInv, RegistryInv', NEW c \in Caller, NEW w \in Answer,
         End(c, w), OfCalls(w) \subseteq toolRuns, UNCHANGED toolRuns,
         call'[c].at = "out", \A d \in Caller \ {c} : call'[d] = call[d],
         SavedIsBacked'
  PROVE  ExecutorInv'
<1>1. Idle \in Execution /\ Idle.at = "idle" /\ Idle.artifacts = {}
  BY ExecutorAssumption DEF Idle, Execution
<1> QED BY <1>1, ExecutionStep DEF End

LEMMA ExecutorInvNext == ExecutorInv /\ [Next]_vars => ExecutorInv'
<1> SUFFICES ASSUME ExecutorInv, [Next]_vars PROVE ExecutorInv'
  OBVIOUS
<1> USE DEF ExecutorInv
<1>1. ASSUME UNCHANGED <<ledger, raced, toolRuns>> PROVE SavedIsBacked'
  BY <1>1 DEF SavedIsBacked, Backed
<1>2. CASE UNCHANGED vars
  BY <1>1, <1>2, RegistryStutter
     DEF vars, execVars, registryVars, ExecutorTypes, CallsInRounds, CollectedIsSaved
<1>3. ASSUME NEW c \in Caller, Start(c) PROVE ExecutorInv'
  <2> DEFINE e == [Idle EXCEPT !.at = "agent"]
  <2>1. e \in Execution /\ e.at = "agent" /\ e.artifacts = {}
    BY ExecutorAssumption DEF Idle, Execution
  <2>2. call[c].at = "out" /\ UNCHANGED <<call, ledger, raced, toolRuns>>
    BY <1>3 DEF Start, CallsInRounds, registryVars
  <2>3. RegistryInv'
    BY <1>3, RegistryStutter DEF Start
  <2>4. exec' = [exec EXCEPT ![c] = e] /\ answer' = [answer EXCEPT ![c] = NoAnswer]
    BY <1>3 DEF Start
  <2> HIDE DEF e
  <2> QED BY <1>1, <2>1, <2>2, <2>3, <2>4, NothingObserved, ExecutionStep
<1>4. ASSUME NEW c \in Caller, NEW n \in 1 .. MaxBatch, AgentRequests(c, n) PROVE ExecutorInv'
  <2> DEFINE e == [exec[c] EXCEPT !.at = "tools", !.left = n]
  <2>1. /\ exec[c] \in Execution /\ answer[c] \in Answer
        /\ exec[c].rounds < MaxRounds
        /\ exec[c].artifacts \union OfCalls(answer[c]) \subseteq toolRuns
    BY <1>4 DEF AgentRequests, RoundLeft, ExecutorTypes, CollectedIsSaved
  <2>2. /\ e \in Execution /\ e.at = "tools" /\ e.left > 0 /\ e.rounds < MaxRounds
        /\ e.artifacts = exec[c].artifacts
    <3>1. n \in 0 .. MaxBatch /\ n > 0
      BY ExecutorAssumption
    <3> QED BY <2>1, <3>1 DEF Execution
  <2>3. UNCHANGED <<call, ledger, raced, toolRuns>>
    BY <1>4 DEF AgentRequests, registryVars
  <2>4. RegistryInv'
    BY <1>4, RegistryStutter DEF AgentRequests
  <2>5. exec' = [exec EXCEPT ![c] = e] /\ answer' = [answer EXCEPT ![c] = answer[c]]
    BY <1>4, <2>1 DEF AgentRequests, ExecutorTypes
  <2> HIDE DEF e
  <2> QED BY <1>1, <2>1, <2>2, <2>3, <2>4, <2>5, ExecutionStep
<1>5. ASSUME NEW c \in Caller, AgentAnswers(c) \/ AgentFails(c) \/ DenyRequest(c)
      PROVE  ExecutorInv'
  <2>1. /\ call[c].at = "out" /\ UNCHANGED <<call, ledger, raced, toolRuns>>
        /\ \/ \E D \in SUBSET Artifact : End(c, Observation(D, exec[c].artifacts))
           \/ End(c, NoAnswer)
    BY <1>5, DeclaredAssumption
       DEF AgentAnswers, AgentFails, DenyRequest, CallsInRounds, In, registryVars
  <2>2. RegistryInv'
    BY <1>5, RegistryStutter DEF AgentAnswers, AgentFails, DenyRequest
  <2>3. exec[c].artifacts \in SUBSET Artifact /\ exec[c].artifacts \subseteq toolRuns
    BY DEF ExecutorTypes, Execution, CollectedIsSaved
  <2>4. CASE \E D \in SUBSET Artifact : End(c, Observation(D, exec[c].artifacts))
    <3>1. PICK D \in SUBSET Artifact : End(c, Observation(D, exec[c].artifacts))
      BY <2>4
    <3>2. /\ Observation(D, exec[c].artifacts) \in Answer
          /\ OfCalls(Observation(D, exec[c].artifacts)) \subseteq toolRuns
      BY <2>3, Observed
    <3> QED BY <1>1, <2>1, <2>2, <3>1, <3>2, EndStep
  <2>5. CASE End(c, NoAnswer)
    BY <1>1, <2>1, <2>2, <2>5, NothingObserved, EndStep
  <2> QED BY <2>1, <2>4, <2>5
<1>6. ASSUME NEW c \in Caller, NEW q \in Request, RunTool(c, q) PROVE ExecutorInv'
  <2>1. RegistryInv'
    BY <1>6, EnterInv DEF RunTool
  <2>2. /\ exec[c].at = "tools" /\ UNCHANGED <<exec, answer, toolRuns, ledger, raced>>
        /\ \A d \in Caller \ {c} : call'[d] = call[d]
    BY <1>6 DEF RunTool, Enter, execVars, historyVars, RegistryInv, RegistryTypes
  <2>3. ExecutorTypes' /\ CallsInRounds' /\ CollectedIsSaved'
    BY <2>2 DEF ExecutorTypes, CallsInRounds, CollectedIsSaved
  <2> QED BY <1>1, <2>1, <2>2, <2>3
<1>7. ASSUME NEW c \in Caller, RefuseRequest(c) PROVE ExecutorInv'
  <2>1. /\ call[c].at = "out" /\ UNCHANGED <<call, ledger, raced, toolRuns, answer>>
        /\ exec[c].at = "tools" /\ NextRequest(c, {}) /\ toolRuns' = toolRuns \union {}
    BY <1>7 DEF RefuseRequest, In, registryVars
  <2>2. RegistryInv'
    BY <1>7, RegistryStutter DEF RefuseRequest
  <2> QED BY <1>1, <2>1, <2>2, NextRequestStep
<1>8. ASSUME NEW c \in Caller, ToolFailed(c) \/ SaveConflict(c) PROVE ExecutorInv'
  <2>1. /\ call[c].at # "out" /\ UNCHANGED <<diskVars, ledger, threads, historyVars>>
        /\ UNCHANGED <<ledger, raced, toolRuns, answer>>
        /\ call' = [call EXCEPT ![c] = NoCall]
        /\ NextRequest(c, {}) /\ toolRuns' = toolRuns \union {}
    BY <1>8 DEF ToolFailed, SaveConflict, In, historyVars
  <2>2. RegistryInv'
    BY <2>1, LeaveCallInv
  <2>3. exec[c].at = "tools"
    BY <2>1 DEF CallsInRounds
  <2>4. call'[c].at = "out" /\ \A d \in Caller \ {c} : call'[d] = call[d]
    BY <2>1 DEF NoCall, RegistryInv, RegistryTypes
  <2> QED BY <1>1, <2>1, <2>2, <2>3, <2>4, NextRequestStep
<1>9. ASSUME NEW c \in Caller, SaveToolRun(c) PROVE ExecutorInv'
  <2> DEFINE a == call[c].artifact
  <2>1. /\ call[c].at = "complete" /\ UNCHANGED <<diskVars, ledger, threads, historyVars>>
        /\ UNCHANGED <<ledger, raced, answer>>
        /\ call' = [call EXCEPT ![c] = NoCall]
        /\ NextRequest(c, {a}) /\ toolRuns' = toolRuns \union {a}
    BY <1>9 DEF SaveToolRun, In, historyVars
  <2>2. RegistryInv'
    BY <2>1, LeaveCallInv
  <2>3. exec[c].at = "tools"
    BY <2>1 DEF CallsInRounds
  <2>4. call'[c].at = "out" /\ \A d \in Caller \ {c} : call'[d] = call[d]
    BY <2>1 DEF NoCall, RegistryInv, RegistryTypes
  <2>5. a \in Artifact /\ (~raced => Backed(a))
    BY <2>1 DEF RegistryInv, CallsMatch, Undisturbed, CompleteIsBacked
  <2>6. SavedIsBacked'
    BY <2>1, <2>5, SavedStaysBacked
  <2> QED BY <2>1, <2>2, <2>3, <2>4, <2>5, <2>6, NextRequestStep
<1>10. ASSUME NEW c \in Caller, ExecuteStep(c), UNCHANGED execVars PROVE ExecutorInv'
  <2>1. RegistryInv'
    BY <1>10, ExecuteStepInv
  <2>2. UNCHANGED <<exec, answer, toolRuns>>
    BY <1>10 DEF execVars
  <2>3. /\ call[c].at # "out" /\ \A d \in Caller \ {c} : call'[d] = call[d]
        /\ raced => raced'
    BY <1>10 DEF ExecuteStep, Replay, RefuseReplay, StartTool, ToolReturned, ToolRaised,
                 ToolTimesOut, WriteRecord, In, Complete, historyVars, RegistryInv,
                 RegistryTypes
  <2>4. CallsInRounds'
    BY <2>2, <2>3 DEF CallsInRounds
  <2>5. SavedIsBacked'
    <3>1. ~raced => \A k \in Key : ledger[k] # None => ledger'[k] = ledger[k]
      BY <1>10, RecordsStay
    <3> QED BY <2>2, <2>3, <3>1, SavedStaysBacked
  <2>6. ExecutorTypes' /\ CollectedIsSaved'
    BY <2>2 DEF ExecutorTypes, CollectedIsSaved
  <2> QED BY <2>1, <2>4, <2>5, <2>6
<1>11. ASSUME NEW c \in Caller, Crash(c) PROVE ExecutorInv'
  <2>1. RegistryInv'
    BY <1>11, StopProcessInv DEF Crash
  <2>2. /\ UNCHANGED <<ledger, raced, toolRuns>> /\ End(c, NoAnswer)
        /\ call'[c].at = "out" /\ \A d \in Caller \ {c} : call'[d] = call[d]
    BY <1>11 DEF Crash, StopProcess, historyVars, NoCall, RegistryInv, RegistryTypes
  <2> QED BY <1>1, <2>1, <2>2, NothingObserved, EndStep
<1>12. ASSUME Threads PROVE ExecutorInv'
  <2>1. PICK i \in DOMAIN threads : ToolStep(i)
    BY <1>12 DEF Threads
  <2>2. RegistryInv'
    BY <2>1, ToolStepInv
  <2>3. UNCHANGED <<exec, answer, toolRuns, ledger, raced, call>>
    BY <1>12, <2>1 DEF Threads, execVars, ToolStep, CheckAbsent, WriteTemp, Replace, Verify,
                       Unlink, Report, historyVars
  <2> QED BY <1>1, <2>2, <2>3 DEF ExecutorTypes, CallsInRounds, CollectedIsSaved
<1>13. ASSUME Next PROVE ExecutorInv'
  BY <1>3, <1>4, <1>5, <1>6, <1>7, <1>8, <1>9, <1>10, <1>11, <1>12, <1>13
     DEF Next, Agent, Executor
<1> QED BY <1>2, <1>13

-----------------------------------------------------------------------------
(* The invariant of the registry and the executor.                         *)
THEOREM ExecutorInvariant == Spec => []ExecutorInv
BY ExecutorInvInit, ExecutorInvNext, PTL DEF Spec

(* A key stands for one call, for any number of processes, retries, late   *)
(* threads and crashes, unless calls on one key or path overlapped.        *)
THEOREM KeyMeansOneCall == Spec => []OneRequestPerKey
<1>1. ExecutorInv => OneRequestPerKey
  BY DEF ExecutorInv, RegistryInv, Undisturbed, DeliveredIsRecorded, OneRequestPerKey
<1> QED BY <1>1, ExecutorInvariant, PTL

(* Under the same condition the artifact of every record stays on disk     *)
(* with the content its request asked for.                                 *)
THEOREM RecordsStandOnDisk == Spec => []RecordedIntact
<1>1. ExecutorInv => RecordedIntact
  BY DEF ExecutorInv, RegistryInv, Undisturbed, RecordsIntact, RecordedIntact
<1> QED BY <1>1, ExecutorInvariant, PTL

(* The artifacts an observation lists for the calls of its execution, not  *)
(* by the agent's own declaration, were saved in the canonical state and,  *)
(* under the same condition, are on record and on disk.                    *)
THEOREM AnswersAreBacked == Spec => []AnswerIsBacked
<1>1. ExecutorInv => AnswerIsBacked
  <2> SUFFICES ASSUME ExecutorInv, NEW c \in Caller,
                      NEW a \in exec[c].artifacts \union (answer[c].artifacts \ answer[c].declared)
               PROVE  /\ a \in toolRuns
                      /\ ~raced => /\ files[a.path] = a.content
                                   /\ \E k \in Key : ledger[k] # None /\ ledger[k].artifact = a
    BY DEF AnswerIsBacked
  <2>1. a \in toolRuns
    BY DEF ExecutorInv, CollectedIsSaved, OfCalls
  <2>2. ASSUME ~raced
        PROVE  /\ files[a.path] = a.content
               /\ \E k \in Key : ledger[k] # None /\ ledger[k].artifact = a
    <3>1. PICK k \in Key : ledger[k] # None /\ ledger[k].artifact = a
      BY <2>1, <2>2 DEF ExecutorInv, SavedIsBacked, Backed
    <3>2. /\ files[ledger[k].request.path] = ledger[k].request.content
          /\ a = [path |-> ledger[k].request.path, content |-> ledger[k].request.content]
      BY <2>2, <3>1 DEF ExecutorInv, RegistryInv, Undisturbed, RecordsIntact
    <3> QED BY <3>1, <3>2
  <2> QED BY <2>1, <2>2
<1> QED BY <1>1, ExecutorInvariant, PTL
=============================================================================
