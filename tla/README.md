# Verification of the research runtime and its tools

These modules specify this repository: the kernel `research_os/` (the persistent
loop of the Research Director, the task graph it works through, the backends
that keep its canonical state when several processes use one run directory, stop
half way, and disagree about what is current, and the tools and adapters its
agents act with) and the scripts of its skills that change files or a library.
TLC checks them on small instances; TLAPS proves the results of eight modules
for every value of the constants.

Paths below are relative to the repository; modules of the kernel without a
directory are in `research_os/`.

## 1. The system

### Components

| Component | State it keeps | Operations | Modelled |
|---|---|---|---|
| `StateBackend` (contract, `state_backends.py:17-30`) | one canonical state, its version, events, checkpoints, a run lock | `create`, `load_with_version`, `save`, `append_event`, `recover_latest`, `acquire/release_run_lock`, `verify` | `StateBackend`, `RunLock` |
| `SQLiteStateBackend` (`state_backends.py`) | a database row, an events table, a lock table; checkpoint files; the mirrors `state.json`, `events.jsonl` | the same | `SQLiteStateBackend`, `RunLock` |
| `ResearchStateStore` (`store.py`) | `state.json`, `events.jsonl`, `backend-meta.json`, `checkpoints/`, `.state-write.lock`, `.run.lock` | the same | `FileStateBackend`, `FileRunLock` |
| Planner (`planner.py`, `planning.py`) | none: it computes the next task graph | `default_graph`, `validate_dag`, `feedback_tasks`, `validate_proposal`, `merge`, `add_dynamic_tasks` | `Planner`, `DefaultGraph`, `DagVisit` |
| `ResearchRuntime` (`runtime.py`) | the fields of the canonical state: task graph, statuses, attempts, human actions, agent packets, budgets, `lifecycle_status` | `initialize`, `run`, `resume`, `pause`, `decide`, `observe_agent`, `reconstruct` | `ResearchRuntime` |
| Command line (`scripts/research_agent.py`) | none: each command is a process that loads, acts, saves | one command per operation above, `recover` | actions of `ResearchRuntime`; `RecoverState` of `ScientificMemory` |
| `ScientificMemoryStore` (`scientific_memory.py`) | a SQLite index derived from the state | construction, `ingest_state`, queries | `ScientificMemory` |
| `AgentExecutor` (`executor.py`) | the tool calls of one attempt, in memory | `execute`, `resume` | `AgentExecutor` |
| `ToolRegistry` (`tools.py`), `artifact_write` (`native_tools.py`) | idempotency records, project files and their `.tmp` files | `register`, `execute` | `ToolRegistry` |
| Tools that run programs (`native_tools.py`), local isolation (`sandbox.py`, `isolation.py`) | an output directory, process groups, receipts | `python_execute`, `_engine_execute`, `latex_compile` | `EngineExecution` |
| `ContextPacker` (`context.py`) | none: it reads the state and the project | `pack` | `ContextPacker` |
| Codex adapter (`adapters/codex_cli.py`) | rounds and sessions in memory, `round-NN/` directories, CLI processes | `run_agent`, `resume_agent`, `cancel` | `CodexAdapter` |
| Other model adapters (`adapters/`) | sessions of a service | `run_agent`, `resume_agent` | what the runtime sees of them, in `AgentExecutor` |
| Zotero import (`scripts/zotero_import_local_fulltext.py`) | items and collections of a library, local and web; an audit | one run over a manifest | `ZoteroImport` |
| Open-access resolver (skill international-literature-acquisition) | a download directory, a report | one run per work | `OpenAccess` |
| CNKI download check (skill cnki-literature-acquisition) | a snapshot, an archive, a report | `snapshot`, `verify` | `CnkiDownload` |
| Empirical runs (skill economics-empirical-analysis: `empirical.py`, `stata_bridge.py`) | a run directory with inputs, results and a bundle; backups | `run`, `verify`, `backup`, Stata review | `EmpiricalRun` |
| Method preflight (same skill, `method_preflight.py`) | none | one check of a panel | `MethodPreflight` |
| Evidence verifier, guardrails, evaluation, provenance, observability, migrations, other tools, scripts and skills, schemas | reports, append-only records, documents | | no (section 5) |

### How they interact

A command (`run`, `resume`, `pause`, `decide`, `observe`, `reconstruct`,
`recover`) is a process. It builds a backend for the run directory, loads the
state with its version, changes its own copy, and calls `save` with the version
it loaded. A save whose version is no longer current raises
`StateConflictError`; that is the only thing that separates two processes,
because no code path of the kernel takes the run lock. `run()` is the long
operation: it loads once, then per iteration starts the first ready task,
saves, calls a tool or delegates to an agent, saves, applies the observation,
saves. It calls the planner to merge the tasks an agent proposes, the context
packer to show an agent the results of its predecessors, and the executor, whose
tool calls save through the runtime again. After each save the runtime ingests
the state into the memory index, which is a database of its own. An adapter
turns a request of the executor into a model call; the Codex adapter starts a
process for it, with a directory per round. A person answers through `decide`
and `observe` while a run is stopped, or while it is not.

The scripts of the skills share no state with the kernel and none with each
other: an agent or a person runs them, and the kernel sees their files as
artifacts.

### What is hard

* **Interleaving.** Two runners in the loop, a pause or a decision between two
  saves of a runner, two writers inside `save`, a load between two file writes;
  a browser that writes while a download is checked, a person who edits the item
  a script is about to write back.
* **Stale state.** Everything a process computes rests on what it loaded. The
  version check must catch every case in which that is old; an index, a hash or
  a script's approval is older than the moment it is used.
* **Crashes.** A process may stop between any two file operations of `save` or
  any two saves of `run()`. Lock files, half-written saves, started tasks,
  directories and child processes remain.
* **Retries and timeouts.** Lock waits end after ten seconds; a recovery turns
  any failure into "try the older checkpoint"; attempts and replans are
  budgeted and re-queued; a request whose answer was lost is sent again.
* **Effects outside the state.** A tool call writes a file, a replay record and
  a saved tool run, one after the other; a tool or a program that timed out goes
  on while the agent tries again.
* **Protocols over time.** One human action per wait, one packet per wait,
  gates passed only with approval, a graph that grows while it is executed and
  must neither dead-end nor lose its final audit.

`PROJECT.json` lists each of these hazards at its line, with the properties
aimed at it or the reason why there is none.

### What makes each component correct

* Contract and SQLite backend: no update is overwritten unseen, a stale state
  is always detected, events follow versions, the canonical state has a
  checkpoint; the mirrors show only committed states.
* File backend: the lock excludes, versions acknowledged to callers are unique,
  acknowledged states are recoverable, event numbers leave no gap, calls end.
* Run lock: at most one holder, removed by its owner only.
* Memory index: it shows only what was canonical, and is behind only for a
  reason.
* Planner: exactly the cyclic, duplicated, dangling and self-verifying graphs
  are refused, with the exception the caller handles (or does not).
* Tools, executor and adapter: a key stands for one effect, a recorded artifact
  stays as recorded, an answer lists only what was saved and is there and is the
  answer to this call, a receipt tells of its own program, and no agent and no
  hanging tool keeps an execution from ending.
* Context packer: an agent sees all and only what its task may see.
* Runtime: waits and the actions and packets that end them correspond one to
  one; retries, replans and approvals are bounded and counted; gates need
  approval; pause stops starts; what is finished stays finished; the run ends
  complete only when it is; `run()` returns.
* Scripts: what a report calls verified, filed, complete or passed is so, and
  stays so, whatever changed while the script looked at it; edits and results
  of others are not overwritten.

## 2. Modules

```
RunLock <------- (refines) -- FileRunLock
StateBackend <-- (refines) -- SQLiteStateBackend <-- SQLiteStateBackendProofs
     ^                        FileStateBackend <---- FileStateBackendProofs
     +-- ScientificMemory <-- MCScientificMemory, StateBackendProofs
Planner <-- DagVisit
   ^
   +-- ResearchRuntime <-- MCResearchRuntime, ResearchRuntimeProofs
            ^---------- MCDefaultGraph (with DefaultGraph)
ToolRegistry <-- AgentExecutor <-- MCAgentExecutor, AgentExecutorProofs
MCStandalone: FileRunLock, CodexAdapter, EngineExecution, ContextPacker, DagVisit,
              OpenAccess, CnkiDownload, ZoteroImport, EmpiricalRun, MethodPreflight
KernelProofs: of the first five;  SkillProofs: of the other five
InductionLemmas <-- KernelProofs, SkillProofs
```

**StateBackend.** The contract, one atomic action per call. The content of a
state is the set of updates it incorporates; every save adds one update of its
own, so a lost update is an element that disappears. `Save` needs the loaded
version to be current; `FailSave` and `Leave` drop the client's state;
`Recover` makes an old checkpoint the content of a new version.

**ScientificMemory.** The index behind the contract, which it extends: `Open` is
a runtime that loads and ingests, `SaveState` a save after which the runtime
owes an ingestion, `Ingest` pays it, in whatever order runtimes come to it;
`SaveFails` and `Stop` lose it, and `RecoverState` is the command `recover`, which
builds no runtime. `known` is what the rows of the index were ever made from,
`shown` what the rows of project and tasks say now.

**SQLiteStateBackend.** One action per step that another process can see:
`BeginImmediate` (or `BusyTimeout`), `StateConflict` or `WriteCheckpoint`
(a file, before the commit), `CommitSave`, then outside the transaction
`MirrorState`, `ReadEvents`, and the two effects of `write_text` on `events.jsonl`:
`TruncateEvents` empties it and `ExportEvents` writes it from its start on, perhaps
over the longer export of another process (the text is one write; a disk that
takes only a part of it is not modelled). `SaveFails` is a write that raises, before
or after the commit. `recover_latest` is `CallRecover`,
then `SkipDamaged` or `TryCheckpoint` and a save per candidate; `Raise` sends a
failing candidate on to the next older one. `Crash` rolls back the open
transaction and keeps the files; `Damage` corrupts a checkpoint file. `writer`
is the database write lock.
The refinement mapping (`Backend`) hides a checkpoint file written by a
transaction that has not committed, and takes an update as issued only when its
save commits or fails.

**FileStateBackend.** One action per file operation of `save`: `TakeLock`
(`O_EXCL`) or `LockTimeout`, `CheckVersion` or `StateConflict`, `WriteState`,
`AppendEvent`, `WriteMeta`, `WriteCheckpoint`, `WriteReceipt` (`state.json` once more),
`Unlock`. `load_with_version` is
the two reads `ReadState` and `ReadMeta`, which take no lock. `Crash` leaves
every file, the lock file included; `ClearStaleLock` is a person deleting it.
`issued`, `acked`, `own` and `crashed` are ghosts.

**RunLock, FileRunLock.** The table row, and the file that stands for it:
created exclusively, written, and at release looked up, read, compared and
unlinked by name, a step each. `creator` is the process that created the file
now at that path. `Exit` may come at any step.

**Planner.** `ValidateDag` computes the verdict of `validate_dag` with the
exception a caller sees (`"ValueError"`, `"KeyError"`), `Extended` the graph of
`add_dynamic_tasks`, `MergeResult` what `merge` does with an adaptive proposal.
What concerns a proposed task alone (approved agent, known and authorised tools,
approval of high-risk tools) is the field `authorised` of a proposal; `savable`
says whether the merged tasks also satisfy the state schema, which is stricter.
Acyclicity is stated as "every non-empty set of tasks has a member that depends
on none of them".

**DagVisit.** The recursive `visit` of `validate_dag` with its two sets, a step
per call and return, on every graph over a list. It justifies `Acyclic`.

**DefaultGraph.** The graphs of `default_graph` (with and without the empirical
part) and of `feedback_tasks`.

**ResearchRuntime.** A command with one save is one action. `run()` is one
action per save, with the runner's place, task, remaining steps and unsaved step
count in `run[r]`. A runner's copy equals the canonical state exactly while it
is in `fresh`; `SaveAndGo` needs `Fresh` and takes freshness from everybody
else, which is the version check. This uses the contract (proved and checked in
`StateBackend`: a current version means the current state), so it describes
runs on a backend that keeps it; `FileTornLoad` shows where the file backend
does not. Each save may add its state to `checkpoints`, and `Recover` makes any of
them the canonical state: `recover_latest` wants the newest, but goes on to an
older one after any exception (a damaged file, a conflict, a busy database), so a
recovery may roll the run back. Which files are readable then is chosen as saves
are made. A checkpoint of a SQLite save that failed before its commit holds a state
that never was canonical; restoring it is the same as that save followed by a
recovery, except for what the failed caller does, which has ended.
The correspondence:

| `runtime.py` | action |
|---|---|
| `run` 165-206: load, loop head, yield, exhausted steps | `StartRun`, `Yield`, `ExhaustSteps`, `StopRun` |
| 207-219: first ready task, `task.started` | `StartTask` |
| 178-203: resuming a waiting agent, or its packet is missing | `ResumeAgent`, `FailMissingPacket` |
| human gate, delegation, tool and final audit of a started task | `OpenGate`, `Delegate`, `ToolReturns`, `ToolRaises` |
| executor: tool calls that save, result, exception | `AgentCallsTool`, `AgentReturns`, `AgentRaises`, `EscapeRun` |
| `_apply_observation`, `_fail`, `_replan`, `_handoff`, `_complete` | `ApplyObservation`, `Fail`, `Replan`, `Handoff`, `Complete` |
| `decide`, `observe_agent`, `pause`, `resume`, `reconstruct` | `Approve`/`Reject`, `ObserveAgent`, `Pause`, `Resume`, `Reconstruct` |
| `recover_latest` (`store.py`, `state_backends.py`) | `Recover`, with `Checkpoint` as part of every save |

`EscapeRun` is an exception that leaves `run()` before anything is saved: the
`KeyError` of an unknown producer, which `_replan` does not catch, and a merged
graph the state schema refuses.

Left out of the state: fields only read by people or reports (`active_task`,
`current_stage`, `errors`, `tool_runs`, memory, traces), artifacts (their
verification succeeds or fails), and wording.

**ToolRegistry.** `ToolRegistry.execute` from the ledger lookup on, for the tool
every agent writes with. The caller's steps are `Replay` or `RefuseReplay`,
`StartTool`, then `ToolReturned`, `ToolRaised` or `ToolTimesOut`, and
`WriteRecord`; the steps of the tool's thread are those of `artifact_write`, one
per file operation, on files all processes share. A thread that timed out keeps
its place in `threads` and goes on. A content stands for its hash. `raced`
records whether two calls on one key or one path were ever under way together;
`delivered` which requests were answered "complete" under a key.

**AgentExecutor.** `_drive` around the registry: `AgentRequests` asks for a batch,
`RunTool` sends a request to the registry, `RefuseRequest`, `ToolFailed` and
`SaveConflict` hand a failed result to the agent, `SaveToolRun` a complete one
after it was saved, `DenyRequest` ends the execution, `AgentAnswers` returns the
observation. Its artifacts (`Observation`) are those the agent declares, any of
`Declared`, and those its tool calls reported; the executor compares the former with
nothing, only the runtime verifies them afterwards (`runtime.py:410-425`). `fresh` has the meaning it has in `ResearchRuntime`, where all of
this is `AgentCallsTool`, `AgentReturns` and `AgentRaises`.

**CodexAdapter.** A call enters (`RunAgent`, `ResumeAgent`), counts a round, makes
its directory and starts the process (`MakeRound`), and ends by `TimeOutCli` or
`CollectAnswer`. `CliWrites` and `CliEnds` are the process, which goes on when its
runtime does not (`RestartHost`). `cancel` looks and kills in two steps. A round
directory remembers whose process wrote its answer; `answers` pairs calls with
that.

**ContextPacker.** `pack` as the code does it: the ancestors by a loop over tasks
(`FollowTask`), then per artifact the role filter, the hash check (`VerifyHash`)
and the read (`ReadText`), and the greedy selection by score (`SelectNext`).
`WriteProject` is somebody else writing the project in between. An artifact's
terms, matches and costs (with its first 0, 1, ... excerpts) are constants.

**EngineExecution.** One action per step of a tool that runs a program: compare
the script with its approved hash, make the output directory (`FreshOutput`,
which refuses an existing one), start, write, fork a child, exit, time out and
terminate the group, hash the output, return the receipt. `EditScript` may come
between any two. `survived` records that a process of the group outlived the
call.

**ZoteroImport.** A run over the manifest, one action per request: collections,
search, `saveItems`, `saveAttachment`, the wait for the local API, `GetItem`,
`PutItem` with `If-Unmodified-Since-Version`. `ShowItem` and `SyncItem` are
Zotero making a new item visible to searches and to the web, `EditItem` is the
person. A request may fail before or after it had its effect.

**OpenAccess.** Providers are asked in turn; `Score` and `Deduplicate` merge what
they say as the code does, with its weights; `BestRows` is the dictionary of
`deduplicate`, `RowBefore` the key of its sort. Then up to three open candidates
are fetched and written under the first free name. `WriteFails` leaves a part of
a file; `StopResolver` stops the script anywhere.

**CnkiDownload.** `snapshot`, then `verify` as separate reads: the newest changed
file, its hash, its checks, a free name in the archive, the copy, and the hash of
the copy. The browser goes on writing, and files are removed, between any two.

**EmpiricalRun.** `run` from the fingerprint of the inputs to the bundle, one
action per file step: look for an earlier bundle, `mkdir`, copy, compare,
estimate each model, Stata's review, hash, write. A model that failed after its
coefficients were written (`"late"`) is still compared by the review. Callers share one `run_id`;
`ChangeInput` changes the inputs, `Stop` ends a call. `ReviewAgain` is the
standalone Stata review, the `Backup...` actions the backup.

**MethodPreflight.** The issues of each method and the verdict from the worst.
The checks of a panel are computed from its rows (every panel of the instance is
an initial state), the instrument bound from its shape by the code's own formula;
the other checks are facts of the data.

**MCStandalone.** One run for the parts that share no state: the part is chosen
at the start and its variables alone change, because interleaving them would
show nothing.

**Mutants.** Operators named `Mut...` stand before the definition they vary and
are used by none: each is a plausible bug of that code (a dropped check, a
swapped order, a missing reset). Putting it in the definition's place makes TLC
refute the property it is paired with in `PROJECT.json`; that shows that the
property depends on the code it is about.


## 3. Runs

Run one with `tlc -config X.cfg M`. Each takes at most a few minutes on two
workers.

| Run | Module, configuration | Instance | Distinct states |
|---|---|---|---|
| Contract | `MCScientificMemory`, `Contract.cfg` | 2 clients, 3 updates, 4 versions, symmetric | 12,485 |
| SQLite | `SQLiteStateBackend.cfg` | 2 clients, 2 updates, 1 damaged file, crashes, timeouts and failing mirrors | 588,616 |
| File | `FileStateBackend.cfg` | 2 clients, 2 updates, 1 damaged file, crashes and timeouts | 549,171 |
| DefaultGraph | `MCDefaultGraph`, `DefaultGraph.cfg` | the graph without the empirical part, one round of feedback | 590,635 |
| Runtime | `MCResearchRuntime`, `Runtime.cfg` | 1 runner, work/audit/gate, 2 attempts each, 5 steps, all outcomes, one follow-up and four replacement proposals | 374,471 |
| RuntimeConcurrent | `MCResearchRuntime`, `RuntimeConcurrent.cfg` | 2 runners, work/audit/gate, 1 attempt, 3 steps, pauses and crashes, one executor, one checkpoint of any save to fall back to | 126,357 |
| AgentExecutor | `MCAgentExecutor`, `AgentExecutor.cfg` | 2 processes, 2 tool threads, 3 requests over 2 keys and 1 path, 1 round of 2 requests | 357,743 |
| Standalone | `MCStandalone`, `Standalone.cfg` | ten parts, see the bounds below | 1,432,751 |

What they show:

* **Contract**: no update is lost (`NoLostUpdate`), and the index, written outside
  the transaction of a save, after failed saves too and by runtimes in any
  order, shows only contents that were canonical (`IndexShowsOnlyCommitted`). It
  lags only while the runtime that saved is about to ingest, or after an
  ingestion that was lost, overtaken or bypassed by `recover` (`IndexFollows`).
* **SQLite**: the step-by-step backend implements the contract
  (`ImplementsStateBackend`), so it inherits what is proved of it; its mirrors
  may lag but never show anything uncommitted (`MirrorsShowOnlyCommitted`); each
  save and each recovery ends (`CallsReturn`). A save whose mirror fails has been
  committed although its caller sees an exception; the caller drops the state and
  must load again, and a recovery goes on to commit an older checkpoint after its
  own.
* **File**: the file backend does not implement the contract (see
  `FileTornLoad`), so what it does keep is stated one by one. With crashes
  anywhere: one writer at a time and one state per acknowledged version
  (`WritersExclude`), `AckedIsCheckpointed`, gapless event numbers
  (`EventSequenceOrdered`), `CallsReturn`. As long as no process stopped inside
  the lock: strict event numbers, and a process that goes on from its own save
  is safe from lost updates (`OwnStateIsCurrent`).
* **DefaultGraph**: the final gate opens only when everything else is complete
  or superseded (`ReleaseNeedsReview`), when no agent passes with follow-up
  tasks.
* **Runtime**: one action per wait, one packet per wait, bounded attempts and
  replans, completeness of complete runs, and no dead end, with every outcome,
  legal and illegal proposals, repeated decisions and a runner beside the
  commands.
* **RuntimeConcurrent**: with two runners, the commands between any two of their
  saves, and recoveries that roll the run back to any earlier save: every `run()`
  returns (`RunReturns`), gates need approval (`GatesNeedApproval`), nothing starts
  while paused (`NoStartWhilePaused`), and finished tasks stay finished unless a
  recovery takes them back (`TerminalIsFinal`).
* **AgentExecutor**: with hanging tools, late threads, wrong hashes, conflicts and
  crashes, every execution ends (`ExecutionEnds`), and what an answer lists beyond
  what the agent declared itself was saved in `tool_runs` (`AnswerIsBacked`). As long as no two calls on one key or path
  overlap, a key stands for one request (`OneRequestPerKey`) and what is recorded
  or reported is on disk (`RecordedIntact`, `AnswerIsBacked`). When they do
  overlap (two processes resume one agent, or a late thread meets a repeated
  call) the second may replace the file the first reported; the code promises
  nothing there and neither do the properties.
* **Standalone**, part by part:
  * run lock: with one process per owner name the file implements the table row
    (`ImplementsRunLock`);
  * visit: it refuses exactly the cyclic graphs, and what it marked as visited is
    closed under dependencies (`VisitIsRight`);
  * context: the pack is within the budget, holds every artifact the task may see
    that fits and no other, and quotes a changed file only when it was replaced
    between its hash and its read (`PackIsExact`);
  * engine: a complete receipt names an output that is there and stays, unless a
    process of its group outlived the call, and the approved script only if that
    is the one that ran (`ReceiptIsTrue`);
  * Codex: an answer is of the process the call started, across restarts,
    timeouts and processes that outlive their runtime (`AnswerIsOwn`);
  * Zotero: no edit of a person is overwritten (`EditsSurvive`), a record reported
    as filed is (`FiledMeansFiled`), and repeating a run that ended without errors
    duplicates nothing (`OneItemPerRecord`);
  * open access: merging never drops an open PDF (`OpenPdfSurvives`), and a file
    a report calls verified is touched by no later run, failed write or stop
    (`VerifiedFileIntact`);
  * CNKI: what a report calls verified is in the archive with its hash, and a PDF
    is whole, although the browser goes on writing (`VerifiedIsWhole`);
  * empirical: what `run` returns was made for this request and these inputs
    (`ReturnedIsRequested`), and a bundle is final (`BundleIsFinal`);
  * preflight: a staggered design that passes is one, gaps in its units included
    (`PassedIsStaggered`).

Disagreements between the code and what its documents say, each shown by a run
with a counterexample:

* **FileTornLoad** (`StaleWriterRejected`). `docs/state-backends.md:12`: "A stale
  writer receives `StateConflictError` before its state is committed." In
  `store.py:95` the state is read before the version and without the lock; a
  save of another process in between yields an old state with the new version,
  and the next save overwrites the other's update.
* **RuntimePassed** (`PassedIsComplete`). `docs/agent-runtime-v0.10.md:15`:
  "PASS -> next ready task". When an agent passes with `next_tasks`, `merge`
  replaces the task dictionaries by copies and `_complete` (`runtime.py:373`)
  marks the old one: the task is in `completed_tasks` with the status it had
  before, and the run waits for it again or, with an executor, fails it for its
  missing packet.
* **RuntimeOrphan** (`StartedIsTakenUp`). `docs/agent-runtime-v0.10.md:61`:
  "`resume` continues the same run". A runner that ends after `task.started` was
  saved leaves the task `running`. `recover` restores the newest checkpoint, where it
  is running too; only a fallback to an older one leads out of that status.
* **PreflightUnbalanced** (`PassedIsBalanced`). `method_preflight.py:168` reports
  "Panel is not balanced across units.", but line 165 compares how many periods
  each unit has, not which: units observed in different periods pass as balanced.

Other disagreements met while modelling, which the models contain and no run
states:

* Backends. `recover_latest` goes on to an older checkpoint on any exception, a
  version conflict included (`state_backends.py:229`), and behind a stale lock
  file reports that no checkpoint is valid (`store.py:195`), against "`recover`
  restores the newest checkpoint whose content hash matches its filename"
  (`docs/agent-runtime-v0.10.md:61`). Two saves may mirror in the opposite order
  of their commits and leave `state.json` behind (`state_backends.py:144`,
  `docs/state-backends.md:14`). When two processes share an owner name a release
  may unlink the lock of a third (`store.py:146`).
* Runtime. Spent attempts block a task without the handoff of
  `docs/agent-runtime-v0.10.md:25` (`runtime.py:449`). `observe_agent`, `decide`
  and `reconstruct` replace the lifecycle of a paused run, which `run()` then
  executes (`runtime.py:407`). A task that passed with `next_tasks` can be
  observed again and add work behind the final audit (`runtime.py:363`).
* Tools. A call whose file was written but whose record was not is not replayed
  when it is repeated: `artifact_write` refuses it for ever
  (`native_tools.py:197`), against "same key/input replays a verified result"
  (`docs/v0.11-capability-matrix.md:27`). In the same way the output directory of
  a program is made before its executable is looked up (`native_tools.py:133`),
  so the identical retry fails. `receipt.json` on disk says complete when outputs
  are missing; only the returned receipt is failed (`native_tools.py:82`). A
  timeout leaves the process group alone when its leader has exited
  (`isolation.py:131`).
* Codex. After a restart a resumed run counts its rounds from one and stops at the
  directory that exists (`codex_cli.py:49`), once per earlier round. `cancel` may
  report success for a process that ended by itself.
* Zotero. After an error or a stopped run, a rerun may save a record again, because
  the item of the lost answer is not visible yet. Errors about collections are not
  caught, and the audit is written only at the end.
* CNKI, open access. A CAJ file needs only its signature, so it may be archived
  before it is whole. A failed write leaves its part of a file under its name.
* Empirical. One failed Python model and a requested Stata review make the whole
  run failed. The standalone review changes artifacts of a bundle, after which
  `verify` fails and the identical run is refused. The backup is compared with
  the files of that moment and not with the hashes of the bundle, and a stop while
  it is written blocks later backups. Rows without a treatment are dropped from a
  panel without an issue.

### Bounds, and why they are enough

* *Clients, runners, callers: two.* Every shared-state protocol here is pairwise:
  a compare-and-swap, a lock, a version, a directory made once. Three processes
  are used for the run lock, where a release of one may meet a creation of a third.
* *`MaxVersion`, `MaxFiles`* of the backends: 3, compared when a call starts, so
  calls under way carry the version to 5. That gives a stale writer, the save that
  made it stale, and a recovery between them. *`MaxDamaged`*: 1, so that a recovery
  skips a file and finds another, and, with saves that fail, runs out of files.
* *`Update`*: each is used once; two suffice for one to overwrite the other. In the
  backends a save takes an unused one, no matter which: they are interchangeable
  until used, so the choice is fixed. Neither run is symmetric, for that reason.
* *`MaxTotalSteps` 3 to 5, `MaxSteps` 2, attempts 1 or 2, replan budgets 1*: the
  loop yields, exhausts its steps, spends its attempts and its budgets within the
  instance. In `RuntimeConcurrent` every task passes: retries, replans and waits for
  an agent's failure are the business of `Runtime`, which has one runner.
* *`MaxTotalTasks`*: 5, above the four tasks a merge yields; a second merge of
  the same task is refused as a duplicate.
* *`MaxThreads`* 2: a tool that timed out or was killed, and the call that repeats
  it, on the same path with the same or another key and content. *`MaxRounds`* 1
  and *`MaxBatch`* 2: an execution collects the results of several calls and
  meets its last round; a further round differs in its number only.
* *`MayCrash`, `MayTimeOut`, `MayInterrupt`* switch off crashes, timeouts of
  live locks and the interrupting commands where a run asks about something else;
  `FailAt` names the steps of a save that may raise. The run takes the mirror: a
  failure before the commit ends the save as a conflict or a crash does, and one of
  the export differs from one of the mirror in a mirror that is up to date. A
  recovery that failed after its commit may commit again only below the bound on
  versions (`RoomLeft`). The theorems hold for every choice of steps.
* *`MaxCheckpoints`* 1 in `RuntimeConcurrent`, 0 elsewhere: one checkpoint kept from any
  earlier save is every fallback a single recovery can make; a second recovery may
  use one kept since. The theorems hold for every bound.
* *`Declared`*: what an agent lists of its own accord is nothing, or an artifact
  that the tool calls of this execution may have saved or not.
* *Standalone.* Visit: all graphs over a list of three tasks. Context: all graphs of four tasks,
  five artifacts, a budget that refuses some, one write by somebody else. Engine:
  two calls for one directory, a script edited once. Codex: two runtimes, three
  calls, three rounds, so that a restarted runtime meets two rounds of earlier
  ones. Zotero: two records, two runs, two attempts (eight in the code, which differ
  in their number), one edit. Open access: URLs in pairs that differ in a trailing
  slash, answers that disagree about one URL, one candidate more than the three
  attempts, two runs. CNKI: a PDF and a CAJ name, two papers, files written in three
  parts. Empirical: two callers, two models, three calls, inputs changed once.
  Preflight: every panel of two units and three periods (three units and two periods
  for `PreflightUnbalanced`), every shape up to eight.

The counterexample runs use the smallest instances that show the disagreement.

### Fairness

`FairSpec` of the backends is weak fairness of the steps of each client's call:
a process that is not stopped executes its next statement, and a wait for a lock
ends by acquiring it or after ten seconds (`store.py:62-80`, `connect(timeout=10)`
in `state_backends.py`). No fairness is assumed of making calls, of crashes, of
damage, or of a person removing a stale lock. `FairSpec` of the runtime is the same
for the steps of `run()`; a tool call of an agent (`AgentCallsTool`) is outside
the fair actions, and the executor's bound on rounds is what makes an agent
answer. Both name in the subscript only variables that each of these steps
changes, which says the same as naming all. In `AgentExecutor` it is
weak fairness of each execution: the executor goes on, the adapter answers or
raises (each bounds an answer by a timeout), a wait for a tool ends at the tool's
timeout (`tools.py:82`). Tool threads have no fairness: they may hang.
`AttendedSpec`, used by `RuntimeOrphan` only, adds that somebody keeps
starting runs and approving what is pending: it is the most a user can do, so
that the counterexample blames the code and not an idle user. `Standalone` and
`Contract` state safety only and assume none.

## 4. Proofs

Checked by `tlapm M.tla`; nothing is assumed but the named `ASSUME`s of the
modules, which TLC evaluates on the instances. Besides the types of the
constants they say: the graph a run starts from passes `validate_dag`
(`RuntimeAssumption`; `initialize` refuses another, `runtime.py:69`, `:80`); the
sentinel `None` of the registry is no content and no record; there are finitely
many clients of a database; every excerpt costs a token (`context.py:115`); URLs
that differ in trailing slashes only have the same scheme
(`resolve_open_access.py:56`). Every safety invariant and every action property
of the passing runs is stated by a theorem.

**StateBackendProofs** (`ContractInvariant`, `NoUpdateIsLost`, `StaleIsDetected`,
`EventsAreOrdered`, `CanonicalIsRecoverable`): the promises of the contract
for any clients, updates and version bound. The invariant is their conjunction
with `TypeOK`; the versions loaded must be at most the current one, or a new
version could coincide with one somebody holds. `MemoryUsesContract`: every step
of the runtimes with their index is a step of the contract or leaves it alone, so
`RuntimesLoseNoUpdate`. `IndexIsHonest` and `IndexCatchesUp` need more than
themselves: what a runtime holds with the current version is the canonical
content, which was committed, and a runtime that owes an ingestion still holds
what it saved.

**SQLiteStateBackendProofs** (`SQLiteInvariant`, `MirrorsAreCommitted`,
`SQLiteImplementsContract`, `SQLiteLosesNoUpdate`, `SQLiteOrdersEvents`): for any
clients, crashes, timeouts, failing writes and damaged files. The invariant `Inv` says that only the
holder of the write lock is inside a transaction (`Locked`), that nothing moves the
row between its version check and its `COMMIT`, and that the last checkpoint file is
then its own (`Commits`); that who holds the current version holds the current
content (`Views`); that a recovery saves the content of a file older than the one
its save writes (`Recoveries`); and that the saves under way add different updates
(`Saves`). The refinement has a lemma per view of the contract (what checkpoints
are `Kept`, what is issued, what is loaded) and a lemma per step; `COMMIT` is
the abstract save or recovery. The last two theorems are the contract's own,
inherited through the refinement.

**FileStateBackendProofs** (`FileInvariant`, `WritersAreApart`,
`AckedIsRecoverable`, `EventsAreGapless`, `OwnStateStaysCurrent`): the safety of the
file store for any number of clients, with stops between any two file
operations. The argument is that of a critical section. `UnderLock`: what a process
has read and written under the lock is what the files hold. `Versions`: a version
is handed out only below the current one while a save is committing, so a process
that died between `state.json` and `backend-meta.json` cannot make two saves
return one version. `Lines`: the last event line is at most one ahead of the meta
file. `OwnStates` carries `OwnStateIsCurrent` through the moment between the two
files.

**ResearchRuntimeProofs**: for any task graph, number of runners, limits and
proposals. None of the properties is inductive alone.

* `Invariance`, with the corollaries `TypeCorrect`, `DecisionsMatch`,
  `AnswersMatch`, `BlockedAgree`, `RetriesBounded`, `GatesHold`,
  `PausedStartsNothing`, `FinishedStaysFinished`, rests on `RunnerInv`: a runner
  whose copy is current and that is inside an attempt finds its task `running` or
  `waiting-agent`. This holds because each save takes freshness from all others.
  `AttemptInv` strengthens the bound on attempts (a pending task still has one left,
  and what is not in the graph was never attempted), `GateInv` keeps gates away from
  agents, and `PauseInv` says that nobody is fresh while the run is paused. Every part that
  speaks of the canonical state holds of each checkpoint too, so a recovery keeps it
  whatever it falls back to. The
  predicate `Leaves(t)` summarises every way a task leaves an attempt, so that the
  proof has one lemma per outcome and one per kind of step, not one per pair.
* `PlanInvariance`, with `ReplansStayBounded`, `NoDeadEnds` and `CompleteIsDone`:
  the graph stays acyclic and closed under every merge, what is finished is in
  `completed_tasks`, and superseded tasks are counted by the budgets. There is no
  dead end because of the unfinished tasks one depends on no other of them, so on
  completed ones only.
* `ReleaseIsReviewed`: the completed tasks, with a final task that starts, are
  closed under dependencies, and everything a final task follows is among them
  (`ReleaseInv`). The theorem has two hypotheses. The final tasks of the graph a run
  starts from come last (`AuditedGraph`), which is a fact of `default_graph`: TLC
  evaluates it for both forms (`InitialGraphAudited` in `MCDefaultGraph`). No agent
  passes with follow-up tasks (`FollowUps = {}`): with them the property is false,
  for the reason `RuntimePassed` shows.

**AgentExecutorProofs** (`ExecutorInvariant`, `KeyMeansOneCall`,
`RecordsStandOnDisk`, `AnswersAreBacked`): for any processes, requests, rounds and
threads. As long as no two calls on one key or path overlapped, every thread that
can still matter (it runs, or its caller waits for it or records its result) has its
key and path to itself (`ThreadsApart`); so what it checked, wrote and read stays as
its last step left it (`BusyOnTrack`), and the record a caller writes is the first of
its key (`Unrecorded`).

**KernelProofs**: the parts of the kernel that share no state.

* `LockFileImplementsLock`, `LockFileExcludes`: with one process per owner, the
  lock file implements the lock row and at most one process holds it. Whoever holds
  the lock or is about to write or unlink the file created the file that is there.
* `CodexInvariant`, `AnswersAreOwn`: for any number of runtimes, calls and rounds.
  A call belongs to one runtime and its process is started once (`CallsApart`); no
  two processes share a round, and the answer in a round is of its process
  (`RoundsApart`). Both rest on one fact of the code: a round directory that exists
  is never used.
* `ReceiptsAreTrue`: the new directory lets one call past `FreshOutput`
  (`OneCall`); the script only moves on, so a receipt that names the approved version
  names the one that ran; and a call that has seen its group end is the last that
  wrote the output (`Measures`).
* `ContextIsExact`: for any graph, artifacts and budget. The ancestors found are
  ancestors, and closed under dependencies behind the frontier (`Ancestry`). An
  artifact behind the scan that the task may see is a candidate, selected, or did
  not fit, and the budget only fills up (`Selection`). The order of relevance has a
  first candidate because a candidate is determined by its artifact.
* `VisitFindsCycles`: the stack is a path of the graph (`Framed`), so the call of a
  task that is under way closes a cycle; the loop of a frame has behind it only
  visited tasks and the call under way (`Looped`), so what the visit has left is
  closed under dependencies and acyclic (`Left`); and all that was passed of the list
  was left (`Listed`), so a visit that ends has seen the whole graph.

**SkillProofs**: the scripts of the skills, and the Zotero import.

* `VerifiedFilesStay`: a file is free only while it is missing, so the one that is
  being written is in no report.
* `MergeLosesNoPdf`: an open PDF scores at least 11, any other description of its
  URL at most 10, and both get the same 2 for the scheme; so the first of the
  highest scores of a URL is an open PDF when there is one. The order of the sort is
  strict and total on the rows that are kept, because they have different URLs, so
  every one of them has a place.
* `VerifiedDownloadIsWhole`: from the check on, what is of the hashed paper is
  whole, in the download and in the copy, because a download only grows.
* `ZoteroInvariant`, `ReportedIsFiled`, `NoEditIsLost`, `RecordsStayOneItem`:
  what a run read of an item is at most as new as the item, and equal to it when the
  versions are equal (`ItemSound`), so a PUT that the version check lets through
  adds collections to what is there. As long as runs end without errors, every
  saved item is shown before its record is left (`Settled`), so the search of the
  next run finds it.
* `EmpInvariant`, `RunReturnsRequested`, `BundleStays`: `mkdir` gives the directory
  one owner until the bundle is there (`OneOwner`), so what the owner has established
  of its files (`OwnerKnows`) is still so when the bundle says it (`BundleSound`).
* `PassedDesignsAreStaggered`: for panels of any size. Without a reversal between
  neighbouring observed periods, treatment stays from the first treated period on.

**InductionLemmas**: the library's induction theorems take an operator as a
parameter, which no prover here can instantiate. Where a proof needs induction over
numbers (along a path of the visit, over periods, over the sequences that are
flattened) it takes the least number for which the claim
fails, whose existence follows from `WFMin` for the order of the naturals.

Only model-checked: liveness (`CallsReturn` of both backends, `RunReturns`,
`ExecutionEnds`), which needs fairness and `ENABLED`, beyond the prover. The
properties of the four counterexample runs are false and are not proved.

## 5. Not modelled, and why

* Evidence verifier, guardrails, evaluation, reports, schemas: functions of
  documents and numbers, without state or order, for which tests are the better
  tool. Where the state schema decides control flow, the runtime models the
  refusal.
* Provenance, observability, traces: append-only records that control flow never
  reads.
* Migrations, the demonstration, the R bridge, the paper and literature-map
  scripts, the other workflow scripts: single passes over one document or program
  call. `zotero_classify_existing.py` writes items as `ZoteroImport` does.
* The OpenAI, LangChain and mock adapters: wrappers of services without state on
  disk; the runtime sees an answer, requests or a failure of them, which is in
  `AgentExecutor`. Tools called inside an adapter (`tool_context`) are not.
* The container backend builds a command line; path and environment policies
  refuse or let pass.
* File system errors other than a missing or existing file and, where noted, a
  failed write. In the resolver, the free name is looked up and written without
  exclusion; two resolvers at once are not modelled, repeated ones are.
* `append_event` called outside `create` and `save`, which nothing does, and
  `verify`, which only reads; initial proposals and planning adapters, which no
  runtime code calls.

What would come next: that the executor's saves implement `AgentCallsTool` of the
runtime; `DefaultGraph` with the empirical part; two resolvers at once.
