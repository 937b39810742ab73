# Verification of mojojojo-agent

TLA+ models of the parts of `mjj` whose correctness depends on order, failure
and concurrency, the TLC configurations that check them, and TLAPS proofs of
the invariants that matter most. Paths are relative to the repository; `mjj/`
is `src/mjj/` in `PROJECT.json`.

## 1. The system

`mjj` is a coding agent: a loop sends a transcript to a model, runs the tools
the model calls, and appends the results. It runs in a terminal (`tui.py`,
`cli.py`) or behind an HTTP service that hosts many runs (`server.py`).

| Component | State it keeps | Operations | Hard behaviour | What makes it correct |
| --- | --- | --- | --- | --- |
| turn loop (`agent.py`) | window `items`, steering queue, tool context | `run`, `_consume`, `_invoke`, `steer` | a second thread steers; the consumer closes the generator at any yield; streams fail half way; compaction shortens the window | calls and outputs stay paired, steering arrives in order and at boundaries, runs are bounded |
| rollout (`session.py`) | one JSONL file per session | `record`, `load_items`, `resume`, `fork_session` | killed inside a line, resumed, forked | the file reloads to the window in use |
| hosted admission (`server.py: RunManager`) | `_runs`, `_reservations`, a lock | `create`, `get`, `release` | handler threads race; sessions open between two critical sections | cap per account, no leaked slot |
| hosted streams (`server.py: RunState`, `_produce`, `_stream`, `interrupt`) | bounded queues, mirrors, `cancel`, `done`, `status` | emit, attach, detach, interrupt, settle, finish | slow or lost clients, late attachments, interrupts at any line | complete ordered streams, one settlement, honest note, everything ends |
| patch commit (`tools/patch.py`) | none between calls | plan, stage, replace, roll back | failure or crash between replacements, user edits meanwhile | all or nothing |
| checkpoints (`checkpoints.py`) | directories with manifest and blobs | `begin`, `finish`, `cancel`, `undo`, `cleanup` | undo by name in any order, crash between restore and mark, retention | undo is exact, user edits conflict |
| post-edit formatters (`hygiene.py`, `tools/check.py`) | none | `run_mutators` | subprocess of up to 30 s between begin and finish | failed formatters leave no trace |
| shell jobs (`tools/shell.py`) | table of 32 jobs, threads | start, poll, stop, evict | stop racing start, id reuse, timeout | a poll reports the job it names |
| billing (`appnz.py`) | accrual table, shared credit table | `charge`, `_spend` | crash between two databases, other spenders | tokens charged or owed, never both |
| model client (`model.py`, `model_routes.py`) | retry counters, disabled features, learned efforts | `stream`, one request, messages and events of a chat provider | retries, fallbacks, broken streams, fragments | nothing visible is replayed, every stream ends, calls stay paired |
| credentials (`auth.py`) | tokens in memory, `auth.json`, the file of provider keys | `bearer`, refresh, resolve, save and remove a key | processes sharing single-use refresh tokens and files | no token is spent twice under the lock, no key is lost |
| prompt cache (`prompt_cache.py`) | prefixes and their times | plan, observe | retries look like reuse | only reuse is counted |
| goals (`goals.py`) | one JSON file per workspace | `load`, `set`, `transition`, `record`, `clear` | two processes load, change and save; failing saves | a save is whole or nothing |
| MCP and LSP clients (`mcp.py`, `lsp.py`) | pending ids, message queue | `request`, reader thread, close | timeouts, late answers, the server's own requests | an answer goes to its request |
| extensions (`agent_plugins.py`, `plugins.py`, `tools/__init__.py`) | registry of tools, running servers | discover, merge, build, close | names that collide, limits, a server that fails half way | what is left out is told, what is started is closed |
| tool host (`tools/base.py`, `permissions.py`, `project_docs.py`, `ledger.py`) | counts, rules shown, drops | dispatch, discover, clip | budgets that run out within a call | the ledger is exact, rules are shown once |
| sub-agents, plan (`subagents.py`, `tools/delegate.py`, `tools/plan.py`) | worktrees, refs, the plan | run, gather, capture, advance | any Git command fails | what Git sees of a worker's work outlives its worktree |
| code index and search (`search/`) | rows in memory, one file | build, search, page | processes share the file, edits during a build, a depth that varies by page | the index is honest, pages follow one another |
| files (`tools/fs.py`, `context_files.py`) | none | list, read, mention | budgets in bytes against text in characters, nested ignore files | the listing is Git's, attachments are exact or flagged |
| edits (`tools/navigate.py`) | none between calls | rename, format, code action | UTF-16 columns, the user writes meanwhile | all files or none, the text meant |
| Git tools (`tools/commit.py`, `tools/check.py`) | the index and work tree | commit, check | three commands, the user stages between | the answer says what was committed |
| Python (`exec/`, `tools/py_exec.py`) | directory and output of the process | run | threads swap process-wide state | a snippet that ran elsewhere says so |
| terminal (`tui.py`) | queue of follow-ups, images, plan mode | turn, prompt, interrupt, commands | a prompt lives beside a turn | nothing typed is lost |
| settings, command line (`config.py`, `cli.py`) | layers, the user's file | load, save, `exec` | two terminals, a file rewritten in place | what is saved is read back, the right answer is printed |
| the rest | none that matters here | routing, prompts, media, kernels | | section 6 |

Interactions. The TUI and the HTTP producer drive `Agent.run` as a generator;
other threads reach the agent only through `steering` and, hosted, through
`cancel`. `Agent` writes each item to the rollout as it appends it. `RunManager`
starts one producer thread per run; handler threads read its queues.
`apply_patch` calls the checkpoint store before and after it replaces files and
then the formatters, which use a checkpoint of their own. The producer settles
usage with `billing.charge` and writes the session note. The loop streams from
the model client, which asks the credential resolver for a route and the cache
for a plan at every attempt. Tools are dispatched by the registry, which asks
the policy, adds the rules of new directories and clips the result by the
ledger; MCP servers, sub-agents and shell jobs live behind tools.

`PROJECT.json` lists every component with its status and every hazard at its
line.

## 2. The modules

### AgentLoop

The loop with its rollout file. `pc` is where the generator stands: `boundary`
(top of the `while`), `streaming` (inside `client.stream`), `answered` (stream
ended without calls), `ending` (the queue was found empty for the last time: the
goal is read and the last Step yielded, and `steer` may still be called),
`invoke` and `yielded` (before and after the yield of
`_invoke`), `idle`, `down` (no process). One action per branch of the code;
`Continue` and `EndRun` are the shared tails. A text is never modelled: an item
is its kind and, for calls, outputs and steering, an id. The goal file belongs
to other processes too, so each read of it may return any status.
`MentionError` is a prompt whose file cannot be attached. `Abort` is
the closing of the generator (a hosted interrupt, Ctrl+C); `Crash` may leave a
torn line; `resume` and `fork_session` rebuild the window from readable lines.
Actions named in the code keep their names; helpers are named after what they
do.

History variables (`sawAnswer`, `requests`, `skewed`, `cut`, `mark`) record
what properties need and no action reads them.

### RunManager, RunSlots

`create` is `Reserve`/`Refuse`, then `FactoryFails` or `Register`, then
`StartThread`: one action per critical section, so that threads interleave where
the code lets them. `RunSlots` is the abstract promise (a counter per account
between 0 and the cap); `Slots` in `RunManager` is the refinement mapping:
slots used are requests between reservation and done event.

### RunStream

One run: the producer thread (`ppc`), one handler per stream (`hpc`), the
interrupting handler (`ipc`). The producer sets the agent up before its `try`
block: where that raises (`SetupRaises`) nothing finishes or releases the run.
A run of no account (`user` is false) is not charged; a charge that raises counts
as a call. `_put` is split where the code reads `cancel`
and then blocks, `emit` where it reads the mirrors under `attach_lock`,
`interrupt` between its two assignments, `finish` between the done event and
the reading of the targets. An event is its position in the controlling queue;
`log` keeps kinds. Steering is not repeated here: `RunState.steering` is the
queue of AgentLoop.

### Billing

The settlement in the service's own databases (`appnz.py: Billing`). `charge` is
split where another thread, another application or a crash can come between:
`Acquire` (the account's lock), `ReadOwed`, `_spend` or `NothingDue`, `Record`,
with `SpendFails` and `RecordFails` for a transaction that raises and is rolled
back. A crash frees the locks, which live in the process. `Outside` is what
other applications do to the shared account: top-ups, spending, a plan that
expires or is renewed. Tokens and the price of a credit are whole numbers.
History: `spent` is the sum of the ledger, `strayed` the credits of charges that
spent and were never recorded; the code accepts this loss, and `Conserved`
bounds it to exactly those charges. The settlement over HTTP by a control plane
(`ControlPlaneBilling`) happens in another program.

### PatchUndo

`apply_patch`, `run_mutators` and `undo` as one agent process doing one call at
a time; the user edits at any moment; any file operation may fail within
`MaxFaults`; the process may die anywhere in a call. A value is the bytes and
mode of a file. `store` is the sequence of checkpoint directories in the order
of their modification time, which is what `cleanup` sorts by, so that an undo,
which rewrites a manifest, renews its directory as it does in the code. Staging
is one action since temporary files are invisible; replacement, rollback,
verification and restoration are one action per file in any order, which covers
every order of a patch. The rename of `tools/navigate.py` uses the same
`_snapshot`, `_commit` and checkpoint calls.

At most `MAX_CHECKPOINTS` are kept, so with three calls one of them may be evicted.

History: `origin` (start of the workspace), `tainted` (files with a change no
checkpoint records: user edits, crashes, checkpoints that could not be made or
were evicted), `dirty` (edited by the user during the call), `author`.

### Credentials, PromptCache and ModelClient

`ModelClient` EXTENDS the other two and is one process that streams from a model
beside another that uses the same sign-in. `Credentials` is the shared file:
`bearer` up to the lock, `_flock`, `_refresh_locked` (which reads the file again),
`refresh_tokens` at the issuer, `_write_back`, and the death of a process. The
lock may fail, whereupon the code goes on without it; the issuer's answer may
lack the refresh token or the access token, and what lacks is kept; the write
may raise. A token is its generation; the issuer accepts the newest. `PromptCache` is a set of
operators on the times at which a prefix was requested; a prefix is known by its
model, as the instructions and tools of a client do not change here. `ModelClient` follows
`stream`: `Resolve` and `SignedIn` (the route and the token), `Build` (the body),
`Open` with every error the code tells apart (`Learn` an effort, `mark_exhausted`
a provider, `Degrade` a feature, `Retry`), `Output`, `_stream_once`,
`_request_once`. The server may answer in any way; it rejects a field only if the
body holds it, and names any list of efforts, another at each request if it likes.

### Workbench, MCWorkbench and their parts

The other components of a session share no variables with each other: each is a
module with its own `Init` and `Next`. `Workbench` composes the thirteen that
keep a protocol with somebody (servers, processes, threads, the user, a crash):
a step of it is a step of one of them, in any order, and the others rest; its
`Spec` is what the theorems about the workbench are proved of. `MCWorkbench` gives
the constants small values, adds the ten parts that work on one text or list,
and lets one of all, the `subject`, take steps. Each of its steps is a step of
`Workbench` or leaves that alone; its run is the sum of the parts, not their
product, which loses nothing because no action and no property relates two
parts. Each property of the run is a conjunction of the parts' properties.

| Module | Code | State and steps |
| --- | --- | --- |
| `McpClient` | `mcp.py` | the reader's queue, the number awaited, pages; `request`, `Receive`, `Timeout`; the server answers late, chatters, asks under a number of the client's, or exits |
| `LspClient` | `lsp.py` | the same for a language server, which sends requests numbered like the client's; initialize, query, close |
| `ShellJobs` | `tools/shell.py` | table, thread and process of each job; start (evicting a finished job, lowest free id), publication of the process, timeout, `stop_jobs` |
| `ToolHost` | `tools/base.py`, `permissions.py`, `project_docs.py`, `ledger.py` | one dispatch: approval, the run, rules of the directories touched, clipping, counting |
| `Subagents` | `subagents.py`, `tools/delegate.py`, `tools/plan.py` | a thread per task: seed, run, capture, ref, removal; changes Git passes over (`hidden`); `advance` of the plan |
| `Goals` | `goals.py` | load and change, write the temporary file, replace; `wanted` is the history as if each change had been atomic |
| `SearchIndex` | `search/index.py` | a build per process: read the saved index, discover, reuse or read each file, write; edits in between |
| `IndexChunks` | `search/index.py` | `_make_chunks` and `row_for_line` of a file that grows line by line |
| `CodeSearch` | `search/index.py`, `tools/search.py` | fusion of candidate lists cut by the depth of the search, overlapping chunks, the cliff, pages by cursor |
| `Terminal` | `tui.py` | the live prompt, the turn's thread and the five minutes it is waited for, the two queues, plan mode, session commands |
| `Settings` | `config.py`, `tui.py` | layers of a launch; commands that save; the rewriting of the user's file line by line, with headers that carry a comment, end the file or are indented |
| `TextEdits` | `tools/navigate.py` | `_lsp_offset`, `_lsp_position`, `_apply_text_edits` over letters that are wide or are form feeds |
| `WorkspaceEdit` | `tools/navigate.py` | plan, approval, snapshot, checkpoint, commit file by file, a rollback in which a file may fail |
| `PyExec` | `exec/`, `tools/py_exec.py` | choice of a backend, fallbacks, the swap of directory and output by threads |
| `GitTools` | `tools/commit.py`, `tools/check.py` | add, list, commit as three steps; the user edits and stages beside them |
| `ChatMessages` | `model.py: _chat_messages` | the windows the loop can make, and the messages of each |
| `ChatStream` | `model.py` | `_append_tool_argument`, `_decode_sse_documents` of streams cut anywhere |
| `ExecCommand` | `cli.py`, `agent.py: render_exec` | options, what is opened, each response rendered, exit code, closing, an exception nothing catches (`Uncaught`) |
| `KeyFile` | `auth.py` | files as nodes with names, since a writer keeps its node when the name moves |
| `Extensions` | `agent_plugins.py`, `mcp.py`, `plugins.py`, `tools/__init__.py` | packages, servers, entry points, the registry |
| `ListTree` | `tools/fs.py` | `_ignored` and `_walk` over trees with ignore files, beside Git's own rules |
| `FileContext` | `context_files.py`, `tools/fs.py` | attachments in bytes of texts in characters |
| `SessionFiles` | `session.py` | rollouts of several sessions: record, name, resume, fork at a point, import, `latest`, a local clock that may be set back |

## 3. What the runs check

| Run | Instance | States | Shows |
| --- | --- | --- | --- |
| `agent_loop` | 2 runs, 2 streamed items, 2 tool rounds, 1 autonomous turn, and 2 of: a steering message, a crash, a fork | 2.9 M | type invariant; `ResumeExact`, `RequestPaired`, `AnsweredOnce`, `SteeringAtBoundary`, `SteeringFifo`, `NoSteeringSkipped`, `RunBounded` |
| `agent_loop_done` | 3 items, no steering | | finding 1 |
| `run_manager` | 5 requests, 2 accounts, cap 2 | 38 k | `ReservationsExact`, `TableExact`, `LiveCap`, `RefusedOnlyWhenFull`, refinement of `RunSlots` |
| `run_stream` | 1 mirror, queues of 1, 2 events, lost clients, interrupt, with and without an account | 1 915 643 | `CompleteStream`, `MirrorFollows`, `BilledOnce`, `NoteHonest` |
| `run_stream_ends` | the same with 1 event, of an account, heads always written, interrupts, under fairness | 448 057 | `CancelEnds` |
| `late_mirror`, `header_lost` | the same without interrupts; heads that may fail in the second | | findings 2 and 3 |
| `billing` | 3 runs of 1 account, 1, 3 and 5 tokens at 2 a credit, up to 1 credit in each pot, 2 outside changes, 1 fault, 1 crash | 99 k | `Conserved`, `NeverNegative`, `OwedBelowCredit`, `SpendOrder` |
| `patch_undo` | 2 files, 2 contents, 2 calls with 1 edit, 1 fault and 1 crash; a 3rd call, which evicts, where none of these happens; retention 2 | 6.1 M | `PatchAtomic`, `UserContentKept`, `UndoAllRestores` with evictions and undo in any order |
| `model_access` | 2 processes, 3 generations, 1 fault, 1 prefix, 9 setups | 1 107 898 | `OneAnswer`, `FreshAfter401`, `ReuseIsReal`, `SpentOnce`, and under fairness `StreamSettles` |
| `workbench` | the parts below, one at a time | 0.99 M | `AnswersMatched`, `ProcessesAccounted`, `NothingLost`, `TerminalSound`, `EditsSound`, `ContextExact`, `LaunchFinds` |
| `format_race` | 1 call, 1 edit | | finding 4 |

What the properties of the other runs except, because the code does not
prevent it:

* `NoSteeringSkipped`: steering accepted after the last answer was complete (or,
  where the run ends without one, after its last request). The loop looks at the
  queue once more; what comes between that look (`agent.py:235`) and the return
  stays in the queue for the next run, as `SteeringFifo` says.
* `SteeringAtBoundary` is about prompts, guidance and continuations. The image of
  a tool result is a user-side item that the loop itself puts between two outputs.
* `BilledOnce`, `CancelEnds`, `DisconnectEnds`, `StreamEnds`: a run whose setup
  raised (`server.py:709-728`), which is never charged and never ends.
  `TableExact` counts a run whose thread could not be started (525) as unfinished.
* `NoteHonest`: a run cancelled while its final event waited for room, which the
  code notes as completed though the event was dropped.
* `PatchAtomic`: crashes, files the user edited during the call (`dirty`) and files
  with an unrecorded change, of this call or an earlier one (`tainted`, which
  never shrinks). `UserContentKept`: files edited during the call, since nothing
  verifies those, and a patch that could not begin a checkpoint.
* `OwedBelowCredit` says what a charge leaves of the accrual it read; that
  concurrent charges read what is there is in `Conserved`.
* `SpentOnce`: a rotation lost between the issuer and the file, and a refresh
  that went on without the lock because it failed.
* `FreshAfter401`: an answer of the issuer without an access token. It is about the
  first 401 of a stream; the second leaves the plan where there is an API key.
* `ReuseIsReal`: one observation for each effort learned and each provider left,
  which the code counts as first attempts; for a model asked for by name they
  are observations of one prefix.
* `StreamSettles`: a bounded number of lists of efforts (`lessons`); the code has no
  bound, so a gateway that alternates its list is asked for ever.

The properties of `workbench`, by conjunct, with what each excepts for the same
reason:

* `AnswersMatched`: `AnswerIsMine` (excused: a request of the server under the number
  waited for, which the client returns as the result), `LspAnswerIsMine` (an
  answer is to the request that returns it).
* `ProcessesAccounted`: `StopReaches` (every job `stop_jobs` found was told),
  `LiveListed` (no running job leaves the table or shares its id);
  `DegradesVisibly`; `ClosedAtEnd` (excused: the session of a refused command and
  of one that an exception went through).
* `NothingLost`: `WorkKept` (excused: what Git does not see of a task without an
  error: ignored files, nested repositories, writes after it was asked);
  `GoalExact` (excused: overlapping changes, since nothing is locked); `KeysKept`
  (excused: the same, and the moment at which a removal truncates the file);
  `LatestIsLast` (excused: two sessions of one second, a clock that was set back
  or an hour that repeats).
* `TerminalSound`: `FollowUpsKept` (a follow-up announced is started once, in
  the order of the announcements, or still waits; one entered as the run ends is
  dropped unannounced), `ImagesOnce` (an image goes with one prompt), `OneRun`,
  `PlanHeld` (excused in both: a run left behind by a second Ctrl+C or after the
  five minutes that the event loop waits for it); `LastAnswer` (excused: an answer without deltas that was continued).
* `EditsSound`: `WholeOrNothing` (excused: a replaced file that could not be written
  back, and files the user wrote after they were read again), `CommitTells`,
  `IndexFresh`.
* `ContextExact`: `LedgerExact`, `RulesOnce`; `MentionsExact` (excused: a range in
  which the scan limit falls, which the code cuts and does not flag),
  `MentionIsRead`; `ChatPaired` (calls and results adjacent; excused are windows
  where a response says something after its calls or an image parts two results);
  `ArgumentsOnce`, `RecordsWhole`; `EveryLineOnce`, `PagesFollow` (excused: searches
  that see other evidence at another depth, since more candidates are taken or
  the literal evidence decides; there a page may repeat or skip a hit); `ListedAsGit`
  (excused: the three forms of rule that `_IgnoreRule` reads differently);
  `EditsAsMeant`.
* `LaunchFinds`: `SettingsKept` (excused: two terminals that save at once; and from
  loading and reading back, files in which `[agent]` carries a comment or ends the
  file without a newline, headers or keys are indented, or an empty `[agent]`
  precedes another table, which the next launch may refuse after a save);
  `SessionReloads` (excused: torn lines, and texts with a character
  `str.splitlines` splits at); `ToolsTold`, `ServersMerged` (excused: servers of a package
  that are cut at the limit, of which nothing tells), `EveryClosed` (excused: a tool
  text that cannot be encoded).

The first five are invariants of `Workbench` and proved for it; the last two are
about what folds, filters and sorts make of data and stay with this run.

Bounds and why they suffice.

* AgentLoop: two streamed items give a call with a message, two calls, a
  compaction before or after either; two runs with a crash or a fork between
  them give every resume. `MaxTurmoil = 2` gives two messages queued at once, in
  one or two runs, or one with a crash or a fork; `SteerCap = 2` reaches the full
  queue. `MaxSteps = 2`
  reaches the end of the budget after a reset.
* RunManager: three requests of one account against a cap of two is the
  smallest race that could exceed it; the second account shows independence.
* RunStream: a queue of one is full after every event, and one mirror suffices
  for each race with `finish` and `emit`; `MaxMirrors` is its limit.
* Billing: three runs below, at one and a half and at two and a half credits give
  remainders that add up, several credits due at once and a shortfall paid by a
  later charge; accounts share nothing, and the proof covers several.
* PatchUndo: two files are a partial failure; three calls are the shortest
  history in which a file returns to an earlier content, checkpoints can be
  undone out of order and one is evicted. Files and contents are
  interchangeable, hence symmetry.
* ModelClient: one other process is enough to hold the lock, rotate the token or
  die with it; one fault is a lock that fails, an answer without a token, a write
  that raises or a death; a rotation by each of the two and one to spare needs three
  generations; two retries reach every counter of `stream`. The setups are one
  for each way a route is chosen and left.
* Clients: two pages, three calls and two unasked messages give a late answer to
  an earlier call beside an answer to the current one; the server's own requests
  bear the number 3, that of a request of the client's. Lsp: two queries, two messages on the way.
* ShellJobs: a table of two and three jobs evict one and reuse its id; one stop
  meets each stage of a thread.
* ToolHost: two nested directories, rules and results below, at and above their
  limits, two dispatches. Subagents: two tasks, one round, one failing command.
* Goals, KeyFile: two processes; progress of one entry is cut by the second.
* SearchIndex: two builders, two files, an edit and two builds put the edit
  between any two steps of either. IndexChunks: six lines against chunks of two.
  CodeSearch: three rows, any evidence, pages of one and two, candidate lists that
  grow with the depth, one overlap, and a depth and cursor that reach their limits.
* Terminal: three lines, an image, two commands. Settings: two terminals, files
  with the table absent, between others and last, and each form that is not plain. TextEdits: texts of three
  letters, two edits at any positions. WorkspaceEdit, GitTools: two files, two
  or three writes of the user. PyExec: two threads with two snippets.
* ChatMessages: six items hold two responses with calls. ChatStream: three
  pieces in three fragments, two records. ExecCommand: three responses.
* Extensions: package and server lists with a collision of names, an invalid
  one, and one more than each limit. ListTree: trees of depth three, every pair
  of rules over five patterns. FileContext: texts of up to four characters of
  one and three bytes against budgets of four and six. SessionFiles: two
  sessions in one second or two, four lines, one torn line.

`CHECK_DEADLOCK FALSE` appears where the system may come to rest: every
request served, the user idle.

Fairness (`RunStream!Fairness`). Threads of the process run: weak fairness for
the producer and for each handler. `queue.put(timeout=0.25)` in a loop waits on
the queue's condition, so a queue that keeps having room is used: strong
fairness for `Put`. A handler writes an event or a keep-alive every second, so
a client that is gone is noticed by some write: strong fairness for
`WriteFails`. The agent ends because model reads time out and a cancelled
generator is closed. Clients and interrupts are free.

Fairness (`ModelClient!Fairness`). The thread that streams runs, and every request
it waits for answers or times out (`READ_TIMEOUT`): weak fairness
for `StreamStep`. A process in the middle of a refresh runs too, so that the lock
is given back: weak fairness for each `Signing(p)`. Output, other processes'
calls and deaths are free.

Each property of a passing run has a mutant, an operator beside the definition
it replaces, that breaks it.

## 4. Findings

1. `agent.py:191`: `response_start` is not adjusted when a compaction item
   prunes the window, so an answer that arrives as a completed message is
   reported as "model completed without an assistant message"
   (`tests/test_agent_loop.py`, `test_done_message_without_delta_is_still_rendered`).
2. `server.py:452`: a mirror that attaches between `finish` reading the mirrors
   and the controlling queue becoming empty never ends (`docs/server.md:108`).
3. `server.py:946`: a client lost before the response head is written does not
   interrupt the run (`docs/server.md:118`).
4. `hygiene.py:195`: a user edit during a formatter run becomes the expected
   content, and restoring after a formatter failure overwrites it
   (`docs/tools.md:125`).

## 5. What is proved

`AgentLoopProofs` (for all bounds):

* `TypeCorrect`: `Spec => []TypeOK`, inductive as it stands; its interesting
  conjunct is that the batch being invoked is not empty.
* `ResumeCorrect`: `Spec => []ResumeExact`, inductive together with `TypeOK`.
  The argument rests on lemmas about `prune_to_latest_compaction`: appending a
  plain item commutes with pruning (`PruneAppend`), a compaction item prunes to
  itself (`PruneCompaction`), and a prefix of a pruned window is pruned
  (`PrunePrefix`), which is why a fork reloads to the branch it was given.
* `CallsAnsweredOnce`: `Spec => []AnsweredOnce`, `SteeringAtBoundaries`:
  `Spec => []SteeringAtBoundary`, `RequestsPaired`: `Spec => []RequestPaired`. All
  three come from one invariant about the file and both windows, `LogInv`, with
  `BatchInv` about the calls of the current response. The properties alone are
  not inductive: an output is appended long after its call, so it must be known
  that a call that waits has no output yet and no user-side item after it
  (`Waiting`), and that ids come from the counter (`Numbered`). `Once` and
  `Together` then follow for the longer file; a fork is a `SubSeq` of it. Pairing
  needs `Paired` twice, of the live window and of the window the file would give:
  they differ after a torn line, which can swallow only the first record of a
  process, a prompt (`torn => pc \in {"idle", "down"}`).

`RunManagerProofs` (for any finite set of requests, any accounts, any cap),
from `ManagerAssumption`:

* `ReservationsCorrect`, `CapCorrect`, `RefusalCorrect`: from the inductive
  invariant `IInv == TypeOK /\ DoneStage /\ TableExact /\ ReservationsExact /\ HoldCap`.
  `LiveCap` alone is not inductive: a reservation must be known to stand for
  exactly one request (`ReservationsExact`), the table must hold exactly the
  unfinished runs (`TableExact`), done events must belong to finished requests
  (`DoneStage`), and the cap must bound all requests that hold a slot, not only
  the working ones (`HoldCap`).
* `TableCorrect`: `Spec => []TableExact`, a part of the same invariant.
* `ImplementsSlots`: `Spec => SlotsSpec`. Each step changes the number of
  holders of one account by one or none, and takes a slot only below the cap.

`BillingProofs` (for any runs, accounts, tokens, price and bounds), from
`BillingAssumption`:

* `TypeCorrect`, `ConservationCorrect`, `NoOverdraft`, `RemainderCorrect`. `Conserved`
  is not inductive: `Record` writes back what it computed from an earlier read.
  The invariant adds that a charge under way holds its account's lock
  (`Exclusive`), hence what it read is still owed (`Fresh`), and that it spends no
  more than the tokens pay for (`Within`). The products with the price are
  handled by three lemmas (`WholeCredits`, `Distribute`, `Monotone`).
* `OrderOfSpending`: `SpendOrder`, for every balance and every amount due. It is a
  property of the operators `_spend` is made of, so it needs no invariant.

`RunStreamProofs` (for any queue size, limits, mirrors and number of steps), from
`StreamAssumption`:

* `TypeCorrect`: `Spec => []TypeOK`, with the bound of each queue; `PutOK` says that
  the producer is inside `Queue.put` only with a queue that waits for the event.
* `UsageSettledOnce`: `Spec => []BilledOnce`; `NoteIsHonest`: `Spec => []NoteHonest`;
  `StreamIsComplete`: `Spec => []CompleteStream`; `MirrorsFollow`:
  `Spec => []MirrorFollows`. The invariant has one part per agreement between the
  producer, the handlers and the queues. `BillInv` places the settlement on the
  producer's way from the agent's end to the note: `Share`, 1 for the run of an
  account and 0 for an anonymous one, is settled or reported as failed. `NoteInv` says what the last
  event is when the note is written, which needs that a cancelled run is known
  to be cancelling. `AttachInv` and `TargetInv` say who may still be put an event:
  the attached mirrors, once each. `EndInv`: the sentinel closes a queue, once,
  after the queue's turn in `finish` came. `HandlerInv`: a handler leaves because of
  the sentinel or of a cancellation. `FlowInv` is the heart: what a stream wrote
  and what its queue holds are consecutive events from `Missed(c) + 1` to the last
  one that was its due, where `Missed` counts the events before it attached and
  is 0 for the controlling stream. Completeness is then that the sentinel comes
  after the last event, and following that `Missed` does not change.

`PatchUndoProofs` (for any finite set of files, any contents and limits), from
`PatchAssumption`:

* `TypeCorrect`: `Spec => []TypeOK`, whose bound on the store needs that a call in
  progress holds the only checkpoint above the limit (`StoreInv`).
* `PatchIsAtomic`: `Spec => []PatchAtomic`; `UserContentIsKept`:
  `Spec => []UserContentKept`. `CallInv` and `PendingInv` say what the variables of a
  call hold at each point of it and in which state its checkpoint is; `FileInv`
  what each file holds, unless the user wrote to it during the call.
* `UndoRestoresAll`: `Spec => []UndoAllRestores`. Checkpoints are undone in any
  order the contents allow, so no order on them is invariant. What is: the
  changes of a file that are recorded and not undone are edges between
  contents, and each content is left by as many as reach it, but for the first
  and the present one (`BalanceInv`, as on a path that uses every edge once).
  Every step keeps this balance: a patch adds an edge at the present end, an
  undo removes one there. With no edge left the two ends are equal.

The same module, from `LoopAssumption` and `TypeCorrect`:

* `RunsBounded`: `Spec => []RunBounded`. The invariant counts what restarted the
  tool budget of the run: its autonomous turns and the steering that has left
  the queue (`Turns`), `max_steps` requests each (`Budget`). Within a budget
  every request but the first follows a finished tool round, and a round that
  would be the `max_steps`-th ends the run.
* `NoneSkipped`: `Spec => []NoSteeringSkipped`. `mark` is the number the next
  steering bears when the last answer was complete, or when the last request was
  sent. After the last look of a run that ends by itself the queue was empty, so
  what it holds at the end, or takes in between that look and the end, has at
  least that number.
* `SteeringInOrder`: `Spec => []SteeringFifo`. The invariant orders the steering
  of the file and of the queue below the next number (`Ordered`); while no crash
  happened no line is torn, and while no branch was taken either every number is
  in one of the two (`Complete`). Lemmas state what a recorded item
  (`OtherItem`), a taken one (`TakenItem`), a queued one (`QueuedItem`) and a
  shorter file (`FewerItems`) do to both; a fork is two `SubSeq`s of the file.

`ModelAccessProofs` (for any processes that share the sign-in, any providers,
setups and bounds), from `SignInAssumption` and `ModelAssumption`:

* `TokensSpentOnce`: `Spec => []SpentOnce`. The invariant (`SignInv`) holds as long as
  every process that asked for the lock got it (`unlocked`) and no rotation was
  lost on its way to a process or to the file (`torn`), the two cases the property
  excepts. It says that whoever refreshes holds the file lock (`Exclusive`) and has just read the file
  (`Reread`), that what a process remembers of an unchanged file is what the file
  holds (`Remembered`), that whoever has just rotated holds the newest token
  (`Rotated`), and that the file holds it unless it is about to be written
  (`Current`).
* `TokenAfter401`: `Spec => []FreshAfter401` (`FreshInv`, beside `SignInv`): the client
  insists exactly after its first 401 (`Insists`, `Asking`), nobody has a token newer
  than the issuer's (`Generations`), and the token this sign-in returns is not the
  refused one (`Another`): the file has changed since, or it is refreshed. Excepted
  is an issuer that answers without an access token, when the old one is kept
  (`kept`). A second 401 of a request is not covered: it ends the request.
* `AnswerGivenOnce`: `Spec => []OneAnswer` (`VoiceInv`): a request is sent again only
  while nothing was shown.
* `RetriesAreNoReuse`: `Spec => []ReuseIsReal` (`SeenInv`): what the cache plan
  counted of a prefix is at most one use per stream, one per list of efforts the
  stream learned and one per provider it left.

`WorkbenchProofs` and `WorkbenchFileProofs` are about `Workbench`. Its parts share
no state, so each is proved about first, by itself and for every value of its
constants; where one needs a hypothesis the theorem states it.

Then the parts are put together. `PartsBegin` and `PartsMove` say that a beginning
and a step of `Workbench` are, for every part, a beginning and a step or a
stutter of that part; hence what each part keeps `Workbench` keeps, in any
interleaving. These theorems are about whole properties of the `workbench` run:
`AnswersAreMatched` (`Spec => []AnswersMatched`), `ProcessesAreAccounted`
(`[]ProcessesAccounted`), `TerminalIsSound` (`[]TerminalSound`), `NothingIsLost`
(`[]NothingLost`) and `EditsAreSound` (`[]EditsSound`), under the hypotheses of their
parts and no other.

`WorkbenchProofs` (servers, jobs, snippets, the terminal, the headless command):

* `ToolAnswersAreMine`: `Mcp!McpSpec => []AnswerIsMine`. The request that waits has a
  number of the client's own (`McpInv`), and only that number is returned. The client compares
  the number before it looks at the kind of a message, so a request of the server
  that bears the awaited number is taken for the answer: the property says so, and
  needs no hypothesis on the server's numbers.
* `LspAnswersAreMine`: `Lsp!LspSpec => []LspAnswerIsMine`. A language server may number
  its requests as the client does; but the client looks at the kind of a message
  before its number, so only an answer is taken, and only under the last number
  used. Besides the types of the queue and of the numbers (`LspInv`) nothing is
  needed, and no hypothesis.
* `StopsReachProcesses`: `[]StopReaches`. A process runs only from `Popen` to the
  return of its thread's wait, and is published before the thread waits
  (`ProcessInv`): the mark is seen either by `stop_jobs`, which then finds the
  process, or by the thread. Hypothesis: `MaxJobs` is a natural number.
* `LiveJobsAreListed`: `[]LiveListed`. The table has every job whose thread lives,
  each under a key of its own (`ListedInv`). What a full table gives up has ended
  (`EvictsEnded`); and among one more numbers than the table has keys one is free,
  hence a lowest one (`KeyIsFree`, by counting and `Least`), so that an id used
  again is no other job's. Hypothesis: `MaxJobs` is a natural number.
* `FallbacksAreVisible`: `[]DegradesVisibly`. A snippet that ran in the process is on its
  way out or has its answer (`PlacedInv`; that an unsafe one was meant for the
  sandbox is `UnsafeIsSandboxed`); one that is alone in the process holds the
  directory and output it has to put back (`AloneInv`).
* `LastAnswerIsFinal`: `[](LastAnswer /\ ClosedAtEnd)`. What was opened is said by
  the stage and the options alone (`OpenInv`); `AnswerInv` follows the last answer
  from its response through the turn to what is printed or written; `EndInv` says
  what is written and noted by the end, and `OpenInv` that the session stays open only
  after a refusal or an exception nothing catches.
* `TerminalKeepsOrder`: `[](OneRun /\ PlanHeld)`. Where the console stands says whether
  a run is at work, and only the last one begun can be (`AtWorkInv`). That a late
  run of another session does not touch the plan needs that what waits is
  younger than every run of another session (`AgeInv`), hence where lines can
  wait (`QueueInv`) and that they were typed before (`TypedInv`). `AtWorkInv` and
  `OutlineInv` end where the property does: when the loop's shutdown gave up on a
  run and left it behind (`left_behind`). The mode is read-only
  while the user's is set aside (`ModeInv`). Hypothesis: no mode is called "none".
* `FollowUpsAreKept`: `[](FollowUpsKept /\ ImagesOnce)`. Lines are numbered as they
  are typed: those begun, those waiting at the prompt and those pending follow one
  another in increasing order, and the announced ones are among them in theirs,
  hence each is there once and none overtakes another (`LinesInv`). An image that
  waits went with no prompt, any other with exactly one (`ImagesInv`). Hypothesis: no
  mode is called "none".

`WorkbenchFileProofs` (files that others write too):

* `IndexesAreFresh`: `[]IndexFresh`. Every identity in use is older than the next one
  (`StampInv`), so rows collected under a file's present identity are those of its
  present text, in both copies of the index and in the build under way (`RowInv`).
  `FreshInv`: if nothing was saved since the build began, what it discovered is
  what the files are; `WrittenInv`: a process reads back its own index or that of
  another process.
* `EditsAreWhole`: `[]WholeOrNothing`. Before the files are read again only a user's
  text differs from what was planned on (`PlannedInv`); after that the snapshots
  are what was planned on, and a file the user leaves alone holds its snapshot
  until it is replaced and the edit of it afterwards (`ReplacedInv`); after a refusal
  that is what was planned on or, where the file could not be written back, the
  whole edit (`unrestored`).
* `CommitsTell`: `[]CommitTells`. Between staging and commit, if nobody else staged or
  wrote, the index holds what was asked for as the work tree has it and the
  head's content elsewhere (`StagedInv`), and the list is all that is staged
  (`ListedInv`).
* `WorkIsKept`: `[]WorkKept`. While a worker's task is under way its worktree is there,
  and when it closes a ref holds what Git saw (`edited`) or the task has an error, in
  which case the worktree is retained (`WorkInv`). What Git did not see (`hidden`) is
  kept only with a worktree: that of a task without an error goes.
* `KeysAreKept`: `[]KeysKept`. While no two changes overlap, the two names are two files
  (`AloneInFile`), the file holds what the finished changes leave (`HeldInv`) and the
  new file is the writer's own (`ChangeInv`); a free node exists since others hold
  at most two (`NodeIsFree`). Hypotheses: processes are finitely many, and no
  provider has the name the model marks a torn file with.
* `GoalsAreExact`: `[]GoalExact`. What a process saves is a change of the file as it
  still is (`LoadedInv`). The rest is arithmetic on the newest entries: to cut before
  and after an entry is added is to cut after it (`CutOnceMore`), and a second, shorter
  cut is the only one that counts (`CutTwice`). Hypothesis: the bound of a run on
  a goal's entries is no tighter than `MAX_PROGRESS_ENTRIES`.
* `LatestSessionIsLast`: `[]LatestIsLast`. While the local clock was not set back
  (`set_back`), nothing started later than the clock's second, nor later than the
  session started last (`OrderInv`), and no write, tear or resume changes when a
  file was started (`WriteKeepsStart`, `OrderKept`).
  Hypothesis: the random parts of names are numbers, as an order on them.

Not proved. Liveness: `StreamSettles` and `CancelEnds`, since fairness is beyond
the prover. `DisconnectEnds`, `DoneMessageRendered` and the properties of the
other finding runs, which are false. `ContextExact` and `LaunchFinds`: their
conjuncts (`ChatMessages`, `ChatStream`, `IndexChunks`, `CodeSearch`, `ListTree`,
`FileContext`, `TextEdits`, `Settings`, `ToolHost`, `Extensions`, and `SessionReloads` of
`SessionFiles`) say what recursive definitions, folds, filters and sorts make of a
sequence, whose value for every input needs the induction over data that the
installed provers lack. TLC evaluates those over all inputs within the bounds
of section 3.

## 6. Not modelled

* Hosted HTTP routing and authentication: checks of one request before the
  modelled handlers, without a state.
* Billing by a control plane, its sessions and keys: they happen in another
  program behind HTTP. The browser login runs the provider's own program.
* Embeddings, vectors and the native search backend, the map of a repository and
  its symbols: numeric or text algorithms whose results only order or cut a list.
* Prompts, summaries, media, visual output, rendering, the HTML export: assembly of text
  and pictures; the limits that matter are those of the ledger and mentions.
* Discovery of skills and of formatters: a walk over directories.
* The jail's own limits, retention of checkpoints by age, the size of the pool of
  sub-agents: they depend on the operating system or on time alone.
* Kernels, benchmarks, evaluations, installers: tooling outside the agent.
