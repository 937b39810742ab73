------------------------------ MODULE Workbench ------------------------------
(***************************************************************************)
(* The parts a session works with that keep a protocol with others: tool   *)
(* servers, language servers, shell jobs, Python snippets, sub-agents,     *)
(* goals, the code index, edits of a language server, Git tools, the       *)
(* terminal, the headless command, the file of keys and the files of       *)
(* sessions.  They share no state but the files and the context of a       *)
(* session, which each of the modules has a part of: a step of the         *)
(* workbench is a step of one part, and the others rest.                   *)
(***************************************************************************)
EXTENDS Integers, Sequences

(* The constants of each part, described in its module. *)
CONSTANTS
  ServerIds, MaxPages, MaxCalls, MaxChatter,
  Asks, Lists, Empty, MaxAsides,
  MaxTable, MaxJobs, MaxStops,
  Task, Plans, NoStep, MaxRounds, MaxGitFaults,
  Process, GoalStatus, MAX_PROGRESS_ENTRIES, MaxGoals, MaxEntries,
  Builder, Path, Texts, MaxEdits, MaxBuilds,
  Modes, MaxTyped, MaxShots, MaxCommands,
  Runner, MaxRuns,
  Tracked, Contents, MaxWrites, MaxToolCalls,
  Sources, MaxAsked, MaxUser,
  MaxResponses, MaxDeltas, MaxTurns,
  Provider, Key, InEnvironment, MaxChanges,
  FileIds, MaxSecond, MaxLines, MaxTears

VARIABLES
  mcp, _next_id, awaited, pages, open, alive, unanswered, _messages, returned,
  calls, chatter,
  purpose, lsp, sequence, owed, inbox, diagnostics, server, answer, report, asides,
  jobs, started, thread, process, running, stopped, signalled, outcome, stopping,
  marked, stops,
  plan, role, plan_step, child, tree, edited, hidden, ref, ok, error, usage, merged, round,
  gitFaults,
  file, loaded, change, temporary, wanted, raced, goals, entries,
  disk, saved, existing, stage, todo, current_files, rows, since, unread, edits,
  builds,
  rich, console, prompts, pending_prompts, attachments, at_work, begun, queued,
  missed, permission, waiting, outline, session, left_behind, chosen, rechosen, typed,
  attached, commands,
  py, selected, code, cwd, stdout, previous_cwd, previous_out, executed, reply,
  overlapped, runs,
  head, git_index, work, changed, committing, asked, names, base, paired, foreign,
  answer_of, written, called,
  nav, texts, targets, originals, snapshots, left, pending, verdict, noted, meddled,
  unrestored, wanted_edits, user_writes,
  exec, options, opened, goal_set, response, responses, turn, after, rendered, last,
  odd, printed, output_file, usage_noted, exit_code,
  nodes, named, keyjob, keys, racing, cut, unmade, changes,
  rollouts, windows, titles, holding, second, set_back, lastly, wrote, tears, harmed

(* The variables of each part. *)
mcpVars == <<mcp, _next_id, awaited, pages, open, alive, unanswered,
  _messages, returned, calls, chatter>>
lspVars == <<purpose, lsp, sequence, owed, inbox, diagnostics, server, answer,
  report, asides>>
jobVars == <<jobs, started, thread, process, running, stopped, signalled,
  outcome, stopping, marked, stops>>
subVars == <<plan, role, plan_step, child, tree, edited, hidden, ref, ok, error,
  usage, merged, round, gitFaults>>
goalVars == <<file, loaded, change, temporary, wanted, raced, goals, entries>>
indexVars == <<disk, saved, existing, stage, todo, current_files, rows, since,
  unread, edits, builds>>
termVars == <<rich, console, prompts, pending_prompts, attachments, at_work,
  begun, queued, missed, permission, waiting, outline, session, left_behind,
  chosen, rechosen, typed, attached, commands>>
pyVars == <<py, selected, code, cwd, stdout, previous_cwd, previous_out,
  executed, reply, overlapped, runs>>
gitVars == <<head, git_index, work, changed, committing, asked, names, base,
  paired, foreign, answer_of, written, called>>
navVars == <<nav, texts, targets, originals, snapshots, left, pending,
  verdict, noted, meddled, unrestored, wanted_edits, user_writes>>
execVars == <<exec, options, opened, goal_set, response, responses, turn, after,
  rendered, last, odd, printed, output_file, usage_noted, exit_code>>
keyVars == <<nodes, named, keyjob, keys, racing, cut, unmade, changes>>
sessVars == <<rollouts, windows, titles, holding, second, set_back, lastly, wrote,
  tears, harmed>>

vars == <<mcpVars, lspVars, jobVars, subVars, goalVars, indexVars, termVars,
          pyVars, gitVars, navVars, execVars, keyVars, sessVars>>

-----------------------------------------------------------------------------
Mcp == INSTANCE McpClient
Lsp == INSTANCE LspClient
Jobs == INSTANCE ShellJobs
Sub == INSTANCE Subagents
Goal == INSTANCE Goals
Index == INSTANCE SearchIndex
Term == INSTANCE Terminal
Py == INSTANCE PyExec
Git == INSTANCE GitTools WITH index <- git_index
Nav == INSTANCE WorkspaceEdit
Exec == INSTANCE ExecCommand WITH
  goal <- goal_set, stdout <- printed, noted <- usage_noted, code <- exit_code
Keys == INSTANCE KeyFile
Sessions == INSTANCE SessionFiles
-----------------------------------------------------------------------------
Init ==
  /\ Mcp!McpInit /\ Lsp!LspInit /\ Jobs!JobInit /\ Sub!SubInit /\ Goal!GoalInit
  /\ Index!IndexInit /\ Term!TermInit({TRUE, FALSE}) /\ Py!PyInit /\ Git!GitInit
  /\ Nav!NavInit /\ Exec!ExecInit /\ Keys!KeyInit /\ Sessions!SessInit

(* All parts but one rest. *)
RestBut(part) ==
  /\ part # "mcp" => UNCHANGED mcpVars
  /\ part # "lsp" => UNCHANGED lspVars
  /\ part # "jobs" => UNCHANGED jobVars
  /\ part # "subagents" => UNCHANGED subVars
  /\ part # "goals" => UNCHANGED goalVars
  /\ part # "index" => UNCHANGED indexVars
  /\ part # "terminal" => UNCHANGED termVars
  /\ part # "python" => UNCHANGED pyVars
  /\ part # "git" => UNCHANGED gitVars
  /\ part # "navigate" => UNCHANGED navVars
  /\ part # "exec" => UNCHANGED execVars
  /\ part # "keys" => UNCHANGED keyVars
  /\ part # "sessions" => UNCHANGED sessVars

Mcps == Mcp!McpNext /\ RestBut("mcp")
Languages == Lsp!LspNext /\ RestBut("lsp")
Shell == Jobs!JobNext /\ RestBut("jobs")
Delegates == Sub!SubNext /\ RestBut("subagents")
KeepsGoal == Goal!GoalNext /\ RestBut("goals")
Indexes == Index!IndexNext /\ RestBut("index")
Types == Term!TermNext /\ RestBut("terminal")
RunsPython == Py!PyNext /\ RestBut("python")
UsesGit == Git!GitNext /\ RestBut("git")
Renames == Nav!NavNext /\ RestBut("navigate")
Executes == Exec!ExecNext /\ RestBut("exec")
LogsIn == Keys!KeyNext /\ RestBut("keys")
RecordsLines == Sessions!SessNext /\ RestBut("sessions")

Next ==
  \/ Mcps \/ Languages \/ Shell \/ Delegates \/ KeepsGoal \/ Indexes \/ Types
  \/ RunsPython \/ UsesGit \/ Renames \/ Executes \/ LogsIn
  \/ RecordsLines

Spec == Init /\ [][Next]_vars
-----------------------------------------------------------------------------
(* A request to a tool server or a language server returns no late answer   *)
(* to another one, and no request of the server's own but one that a tool   *)
(* server numbered like it (MCPClient.request, _Client.request).            *)
AnswersMatched == Mcp!AnswerIsMine /\ Lsp!LspAnswerIsMine

(* When stop_jobs returns every job of its list was told to stop, and a job *)
(* the table dropped had ended (mjj/tools/shell.py); a snippet of Python    *)
(* that was not run where it was asked to says so (mjj/exec); and what the  *)
(* headless command opened it closes, but for the session where it was      *)
(* refused or an exception went through it (mjj/cli.py).                    *)
ProcessesAccounted ==
  /\ Jobs!StopReaches /\ Jobs!LiveListed
  /\ Py!DegradesVisibly /\ Exec!ClosedAtEnd

(* What Git saw of a worker's changes outlives it (subagents.py); the goal  *)
(* file and the file of keys hold what was done so far, whatever crashes    *)
(* (goals.py, auth.py); and the session resumed without a name is the last  *)
(* one (session.py).  What each of them excepts is said where it is stated. *)
NothingLost ==
  Sub!WorkKept /\ Goal!GoalExact /\ Keys!KeysKept /\ Sessions!LatestIsLast

(* The terminal loses no follow-up it announced and sends no image twice,   *)
(* runs one turn at a time unless one was left behind, and holds to a plan; *)
(* and the headless command prints its last answer (mjj/tui.py, cli.py).    *)
TerminalSound ==
  /\ Term!FollowUpsKept /\ Term!ImagesOnce /\ Term!OneRun /\ Term!PlanHeld
  /\ Exec!LastAnswer

(* Edits of a language server change all files or none, but for a file that *)
(* could not be written back; the Git tools report what they did; and the   *)
(* index holds what the files hold                                          *)
(* (mjj/tools/navigate.py, commit.py, check.py and mjj/search/index.py).    *)
EditsSound == Nav!WholeOrNothing /\ Git!CommitTells /\ Index!IndexFresh
=============================================================================
