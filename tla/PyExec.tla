------------------------------- MODULE PyExec -------------------------------
(***************************************************************************)
(* Running Python for the py tool (mjj/tools/py_exec.py, mjj/exec).  A     *)
(* snippet is placed by its form, the caller or the environment; a backend *)
(* that cannot be had is replaced by the next, in the end by this          *)
(* interpreter, where a snippet changes the directory and the standard     *)
(* output of the whole process while it runs.  Sub-agents run snippets in  *)
(* threads of one process.                                                 *)
(***************************************************************************)
EXTENDS Integers, Sequences, FiniteSets

CONSTANTS
  Runner,        \* threads that call the tool
  MaxRuns        \* bound: snippets in all

VARIABLES
  py,            \* where each call stands
  selected,      \* the path chosen for it
  code,          \* the form of its snippet
  cwd,           \* the directory of the process: "home" or a runner's
  stdout,        \* the output of the process: "terminal" or a runner's
  previous_cwd, previous_out,
  executed,      \* backends that may have run the snippet
  reply,         \* path, requested_path, whether fallback says why
  overlapped,    \* two snippets were inside the process at once
  runs

pyVars == <<py, selected, code, cwd, stdout, previous_cwd, previous_out,
            executed, reply, overlapped, runs>>

Codes == {"syntax", "pure", "loops", "unsafe"}
PATHS == {"inproc", "accelerated", "sandbox", "remote"}
NoReply == [path |-> "none", requested |-> "none", why |-> FALSE]

PyInit ==
  /\ py = [r \in Runner |-> "idle"] /\ selected = [r \in Runner |-> "none"]
  /\ code = [r \in Runner |-> "pure"]
  /\ cwd = "home" /\ stdout = "terminal"
  /\ previous_cwd = [r \in Runner |-> "home"]
  /\ previous_out = [r \in Runner |-> "terminal"]
  /\ executed = [r \in Runner |-> {}] /\ reply = [r \in Runner |-> NoReply]
  /\ overlapped = FALSE /\ runs = 0

(* choose_path: the caller or MJJ_EXEC decides, then packages, then what    *)
(* the snippet could reach and whether it has loops worth compiling.        *)
choose_path(form, packages, explicit) ==
  IF explicit # "none" THEN explicit
  ELSE IF packages THEN "sandbox"
  ELSE CASE form = "unsafe" -> "sandbox"
         [] form = "loops" -> "accelerated"
         [] form \in {"syntax", "pure"} -> "inproc"

Goto(r, from, to) == py[r] = from /\ py' = [py EXCEPT ![r] = to]
ProcessWide == <<cwd, stdout, previous_cwd, previous_out, overlapped>>
Request == <<selected, code, runs>>

execute(r) ==
  /\ py[r] = "idle" /\ runs < MaxRuns /\ runs' = runs + 1
  /\ \E form \in Codes, packages \in BOOLEAN, explicit \in PATHS \cup {"none"} :
       LET path == choose_path(form, packages, explicit)
       IN /\ selected' = [selected EXCEPT ![r] = path] /\ code' = [code EXCEPT ![r] = form]
          /\ py' = [py EXCEPT ![r] =
               IF path = "sandbox" THEN IF packages THEN "worker" ELSE "jail"
               ELSE IF path = "remote" THEN "remote" ELSE "enter"]
  /\ executed' = [executed EXCEPT ![r] = {}] /\ reply' = [reply EXCEPT ![r] = NoReply]
  /\ UNCHANGED ProcessWide

(* A backend answers; or it cannot be had, and may have run the snippet all *)
(* the same: the answer was lost, late, too long or taken for an error.     *)
Backend(r, name, path, next) ==
  /\ \/ /\ Goto(r, name, "idle") /\ executed' = [executed EXCEPT ![r] = @ \cup {name}]
        /\ reply' = [reply EXCEPT ![r] = [path |-> path, requested |-> "none", why |-> FALSE]]
     \/ /\ Goto(r, name, next) /\ UNCHANGED reply
        /\ \/ UNCHANGED executed
           \/ executed' = [executed EXCEPT ![r] = @ \cup {name}]
  /\ UNCHANGED <<Request, ProcessWide>>

_run_jail(r) == Backend(r, "jail", "sandbox", "worker")
run_worker(r) == Backend(r, "worker", "sandbox", "enter")
run_remote(r) == Backend(r, "remote", "remote", "enter")

(* _run_current, step by step: directory, output, the snippet, and back,    *)
(* whatever the snippet raised or however long it took.                     *)
Inside == {q \in Runner : py[q] \in {"redirect", "running", "restore"}}

chdir(r) ==
  /\ Goto(r, "enter", "redirect")
  /\ previous_cwd' = [previous_cwd EXCEPT ![r] = cwd] /\ cwd' = r
  /\ overlapped' = (overlapped \/ Inside # {})
  /\ UNCHANGED <<Request, stdout, previous_out, executed, reply>>

redirect_stdout(r) ==
  /\ Goto(r, "redirect", "running")
  /\ previous_out' = [previous_out EXCEPT ![r] = stdout] /\ stdout' = r
  /\ UNCHANGED <<Request, cwd, previous_cwd, overlapped, executed, reply>>

exec(r) ==
  /\ Goto(r, "running", "restore")
  /\ executed' = [executed EXCEPT ![r] = @ \cup {"process"}]
  /\ stdout' = previous_out[r]
  /\ UNCHANGED <<Request, cwd, previous_cwd, previous_out, overlapped, reply>>

(* What the result says of the path: the one asked for and why, when it was *)
(* not taken as asked.  A snippet without a loop to compile, or without     *)
(* mojosub to compile it, is interpreted.                                   *)
Interpreted(path, asked) == [path |-> path, requested |-> asked, why |-> TRUE]
Answers(r) ==
  CASE selected[r] = "inproc" -> {[path |-> "inproc", requested |-> "none", why |-> FALSE]}
    [] selected[r] \in {"sandbox", "remote"} -> {Interpreted("inproc", selected[r])}
    [] selected[r] = "accelerated" ->
         CASE code[r] = "syntax" -> {Interpreted("inproc", "accelerated")}
           [] code[r] = "loops" ->
                { [path |-> "accelerated", requested |-> "none", why |-> FALSE],
                  Interpreted("inproc", "accelerated") }
           [] code[r] \in {"pure", "unsafe"} ->
                {Interpreted("accelerated", "accelerated")}

_run_current(r) ==
  /\ Goto(r, "restore", "idle") /\ cwd' = previous_cwd[r]
  /\ \E answer \in Answers(r) : reply' = [reply EXCEPT ![r] = answer]
  /\ UNCHANGED <<Request, stdout, previous_cwd, previous_out, overlapped, executed>>

PyNext ==
  \E r \in Runner :
    \/ execute(r) \/ _run_jail(r) \/ run_worker(r) \/ run_remote(r)
    \/ chdir(r) \/ redirect_stdout(r) \/ exec(r) \/ _run_current(r)

PySpec == PyInit /\ [][PyNext]_pyVars

(* A snippet that could touch the host runs in this process only if the     *)
(* caller or the environment asked for it, or if every backend failed and   *)
(* the result says so; and unless two snippets were in the process at once, *)
(* the directory and the output are the program's own again when none is.   *)
DegradesVisibly ==
  /\ \A r \in Runner :
       py[r] = "idle" /\ "process" \in executed[r] /\ selected[r] \in {"sandbox", "remote"}
         => reply[r].requested = selected[r] /\ reply[r].why
  /\ ~overlapped /\ Inside = {} => cwd = "home" /\ stdout = "terminal"
=============================================================================
