------------------------------ MODULE ShellJobs ------------------------------
(***************************************************************************)
(* Background commands of the shell tool (mjj/tools/shell.py: ShellTool    *)
(* with background=true, _start_shell_job, _execute_job, _poll, stop_jobs).*)
(* A table names each job by the lowest free number; a thread per job      *)
(* starts the process, publishes it and waits for it.  The tool's caller   *)
(* starts, polls and stops jobs, one at a time; stop_jobs runs between the *)
(* steps of the threads.                                                   *)
(***************************************************************************)
EXTENDS Integers, FiniteSets

CONSTANTS
  MaxTable,      \* jobs the table holds (32)
  MaxJobs,       \* bound: jobs started in a run
  MaxStops       \* bound: calls of stop_jobs

Job == 1..MaxJobs

VARIABLES
  jobs,          \* the table: the key of each job in it, oldest job first
  started,       \* jobs made so far
  thread,        \* where a job's thread stands
  process,       \* job.process is set
  running,       \* the process runs
  stopped,       \* job.stopped
  signalled,     \* the process was asked to terminate
  outcome,       \* job.outcome
  stopping,      \* the jobs stop_jobs has still to visit, oldest first
  marked,        \* the job it has marked and not yet signalled, 0 for none
  stops          \* bound

jobVars == <<jobs, started, thread, process, running, stopped, signalled,
             outcome, stopping, marked, stops>>

(* A thread: not made, before Popen, process made, process published, in    *)
(* communicate, outcome computed, ended; killed by an exception that        *)
(* _execute_job does not catch.                                             *)
Ended == {"none", "ended", "killed"}
is_alive(j) == thread[j] \notin Ended
Listed == DOMAIN jobs
Keys(table) == {table[j] : j \in DOMAIN table}

JobInit ==
  /\ jobs = [j \in {} |-> 0] /\ started = 0
  /\ thread = [j \in Job |-> "none"] /\ outcome = [j \in Job |-> "none"]
  /\ process = {} /\ running = {} /\ stopped = {} /\ signalled = {}
  /\ stopping = {} /\ marked = 0 /\ stops = 0

(* A full table gives up its oldest completed jobs, as many as bring it     *)
(* below the limit; when none has completed the command is refused.         *)
Evict(table) ==
  LET size == Cardinality(DOMAIN table)
      completed == {j \in DOMAIN table : ~is_alive(j)}
      Older(j) == {i \in completed : i < j}
      gone == {j \in completed : Cardinality(Older(j)) < 1 + size - MaxTable}
  IN [j \in DOMAIN table \ gone |-> table[j]]

LowestFree(table) ==
  CHOOSE k \in 1..(Cardinality(DOMAIN table) + 1) :
    k \notin Keys(table) /\ 1..(k - 1) \subseteq Keys(table)

Idle == stopping = {} /\ marked = 0

_start_shell_job ==
  /\ Idle /\ started < MaxJobs
  /\ LET table == Evict(jobs)
         j == started + 1
     IN IF Cardinality(DOMAIN table) >= MaxTable
        THEN jobs' = table /\ UNCHANGED <<started, thread>>
        ELSE /\ jobs' = [i \in DOMAIN table \cup {j} |->
                          IF i = j THEN LowestFree(table) ELSE table[i]]
             /\ started' = j /\ thread' = [thread EXCEPT ![j] = "starting"]
  /\ UNCHANGED <<process, running, stopped, signalled, outcome, stopping, marked, stops>>

(* _execute_job, step by step. *)
At(j, from, to) == thread[j] = from /\ thread' = [thread EXCEPT ![j] = to]
JobRest == <<jobs, started, stopping, marked, stops>>

Popen(j) ==
  /\ \/ At(j, "starting", "spawned") /\ running' = running \cup {j} /\ UNCHANGED outcome
     \/ /\ At(j, "starting", "returned") /\ UNCHANGED running
        /\ outcome' = [outcome EXCEPT ![j] = "failed"]
     \/ At(j, "starting", "killed") /\ UNCHANGED <<running, outcome>>
  /\ UNCHANGED <<process, stopped, signalled, JobRest>>

Publish(j) ==
  /\ At(j, "spawned", "published") /\ process' = process \cup {j}
  /\ UNCHANGED <<running, stopped, signalled, outcome, JobRest>>

Terminate(j) == signalled' = IF j \in running THEN signalled \cup {j} ELSE signalled

(* Mutant: the thread does not look at stopped. *)
CheckNothing(j) ==
  /\ At(j, "published", "waiting")
  /\ UNCHANGED <<process, running, stopped, signalled, outcome, JobRest>>

CheckStopped(j) ==
  /\ At(j, "published", "waiting")
  /\ IF j \in stopped THEN Terminate(j) ELSE UNCHANGED signalled
  /\ UNCHANGED <<process, running, stopped, outcome, JobRest>>

(* The process ends by itself, well or not, or after a signal. *)
Exit(j) ==
  /\ j \in running /\ running' = running \ {j}
  /\ UNCHANGED <<thread, process, stopped, signalled, outcome, JobRest>>

communicate(j) ==
  /\ At(j, "waiting", "returned") /\ j \notin running
  /\ \E code \in {"ok", "failed"} :
       outcome' = [outcome EXCEPT ![j] =
         IF j \in stopped THEN "stopped" ELSE code]
  /\ process' = process \ {j} /\ UNCHANGED <<running, stopped, signalled, JobRest>>

TimeoutExpired(j) ==
  /\ At(j, "waiting", "returned") /\ j \in running /\ running' = running \ {j}
  /\ outcome' = [outcome EXCEPT ![j] = "timeout"]
  /\ process' = process \ {j} /\ UNCHANGED <<stopped, signalled, JobRest>>

End(j) ==
  /\ At(j, "returned", "ended")
  /\ UNCHANGED <<process, running, stopped, signalled, outcome, JobRest>>

(* stop_jobs: for each live job of the table, stopped is set, then its      *)
(* process is read and asked to terminate.                                  *)
stop_jobs ==
  /\ Idle /\ stops < MaxStops /\ stops' = stops + 1 /\ Listed # {}
  /\ stopping' = Listed
  /\ UNCHANGED <<jobs, started, thread, process, running, stopped, signalled, outcome, marked>>

Mark ==
  /\ marked = 0
  /\ \E j \in stopping :
       /\ \A i \in stopping : j <= i
       /\ stopping' = stopping \ {j}
       /\ IF is_alive(j) THEN marked' = j /\ stopped' = stopped \cup {j}
          ELSE UNCHANGED <<marked, stopped>>
  /\ UNCHANGED <<jobs, started, thread, process, running, signalled, outcome, stops>>

Signal ==
  /\ marked # 0 /\ marked' = 0
  /\ IF marked \in process THEN Terminate(marked) ELSE UNCHANGED signalled
  /\ UNCHANGED <<jobs, started, thread, process, running, stopped, outcome, stopping, stops>>

JobStep(j) ==
  Popen(j) \/ Publish(j) \/ CheckStopped(j) \/ communicate(j) \/ TimeoutExpired(j) \/ End(j)

JobNext ==
  \/ _start_shell_job \/ stop_jobs \/ Mark \/ Signal
  \/ \E j \in Job : JobStep(j) \/ Exit(j)

(* What a poll of a key answers. *)
_poll(key) ==
  IF key \notin Keys(jobs) THEN "unknown"
  ELSE LET j == CHOOSE j \in Listed : jobs[j] = key
       IN IF is_alive(j) \/ outcome[j] = "none" THEN "running" ELSE outcome[j]

(* A job stop_jobs marked is asked to terminate whenever its process was    *)
(* made: stop_jobs, or the thread when it comes to wait for it, sees to it. *)
StopReaches ==
  \A j \in stopped \cap running :
    thread[j] = "waiting" /\ marked # j => j \in signalled

(* A command that may still run can be polled and stopped: it is in the     *)
(* table, under a key no other job has, and a poll calls it running.        *)
LiveListed ==
  /\ \A j \in Job : is_alive(j) \/ j \in running => j \in Listed
  /\ \A i, j \in Listed : jobs[i] = jobs[j] => i = j
  /\ \A j \in Listed : is_alive(j) => _poll(jobs[j]) = "running"
=============================================================================
