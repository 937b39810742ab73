------------------------------ MODULE Subagents ------------------------------
(***************************************************************************)
(* Delegation (mjj/subagents.py, mjj/tools/delegate.py) and the plan it    *)
(* advances (mjj/tools/plan.py).  Each task is a thread that seeds a Git   *)
(* worktree with the parent's state, lets a child agent work there,        *)
(* captures a worker's changes as a commit under a ref of the parent's     *)
(* repository, and removes or keeps the worktree.  Any command of Git and  *)
(* any write of the child's rollout may fail.                              *)
(***************************************************************************)
EXTENDS Integers, Sequences, FiniteSets, SequencesExt

CONSTANTS
  Task,          \* the tasks of one call of delegate, at most four
  Plans,         \* the plans update_plan is given: sequences of step and status
  NoStep,        \* a task that names no step
  MaxRounds,     \* bound: calls of delegate
  MaxGitFaults   \* bound: commands of Git and writes that fail

VARIABLES
  plan,          \* ctx.state["plan"]
  role, plan_step,
  child,         \* where a task's thread stands
  tree,          \* its worktree: none, live, removed, retained and reported
  edited,        \* tasks whose child has changed what Git will be asked about
  hidden,        \* tasks whose child has changed what Git does not see
  ref,           \* tasks whose changes a ref of the parent holds
  ok, error,     \* tasks whose result says so
  usage,         \* tasks whose result carries the child's usage
  merged,        \* usage the parent has taken over
  round, gitFaults  \* bounds

subVars == <<plan, role, plan_step, child, tree, edited, hidden, ref, ok, error,
             usage, merged, round, gitFaults>>

Statuses == {"pending", "in_progress", "completed"}
Labels == {e.step : e \in UNION {ToSet(p) : p \in Plans}} \cup {NoStep}

SubInit ==
  /\ plan = << >> /\ round = 0 /\ gitFaults = 0 /\ merged = 0
  /\ role = [t \in Task |-> "reviewer"] /\ plan_step = [t \in Task |-> NoStep]
  /\ child = [t \in Task |-> "off"] /\ tree = [t \in Task |-> "none"]
  /\ edited = {} /\ hidden = {} /\ ref = {} /\ ok = {} /\ error = {} /\ usage = {}

InProgress(p) == Cardinality({i \in DOMAIN p : p[i].status = "in_progress"})

(* update_plan refuses a plan with two steps in progress. *)
update_plan ==
  /\ \A t \in Task : child[t] = "off"
  /\ plan' \in {p \in Plans : InProgress(p) <= 1} \ {plan}
  /\ UNCHANGED <<role, plan_step, child, tree, edited, hidden, ref, ok, error,
                 usage, merged, round, gitFaults>>

(* The tasks of a call are made together; a worker gets every tool, a       *)
(* reviewer only those that change nothing.                                 *)
delegate ==
  /\ \A t \in Task : child[t] = "off"
  /\ round < MaxRounds /\ round' = round + 1
  /\ role' \in [Task -> {"reviewer", "worker"}] /\ plan_step' \in [Task -> Labels]
  /\ child' = [t \in Task |-> "creating"] /\ tree' = [t \in Task |-> "none"]
  /\ edited' = {} /\ hidden' = {} /\ ref' = {} /\ ok' = {} /\ error' = {} /\ usage' = {}
  /\ UNCHANGED <<plan, merged, gitFaults>>

Step(t, from, to) == child[t] = from /\ child' = [child EXCEPT ![t] = to]
Fault == gitFaults < MaxGitFaults /\ gitFaults' = gitFaults + 1
Fails(t) == Fault /\ error' = error \cup {t}
Same == <<plan, role, plan_step, merged, round>>

(* _Worktree.create: a worktree that cannot be seeded is removed again, as  *)
(* far as Git can; the task then has none.                                  *)
create(t) ==
  /\ \/ /\ Step(t, "creating", "running") /\ tree' = [tree EXCEPT ![t] = "live"]
        /\ UNCHANGED <<error, gitFaults>>
     \/ Step(t, "creating", "closing") /\ Fails(t) /\ UNCHANGED tree
  /\ UNCHANGED <<edited, hidden, ref, ok, usage, Same>>

Edit(t) ==
  /\ child[t] = "running" /\ role[t] = "worker" /\ t \notin edited
  /\ edited' = edited \cup {t}
  /\ UNCHANGED <<child, tree, hidden, ref, ok, error, usage, gitFaults, Same>>

(* Ignored files and the inside of a nested repository, which status and    *)
(* add -A pass over; and what a process the child left running writes after *)
(* they were asked: nothing stops it.                                       *)
EditUnseen(t) ==
  /\ child[t] \in {"running", "capturing", "committing", "naming", "closing"}
  /\ role[t] = "worker" /\ tree[t] = "live" /\ t \notin hidden
  /\ hidden' = hidden \cup {t}
  /\ UNCHANGED <<child, tree, edited, ref, ok, error, usage, gitFaults, Same>>

(* The child's answer has no errors, has some, or its run raises. *)
_final_answer(t) ==
  /\ \/ /\ Step(t, "running", IF role[t] = "worker" THEN "capturing" ELSE "closing")
        /\ ok' = ok \cup {t} /\ usage' = usage \cup {t} /\ UNCHANGED <<error, gitFaults>>
     \/ /\ Step(t, "running", "closing") /\ error' = error \cup {t}
        /\ usage' = usage \cup {t} /\ UNCHANGED <<ok, gitFaults>>
     \/ Step(t, "running", "closing") /\ Fails(t) /\ UNCHANGED <<ok, usage>>
  /\ UNCHANGED <<tree, edited, hidden, ref, Same>>

(* capture: reset to the baseline, look for changes; commit them; name the  *)
(* commit.  The result's ok was set before.                                 *)
capture(t) ==
  /\ \/ /\ Step(t, "capturing", IF t \in edited THEN "committing" ELSE "closing")
        /\ UNCHANGED <<error, gitFaults>>
     \/ Step(t, "capturing", "closing") /\ Fails(t)
  /\ UNCHANGED <<tree, edited, hidden, ref, ok, usage, Same>>

_commit(t) ==
  /\ \/ Step(t, "committing", "naming") /\ UNCHANGED <<error, gitFaults>>
     \/ Step(t, "committing", "closing") /\ Fails(t)
  /\ UNCHANGED <<tree, edited, hidden, ref, ok, usage, Same>>

update_ref(t) ==
  /\ \/ Step(t, "naming", "closing") /\ ref' = ref \cup {t} /\ UNCHANGED <<error, gitFaults>>
     \/ Step(t, "naming", "closing") /\ Fails(t) /\ UNCHANGED ref
  /\ UNCHANGED <<tree, edited, hidden, ok, usage, Same>>

(* Mutant: the worktree goes, whatever the result. *)
CloseAnyway(t) ==
  /\ Step(t, "closing", "done")
  /\ tree' = [tree EXCEPT ![t] = IF @ = "live" THEN "removed" ELSE @]
  /\ UNCHANGED <<edited, hidden, ref, ok, error, usage, gitFaults, Same>>

(* The finally clause: the rollout is noted and closed, the worktree of a   *)
(* worker with an error is kept, any other is removed; one that Git cannot  *)
(* remove stays, and is an error, unless its directory is gone.  A note     *)
(* that cannot be written leaves the worktree behind and becomes the result.*)
close(t) ==
  /\ Step(t, "closing", "done")
  /\ \/ /\ tree[t] = "live" /\ t \in error /\ role[t] = "worker"
        /\ tree' = [tree EXCEPT ![t] = "retained"]
        /\ UNCHANGED <<gitFaults, ok, error, usage>>
     \/ /\ tree[t] = "live" /\ ~(t \in error /\ role[t] = "worker")
        /\ \/ /\ tree' = [tree EXCEPT ![t] = "removed"] /\ UNCHANGED error
              /\ Fault \/ UNCHANGED gitFaults
           \/ tree' = [tree EXCEPT ![t] = "retained"] /\ Fails(t)
        /\ UNCHANGED <<ok, usage>>
     \/ tree[t] = "none" /\ UNCHANGED <<tree, gitFaults, ok, error, usage>>
     \/ /\ Fails(t) /\ ok' = ok \ {t} /\ usage' = usage \ {t} /\ UNCHANGED tree
  /\ UNCHANGED <<edited, hidden, ref, Same>>

(* advance_plan_for_tasks: the steps of the tasks whose result is ok are    *)
(* completed; when no step is in progress then, the first pending one is.   *)
advance(steps, done) ==
  LET updated == [i \in DOMAIN steps |->
        IF steps[i].step \in done THEN [steps[i] EXCEPT !.status = "completed"]
        ELSE steps[i]]
      pending == {i \in DOMAIN updated : updated[i].status = "pending"}
      first == CHOOSE i \in pending : \A j \in pending : i <= j
  IN IF done = {} THEN steps
     ELSE IF InProgress(updated) = 0 /\ pending # {}
     THEN [updated EXCEPT ![first].status = "in_progress"]
     ELSE updated

Done == {plan_step[t] : t \in ok} \ {NoStep}

(* The rest of delegate, once every thread is done. *)
Collect ==
  /\ \A t \in Task : child[t] = "done"
  /\ child' = [t \in Task |-> "off"]
  /\ plan' = advance(plan, Done) /\ merged' = merged + Cardinality(usage)
  /\ UNCHANGED <<role, plan_step, tree, edited, hidden, ref, ok, error, usage, round,
                 gitFaults>>

SubNext ==
  \/ update_plan \/ delegate \/ Collect
  \/ \E t \in Task : create(t) \/ Edit(t) \/ EditUnseen(t) \/ _final_answer(t)
                     \/ capture(t) \/ _commit(t) \/ update_ref(t) \/ close(t)

SubSpec == SubInit /\ [][SubNext]_subVars

(* What a worker changed is not lost when its task ends: its worktree is    *)
(* still there, as after every error; or the task has no error and a ref of *)
(* the parent's repository holds what Git saw when it was asked.  The rest  *)
(* of a task without an error, which Git did not see, goes with the         *)
(* worktree (_one, capture, close).                                         *)
WorkKept ==
  \A t \in edited \cup hidden : child[t] \in {"done", "off"} =>
    \/ tree[t] \in {"live", "retained"}
    \/ t \notin error /\ (t \in edited => t \in ref)
=============================================================================
