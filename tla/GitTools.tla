------------------------------ MODULE GitTools ------------------------------
(***************************************************************************)
(* The commit and check tools over a git work tree (mjj/tools/commit.py,   *)
(* mjj/tools/check.py).  Both default to the files the session changed, a  *)
(* set that only grows.  commit stages, lists what is staged and commits   *)
(* those names, in three git commands; the user edits and stages beside    *)
(* it.  Contents are small numbers, 0 for no file.                         *)
(***************************************************************************)
EXTENDS Integers, Sequences, FiniteSets

CONSTANTS
  Tracked,       \* paths
  Contents,      \* contents a file can have
  MaxWrites,     \* bound: edits by the agent and the user
  MaxToolCalls   \* bound: calls of the tools

VARIABLES
  head, index, work,  \* what git's head, its index and the work tree hold
  changed,       \* ctx.state["changed-files"]
  committing,    \* idle, added, listed
  asked,         \* the paths of the commit, as given
  names,         \* what git diff --cached listed
  base,          \* ghost: head before the commit
  paired,        \* ghost: git took a deletion and an addition for a renaming
  foreign,       \* ghost: other changes were staged, or the user wrote meanwhile
  answer_of,     \* the last result: none, committed, refused, and the tool's paths
  written, called

gitVars == <<head, index, work, changed, committing, asked, names, base, paired,
             foreign, answer_of, written, called>>

GitInit ==
  /\ LET x == CHOOSE f \in Tracked : TRUE
     IN head = [f \in Tracked |-> IF f = x THEN 1 ELSE 0]
  /\ index = head /\ work = head /\ changed = {} /\ committing = "idle"
  /\ asked = {} /\ names = {} /\ base = head /\ paired = FALSE /\ foreign = FALSE
  /\ answer_of = "none" /\ written = 0 /\ called = 0

Trees == <<head, index, work>>

(* An edit: by the agent, through its tools, or by the user. *)
Edit ==
  /\ written < MaxWrites /\ written' = written + 1
  /\ \E f \in Tracked, c \in Contents \cup {0} :
       /\ c # work[f] /\ work' = [work EXCEPT ![f] = c]
       /\ \/ committing = "idle" /\ changed' = changed \cup {f} /\ UNCHANGED foreign
          \/ foreign' = TRUE /\ UNCHANGED changed
  /\ answer_of' = "none"
  /\ UNCHANGED <<head, index, committing, asked, names, base, paired, called>>

(* git add --: refused when a path is neither in the work tree nor the      *)
(* index; git add -u: what the index knows.                                 *)
Staged(paths) == [f \in Tracked |-> IF f \in paths THEN work[f] ELSE index[f]]
Unmatched(paths) == \E f \in paths : work[f] = 0 /\ index[f] = 0

UserStages ==
  /\ written < MaxWrites /\ written' = written + 1
  /\ \E f \in Tracked : index' = Staged({f}) /\ index' # index
  /\ foreign' = TRUE /\ answer_of' = "none"
  /\ UNCHANGED <<head, work, changed, committing, asked, names, base, paired, called>>

Refuse == committing' = "idle" /\ answer_of' = "refused"

_changed_names ==
  IF changed # {} THEN changed
  ELSE {f \in Tracked : \/ work[f] # 0 /\ work[f] # index[f]
                        \/ index[f] # 0 /\ index[f] # head[f]}

(* commit, up to the staging. *)
commit ==
  /\ committing = "idle" /\ called < MaxToolCalls /\ called' = called + 1
  /\ names' = {} /\ base' = head /\ foreign' = (index # head) /\ paired' = FALSE
  /\ \/ \E paths \in (SUBSET Tracked \ {{}}) \cup {_changed_names} :
          /\ asked' = paths
          /\ IF paths = {} \/ Unmatched(paths) THEN Refuse /\ UNCHANGED index
             ELSE /\ index' = Staged(paths) /\ committing' = "added" /\ answer_of' = "none"
     \/ (* all *)
        /\ asked' = {f \in Tracked : index[f] # 0}
        /\ index' = Staged(asked') /\ committing' = "added" /\ answer_of' = "none"
  /\ UNCHANGED <<head, work, changed, written>>

(* git diff --cached --name-only: a deletion whose content was added under  *)
(* another name is a renaming, and only the new name is printed.            *)
Renamed ==
  {f \in Tracked : index[f] = 0 /\ head[f] # 0
     /\ \E g \in Tracked : head[g] = 0 /\ index[g] = head[f]}
Cached == {f \in Tracked : index[f] # head[f]} \ Renamed

diff_cached ==
  /\ committing = "added"
  /\ names' = Cached /\ paired' = (Renamed # {})
  /\ IF Cached = {} THEN Refuse ELSE committing' = "listed" /\ UNCHANGED answer_of
  /\ UNCHANGED <<Trees, changed, asked, base, foreign, written, called>>

(* git commit -- names takes those files from the work tree. *)
git_commit ==
  /\ committing = "listed"
  /\ \/ /\ \E f \in names : work[f] # head[f]
        /\ head' = [f \in Tracked |-> IF f \in names THEN work[f] ELSE head[f]]
        /\ index' = Staged(names)
        /\ committing' = "idle" /\ answer_of' = "committed"
     \/ (* nothing to commit, a hook, no identity *) Refuse /\ UNCHANGED <<head, index>>
  /\ UNCHANGED <<work, changed, asked, names, base, paired, foreign, written, called>>

(* check: a default path that is gone refuses the whole call; formatters    *)
(* and fixers may rewrite the files, which are then changed files.          *)
check ==
  /\ committing = "idle" /\ called < MaxToolCalls /\ called' = called + 1
  /\ \E paths \in (SUBSET Tracked \ {{}}) \cup {_changed_names} :
       IF paths = {} \/ \E f \in paths : work[f] = 0
       THEN answer_of' = "refused" /\ UNCHANGED <<work, changed>>
       ELSE \/ answer_of' = "checked" /\ UNCHANGED <<work, changed>>
            \/ /\ \E f \in paths, c \in Contents : work' = [work EXCEPT ![f] = c]
               /\ changed' = changed \cup paths /\ answer_of' = "checked"
  /\ UNCHANGED <<head, index, committing, asked, names, base, paired, foreign, written>>

GitNext == Edit \/ UserStages \/ commit \/ diff_cached \/ git_commit \/ check
GitSpec == GitInit /\ [][GitNext]_gitVars

(* Unless other changes were staged before, the user wrote meanwhile or git *)
(* saw a renaming: what commit reports is what it committed, all of it was  *)
(* asked for, and all that was asked for is in the head as in the tree.     *)
CommitTells ==
  answer_of = "committed" /\ ~foreign /\ ~paired =>
    /\ {f \in Tracked : head[f] # base[f]} = names /\ names \subseteq asked
    /\ \A f \in asked : head[f] = work[f]
=============================================================================
