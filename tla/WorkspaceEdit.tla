---------------------------- MODULE WorkspaceEdit ----------------------------
(***************************************************************************)
(* The navigate tool (mjj/tools/navigate.py): a query is answered by the   *)
(* language server or from the search index; a rename, format or code      *)
(* action is planned on the files, approved, compared with the files once  *)
(* more, checkpointed, committed file by file and recorded.  The user      *)
(* writes at any time.  A content is a version and whether it is edited.   *)
(***************************************************************************)
EXTENDS Integers, FiniteSets

CONSTANTS
  Sources,       \* files of the workspace
  MaxAsked,      \* bound: calls of the tool
  MaxUser        \* bound: writes of the user

VARIABLES
  nav,           \* idle, asked, planned, approved, snapped, commit, finish
  texts,         \* contents of the files
  targets,       \* files the answer edits
  originals,     \* their contents when the edits were planned
  snapshots,     \* and when they were read again
  left,          \* files still to be replaced
  pending,       \* a checkpoint is open
  verdict,       \* edited, refused, server, index
  noted,         \* ctx.state["changed-files"]
  meddled,       \* files the user wrote since the snapshots
  unrestored,    \* files that were replaced and could not be written back
  wanted_edits, user_writes

navVars == <<nav, texts, targets, originals, snapshots, left, pending, verdict,
             noted, meddled, unrestored, wanted_edits, user_writes>>

NavInit ==
  /\ nav = "idle" /\ texts = [f \in Sources |-> [version |-> 0, edited |-> 0]]
  /\ targets = {} /\ originals = texts /\ snapshots = texts /\ left = {}
  /\ pending = FALSE /\ verdict = "none" /\ noted = {} /\ meddled = {}
  /\ unrestored = {}
  /\ wanted_edits = 0 /\ user_writes = 0

WithEdit(content) == [content EXCEPT !.edited = @ + 1]

Goto(from, to) == nav = from /\ nav' = to
Result(v) == nav' = "idle" /\ verdict' = v
Ghosts == <<noted, unrestored, wanted_edits, user_writes>>
Later == <<originals, snapshots, left, pending, Ghosts, meddled>>

(* run: arguments are checked, then the server is asked.  Without one, or   *)
(* when it fails, a query may still be answered from the index; an edit,    *)
(* outgoing calls and diagnostics may not.                                  *)
run ==
  /\ nav = "idle" /\ wanted_edits < MaxAsked /\ wanted_edits' = wanted_edits + 1
  /\ targets' = {} /\ meddled' = {} /\ unrestored' = {}
  /\ \/ nav' = "asked" /\ verdict' = "none"
     \/ \E v \in {"server", "index", "refused"} : Result(v)
  /\ UNCHANGED <<texts, originals, snapshots, left, pending, noted, user_writes>>

(* _plan_workspace_edit: the edits of an answer, checked and applied to the *)
(* files as they are; a bad edit or a syntax error rejects all of them.     *)
_plan_workspace_edit ==
  /\ nav = "asked"
  /\ \/ \E files \in SUBSET Sources \ {{}} :
          targets' = files /\ originals' = texts /\ nav' = "planned" /\ UNCHANGED verdict
     \/ (* none, or rejected *) Result("refused") /\ UNCHANGED <<targets, originals>>
  /\ UNCHANGED <<texts, snapshots, left, pending, Ghosts, meddled>>

approve ==
  /\ nav = "planned"
  /\ \/ nav' = "approved" /\ UNCHANGED verdict
     \/ (* denied, or it raised *) Result("refused")
  /\ UNCHANGED <<texts, targets, Later>>

(* Mutant: the files are not compared with the plan. *)
SnapshotOnly ==
  /\ nav = "approved" /\ snapshots' = texts /\ meddled' = {}
  /\ nav' = "snapped"
  /\ UNCHANGED <<texts, targets, originals, left, pending, verdict, Ghosts>>

_snapshot ==
  /\ nav = "approved" /\ snapshots' = texts /\ meddled' = {}
  /\ IF \E f \in targets : texts[f] # originals[f] THEN Result("refused")
     ELSE nav' = "snapped" /\ UNCHANGED verdict
  /\ UNCHANGED <<texts, targets, originals, left, pending, Ghosts>>

(* A checkpoint that cannot be begun is reported, the edit goes on. *)
begin ==
  /\ Goto("snapped", "commit") /\ pending' \in BOOLEAN /\ left' = targets
  /\ UNCHANGED <<texts, targets, originals, snapshots, verdict, Ghosts, meddled>>

(* _commit: the new contents are staged beside the files, then replaced one *)
(* by one; when one fails the snapshots are written back.                   *)
Replace(f) ==
  /\ nav = "commit" /\ f \in left /\ left' = left \ {f}
  /\ texts' = [texts EXCEPT ![f] = WithEdit(originals[f])]
  /\ nav' = (IF left' = {} THEN "finish" ELSE nav)
  /\ UNCHANGED <<targets, originals, snapshots, pending, verdict, Ghosts, meddled>>

(* A file that cannot be written back is passed over, and the result does   *)
(* not tell.  Nothing is written back when the staging failed.              *)
_restore ==
  /\ nav = "commit" /\ left # {}
  /\ \/ left = targets /\ UNCHANGED <<texts, unrestored>>
     \/ \E lost \in SUBSET targets :
          /\ texts' = [f \in Sources |->
               IF f \in targets \ lost THEN snapshots[f] ELSE texts[f]]
          /\ unrestored' = lost \ left
  /\ pending' = FALSE /\ left' = {} /\ Result("refused")
  /\ UNCHANGED <<targets, originals, snapshots, noted, meddled, wanted_edits, user_writes>>

(* The checkpoint is completed, or cancelled when that fails. *)
finish ==
  /\ nav = "finish" /\ pending' = FALSE /\ noted' = noted \cup targets
  /\ Result("edited")
  /\ UNCHANGED <<texts, targets, originals, snapshots, left, meddled, unrestored,
                 wanted_edits, user_writes>>

UserWrites ==
  /\ user_writes < MaxUser /\ user_writes' = user_writes + 1
  /\ \E f \in Sources :
       /\ texts' = [texts EXCEPT ![f] = [version |-> user_writes', edited |-> 0]]
       /\ meddled' = meddled \cup {f}
  /\ UNCHANGED <<nav, targets, originals, snapshots, left, pending, verdict, noted,
                 unrestored, wanted_edits>>

NavNext ==
  \/ run \/ _plan_workspace_edit \/ approve \/ _snapshot \/ begin
  \/ (\E f \in Sources : Replace(f)) \/ _restore \/ finish \/ UserWrites

NavSpec == NavInit /\ [][NavNext]_navVars

(* A workspace edit reaches all of its files or none: reported as done, each *)
(* holds the edit of exactly what was planned on and is a changed file;      *)
(* refused, each holds no more edits than it held, but for a file that was  *)
(* replaced and could not be written back, which holds the whole edit       *)
(* (_restore passes over it); a checkpoint never stays open.  Files the     *)
(* user wrote after they were read again are excepted.                      *)
WholeOrNothing ==
  nav = "idle" =>
    /\ ~pending
    /\ verdict = "edited" =>
         targets \subseteq noted /\ \A f \in targets \ meddled : texts[f] = WithEdit(snapshots[f])
    /\ verdict = "refused" =>
         \A f \in targets \ meddled :
           \/ texts[f].edited <= originals[f].edited
           \/ f \in unrestored /\ texts[f] = WithEdit(snapshots[f])
=============================================================================
