------------------------------ MODULE PatchUndo ------------------------------
(***************************************************************************)
(* apply_patch and its checkpoints (mjj/tools/patch.py: _plan_and_commit,  *)
(* _commit, _restore; mjj/checkpoints.py: CheckpointStore; mjj/hygiene.py: *)
(* run_mutators).                                                          *)
(*                                                                         *)
(* One agent process patches, formats and undoes, one call at a time.  The *)
(* user edits the same files at any moment, any file operation may fail,   *)
(* and the process may die between two of them.  A value stands for the    *)
(* bytes and the mode of a file.  The manifest of a checkpoint is replaced *)
(* atomically, and the directories are kept in the order of their mtime.   *)
(***************************************************************************)
EXTENDS Integers, Sequences, FiniteSets, Functions, SequencesExt

CONSTANTS
  Files, Contents,
  Absent,           \* the value of a file that does not exist
  MAX_CHECKPOINTS,  \* retention by count (50 in the code)
  MaxCalls,         \* bound: patches and formatter runs
  MaxEdits,         \* bound: edits by the user
  MaxFaults,        \* bound: file operations that fail
  MaxCrashes        \* bound: process deaths in a call

Values == Contents \cup {Absent}

ASSUME PatchAssumption ==
  /\ IsFiniteSet(Files) /\ IsFiniteSet(Contents) /\ Absent \notin Contents
  /\ MAX_CHECKPOINTS \in Nat \ {0}
  /\ {MaxCalls, MaxEdits, MaxFaults, MaxCrashes} \subseteq Nat

VARIABLES
  files,      \* the workspace
  store,      \* checkpoint directories, the least recently changed first
  pc,         \* where the call stands
  plan,       \* plans: new value per planned file
  snap,       \* snapshots (a patch), captures (an undo)
  todo,       \* files the current loop has not reached
  pending     \* id of the checkpoint being made or undone, 0 for none

\* History and bounds.
VARIABLES
  nextId, edits, faults, crashes,
  origin,     \* the workspace at the start
  tainted,    \* files with a change that no undoable checkpoint records
  dirty,      \* files the user edited since the current call began
  author      \* whether the user or the agent wrote the current value

locals == <<pc, plan, snap, todo, pending>>
bounds == <<nextId, edits, faults, crashes>>
history == <<origin, tainted, dirty, author>>
vars == <<files, store, locals, bounds, history>>

Nothing == [f \in {} |-> Absent]

Touched == DOMAIN plan

Live(c) == c.complete /\ ~c.undone

\* The entry of the store with the pending id.
Pending == CHOOSE c \in Range(store) : c.id = pending

Without(id) == RemoveFirstMatch(store, LAMBDA c : c.id = id)

\* Writing its manifest makes a directory the most recently changed one.
Bumped(c) == Append(Without(c.id), c)

\* Mutant: nothing is ever removed.
RetainAll(s) == s

\* cleanup: all but the MAX_CHECKPOINTS most recently changed are removed.
cleanup(s) ==
  IF Len(s) <= MAX_CHECKPOINTS THEN s
  ELSE SubSeq(s, Len(s) - MAX_CHECKPOINTS + 1, Len(s))

\* Files whose last way back goes with the checkpoints that s has no more.
Forgotten(s) ==
  UNION {DOMAIN c.before : c \in {d \in Range(store) : Live(d) /\
                                     \A e \in Range(s) : e.id # d.id}}

Init ==
  /\ files \in [Files -> Values] /\ origin = files
  /\ store = <<>> /\ pc = "idle" /\ plan = Nothing /\ snap = Nothing
  /\ todo = {} /\ pending = 0
  /\ nextId = 1 /\ edits = 0 /\ faults = 0 /\ crashes = 0
  /\ tainted = {} /\ dirty = {} /\ author = [f \in Files |-> "user"]

Write(f, v) ==
  /\ files' = [files EXCEPT ![f] = v]
  /\ author' = [author EXCEPT ![f] = "agent"]

EndCall ==
  /\ pc' = "idle" /\ plan' = Nothing /\ snap' = Nothing /\ todo' = {}
  /\ pending' = 0 /\ dirty' = {}

Fault == faults < MaxFaults /\ faults' = faults + 1

-----------------------------------------------------------------------------
(* apply_patch. *)

\* One operation: the file is snapshot the first time, its value planned.
PlanOperation ==
  /\ \/ pc = "idle" /\ nextId <= MaxCalls
     \/ pc = "planning"
  /\ \E f \in Files \ Touched, v \in Values :
       /\ plan' = [g \in Touched \cup {f} |-> IF g = f THEN v ELSE plan[g]]
       /\ snap' = [g \in Touched \cup {f} |-> IF g = f THEN files[f] ELSE snap[g]]
  /\ pc' = "planning"
  /\ UNCHANGED <<files, store, todo, pending, bounds, history>>

\* A missing or existing file, a hunk or a syntax check rejects the patch.
Reject ==
  /\ pc = "planning"
  /\ EndCall
  /\ UNCHANGED <<files, store, bounds, origin, tainted, author>>

Entry(S) ==
  [id |-> nextId, before |-> Restrict(files, S), after |-> Nothing,
   complete |-> FALSE, undone |-> FALSE]

\* begin: the values of this moment and an incomplete manifest, or no
\* checkpoint at all (too large, or the store cannot be written).
Begin ==
  /\ pc = "planning"
  /\ \/ /\ pending' = nextId
        /\ store' = Append(store, Entry(Touched))
     \/ UNCHANGED <<pending, store>>
  /\ nextId' = nextId + 1
  /\ pc' = "committing" /\ todo' = Touched
  /\ UNCHANGED <<files, plan, snap, edits, faults, crashes, history>>

\* _commit: a temporary file cannot be staged, nothing is replaced.
StageFails ==
  /\ pc = "committing" /\ todo = Touched /\ Fault
  /\ store' = Without(pending)
  /\ EndCall
  /\ UNCHANGED <<files, nextId, edits, crashes, origin, tainted, author>>

\* _commit: the next file is replaced or unlinked.
Replace(f) ==
  /\ pc = "committing" /\ f \in todo
  /\ ~(plan[f] = Absent /\ files[f] = Absent)
  /\ Write(f, plan[f])
  /\ todo' = todo \ {f}
  /\ UNCHANGED <<store, pc, plan, snap, pending, bounds, origin, tainted, dirty>>

\* Mutant: the files that were replaced already are not restored.
RestoreRest(f) ==
  /\ pc = "committing" /\ f \in todo
  /\ \/ plan[f] = Absent /\ files[f] = Absent /\ UNCHANGED faults
     \/ Fault
  /\ pc' = "restoring"
  /\ UNCHANGED <<files, store, plan, snap, todo, pending, nextId, edits, crashes, history>>

\* ... or raises: the file to delete is missing, or the operation fails.
ReplaceRaises(f) ==
  /\ pc = "committing" /\ f \in todo
  /\ \/ plan[f] = Absent /\ files[f] = Absent /\ UNCHANGED faults
     \/ Fault
  /\ pc' = "restoring" /\ todo' = Touched
  /\ UNCHANGED <<files, store, plan, snap, pending, nextId, edits, crashes, history>>

\* _restore (and _restore_captures): every snapshot, best effort.
RestoreFile(f) ==
  /\ pc \in {"restoring", "recapturing"} /\ f \in todo
  /\ \/ Write(f, snap[f]) /\ UNCHANGED <<faults, tainted>>
     \/ Fault /\ tainted' = tainted \cup {f} /\ UNCHANGED <<files, author>>
  /\ todo' = todo \ {f}
  /\ UNCHANGED <<store, pc, plan, snap, pending, nextId, edits, crashes, origin, dirty>>

\* The patch fails; its checkpoint, if any, is cancelled.
CommitFailed ==
  /\ pc = "restoring" /\ todo = {}
  /\ store' = Without(pending)
  /\ EndCall
  /\ UNCHANGED <<files, bounds, origin, tainted, author>>

\* finish with the planned values; then cleanup.
Finish ==
  /\ pc = "committing" /\ todo = {} /\ pending # 0
  /\ store' = cleanup(Bumped([Pending EXCEPT !.after = plan, !.complete = TRUE]))
  /\ tainted' = tainted \cup Forgotten(store')
  /\ EndCall
  /\ UNCHANGED <<files, bounds, origin, author>>

\* No checkpoint was begun, or it cannot be finished: the patch stands alone.
FinishWithout ==
  /\ pc = "committing" /\ todo = {}
  /\ IF pending = 0 THEN UNCHANGED faults ELSE Fault
  /\ store' = Without(pending)
  /\ tainted' = tainted \cup Touched
  /\ EndCall
  /\ UNCHANGED <<files, nextId, edits, crashes, origin, author>>

-----------------------------------------------------------------------------
(* run_mutators: formatters rewrite files under a checkpoint of its own.    *)

BeginFormat ==
  /\ pc = "idle" /\ nextId <= MaxCalls
  /\ \E S \in SUBSET {f \in Files : files[f] # Absent} \ {{}} :
       /\ store' = Append(store, Entry(S)) /\ todo' = S
  /\ pending' = nextId /\ nextId' = nextId + 1
  /\ pc' = "formatting"
  /\ UNCHANGED <<files, plan, snap, edits, faults, crashes, history>>

FormatFile(f) ==
  /\ pc = "formatting" /\ f \in todo
  /\ \E v \in Contents : Write(f, v)
  /\ todo' = todo \ {f}
  /\ UNCHANGED <<store, pc, plan, snap, pending, bounds, origin, tainted, dirty>>

\* finish with the values of this moment; a formatter that failed is undone.
FinishFormat ==
  /\ pc = "formatting"
  /\ LET c == [Pending EXCEPT
                  !.after = Restrict(files, DOMAIN Pending.before),
                  !.complete = TRUE]
     IN  /\ store' = cleanup(Bumped(c))
         /\ \/ EndCall
            \/ /\ pc' = "checking" /\ todo' = DOMAIN c.before
               /\ UNCHANGED <<plan, snap, pending, dirty>>
  /\ tainted' = tainted \cup Forgotten(store')
  /\ UNCHANGED <<files, bounds, origin, author>>

\* finish raises: the incomplete checkpoint stays behind.
FinishFormatRaises ==
  /\ pc = "formatting" /\ Fault
  /\ tainted' = tainted \cup DOMAIN Pending.before
  /\ EndCall
  /\ UNCHANGED <<files, store, nextId, edits, crashes, origin, author>>

-----------------------------------------------------------------------------
(* undo. *)

\* The latest live checkpoint, or the one that is named.
Undo ==
  /\ pc = "idle"
  /\ \E c \in {d \in Range(store) : Live(d)} :
       pending' = c.id /\ todo' = DOMAIN c.before
  /\ pc' = "checking"
  /\ UNCHANGED <<files, store, plan, snap, bounds, history>>

\* Mutant: the current value is not compared with the one after the patch.
CheckNothing(f) ==
  /\ pc = "checking" /\ f \in todo
  /\ todo' = todo \ {f}
  /\ UNCHANGED <<files, store, pc, plan, snap, pending, bounds, history>>

\* Every file must still have the value that the checkpoint expects.
CheckFile(f) ==
  /\ pc = "checking" /\ f \in todo
  /\ files[f] = Pending.after[f]
  /\ todo' = todo \ {f}
  /\ UNCHANGED <<files, store, pc, plan, snap, pending, bounds, history>>

Conflict ==
  /\ pc = "checking"
  /\ \E f \in todo : files[f] # Pending.after[f]
  /\ EndCall
  /\ UNCHANGED <<files, store, bounds, origin, tainted, author>>

Capture ==
  /\ pc = "checking" /\ todo = {}
  /\ plan' = Pending.before /\ snap' = Restrict(files, DOMAIN plan')
  /\ todo' = DOMAIN plan' /\ pc' = "undoing"
  /\ UNCHANGED <<files, store, pending, bounds, history>>

UndoFile(f) ==
  /\ pc = "undoing" /\ f \in todo
  /\ Write(f, plan[f])
  /\ todo' = todo \ {f}
  /\ UNCHANGED <<store, pc, plan, snap, pending, bounds, origin, tainted, dirty>>

UndoRaises ==
  /\ pc = "undoing" /\ todo # {} /\ Fault
  /\ pc' = "recapturing" /\ todo' = Touched
  /\ UNCHANGED <<files, store, plan, snap, pending, nextId, edits, crashes, history>>

\* Mutant: the mark is written whether or not the files were restored.
UndoFailedMarks ==
  /\ pc = "recapturing" /\ todo = {}
  /\ store' = Bumped([Pending EXCEPT !.undone = TRUE])
  /\ EndCall
  /\ UNCHANGED <<files, bounds, origin, tainted, author>>

\* The captures are back and the checkpoint stays live.
UndoFailed ==
  /\ pc = "recapturing" /\ todo = {}
  /\ EndCall
  /\ UNCHANGED <<files, store, bounds, origin, tainted, author>>

\* The manifest is marked; if that fails the files are restored all the same.
MarkUndone ==
  /\ pc = "undoing" /\ todo = {}
  /\ \/ /\ store' = Bumped([Pending EXCEPT !.undone = TRUE])
        /\ UNCHANGED <<faults, tainted>>
     \/ /\ Fault /\ tainted' = tainted \cup Touched
        /\ UNCHANGED store
  /\ EndCall
  /\ UNCHANGED <<files, nextId, edits, crashes, origin, author>>

-----------------------------------------------------------------------------
(* The user, and the end of the process. *)

Edit(f) ==
  /\ edits < MaxEdits /\ edits' = edits + 1
  /\ \E v \in Values \ {files[f]} : files' = [files EXCEPT ![f] = v]
  /\ author' = [author EXCEPT ![f] = "user"]
  /\ tainted' = tainted \cup {f}
  /\ dirty' = IF pc = "idle" THEN dirty ELSE dirty \cup {f}
  /\ UNCHANGED <<store, locals, nextId, faults, crashes, origin>>

\* The process dies in a call; the next one opens the store with a cleanup.
Crash ==
  /\ pc # "idle" /\ crashes < MaxCrashes /\ crashes' = crashes + 1
  /\ store' = cleanup(store)
  /\ tainted' = tainted \cup Touched \cup Forgotten(store')
                  \cup IF pc = "formatting" THEN DOMAIN Pending.before ELSE {}
  /\ EndCall
  /\ UNCHANGED <<files, nextId, edits, faults, origin, author>>

Next ==
  \/ PlanOperation \/ Reject \/ Begin \/ StageFails \/ CommitFailed
  \/ Finish \/ FinishWithout \/ BeginFormat \/ FinishFormat \/ FinishFormatRaises
  \/ Undo \/ Conflict \/ Capture \/ UndoRaises \/ UndoFailed \/ MarkUndone
  \/ \E f \in Files :
       \/ Replace(f) \/ ReplaceRaises(f) \/ RestoreFile(f) \/ FormatFile(f)
       \/ CheckFile(f) \/ UndoFile(f) \/ Edit(f)
  \/ Crash

Spec == Init /\ [][Next]_vars

-----------------------------------------------------------------------------
(* Properties. *)

IsPartial(p) == DOMAIN p \subseteq Files /\ p \in [DOMAIN p -> Values]

(* Types; docs/tools.md: "retain at most 50 checkpoints" (incomplete ones  *)
(* of a crash or a fault apart), and incomplete ones are never undone.     *)
TypeOK ==
  /\ files \in [Files -> Values] /\ origin \in [Files -> Values]
  /\ \A c \in Range(store) :
       /\ c.id \in 1..(nextId - 1) /\ c.undone => c.complete
       /\ IsPartial(c.before) /\ IsPartial(c.after)
       /\ c.complete => DOMAIN c.after = DOMAIN c.before
  /\ Len(store) <= MAX_CHECKPOINTS + 1 + faults
  /\ Cardinality({c \in Range(store) : c.complete}) <= MAX_CHECKPOINTS
  /\ pc \in {"idle", "planning", "committing", "restoring", "formatting",
             "checking", "undoing", "recapturing"}
  /\ IsPartial(plan) /\ IsPartial(snap) /\ DOMAIN snap = Touched /\ todo \subseteq Files
  /\ pending \in 0..(nextId - 1)
  /\ tainted \subseteq Files /\ dirty \subseteq Files
  /\ author \in [Files -> {"user", "agent"}]

(* docs/tools.md: contents are "replaced only after every file and hunk    *)
(* validates"; tests/test_patch.py, test_delete_failure_is_atomic_with_add.*)
(* A patch that fails while replacing files leaves each of them as it was  *)
(* and leaves no checkpoint.  Excepted are a crash before the end, files   *)
(* the user edited meanwhile, and files with a change, of this call or an  *)
(* earlier one, that no checkpoint records: one that could not be restored *)
(* is among them.                                                          *)
PatchAtomic ==
  [][pc = "restoring" /\ pc' = "idle" /\ crashes' = crashes =>
       /\ \A f \in Touched \ (dirty \cup tainted) : files[f] = snap[f]
       /\ \A c \in Range(store') : c.id # pending]_vars

(* Undoing checkpoints in whatever order the conflict check admits, by id  *)
(* or the latest first, across failed, conflicting and interrupted calls:  *)
(* once no live checkpoint records a change of a file, the file is what it *)
(* was at the start, unless some change of it was never recorded.          *)
UndoAllRestores ==
  pc = "idle" =>
    \A f \in Files \ tainted :
      (\A c \in Range(store) : Live(c) => f \notin DOMAIN c.before)
        => files[f] = origin[f]

(* docs/tools.md: "later user changes cause a safe conflict instead of     *)
(* being overwritten".  When a step of the agent replaces what the user    *)
(* wrote, the user wrote it during that call (which nothing verifies), or  *)
(* the value is kept in the checkpoint being made, or it equals what the   *)
(* checkpoint being undone expects; only a patch that could not begin a    *)
(* checkpoint does otherwise.                                              *)
UserContentKept ==
  [][\A f \in Files :
       files'[f] # files[f] /\ author[f] = "user" /\ author'[f] = "agent" =>
         \/ f \in dirty
         \/ pc \in {"committing", "formatting"} /\ pending = 0
         \/ pc \in {"committing", "formatting"} /\ Pending.before[f] = files[f]
         \/ pc = "undoing" /\ Pending.after[f] = files[f]]_vars

(* docs/tools.md: "Undo first verifies the post-patch content and mode of  *)
(* every file, so later user changes cause a safe conflict instead of being*)
(* overwritten".  No file passes the verification with a value that the    *)
(* user wrote after the checkpoint was begun.                              *)
UserEditConflicts ==
  [][\A f \in todo \ todo' :
       pc = "checking" /\ pc' = "checking" =>
         author[f] = "agent" \/ files[f] = Pending.before[f]]_vars
=============================================================================
