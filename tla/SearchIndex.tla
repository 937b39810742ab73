---------------------------- MODULE SearchIndex ----------------------------
(***************************************************************************)
(* The incremental code index (mjj/search/index.py, build_index) that      *)
(* every search brings up to date first.  Two processes keep one index     *)
(* file: each has a copy in memory, compares the identities of the files   *)
(* it discovers with those of the copy, reads only what changed, and       *)
(* replaces the file.  Meanwhile the user edits.                           *)
(***************************************************************************)
EXTENDS Integers, FiniteSets

CONSTANTS Builder,   \* the processes that search the repository
          Path,      \* its files
          Texts,     \* what a file can hold: "blank", "binary" or text with chunks
          MaxEdits,  \* changes by the user
          MaxBuilds  \* builds in a run

VARIABLES disk,     \* [Path -> [text, stamp]]: what a file holds and its mtime and size
          saved,    \* the index file, or NoIndex
          existing, \* [Builder -> the index in memory, or NoIndex]
          stage,    \* [Builder -> where build_index stands]
          todo,     \* [Builder -> the paths still to stat or to read]
          current_files, \* [Builder -> [Path -> stamp]] as discovered
          rows,     \* [Builder -> [Path -> text]] collected so far
          since,    \* [Builder -> an edit since the build started]
          unread,   \* the versions <<path, stamp>> whose read failed
          edits, builds

indexVars == <<disk, saved, existing, stage, todo, current_files, rows, since,
               unread, edits, builds>>

Absent == 0
None == "no rows"
NoIndex == [by |-> "nobody"]

(* A file of blank lines and a binary file have no chunks. *)
_make_chunks(text) == IF text \in {"blank", "binary"} THEN None ELSE text

IndexInit ==
  /\ disk = [f \in Path |-> [text |-> "code", stamp |-> 1]]
  /\ saved = NoIndex
  /\ existing = [b \in Builder |-> NoIndex]
  /\ stage = [b \in Builder |-> "idle"]
  /\ todo = [b \in Builder |-> {}]
  /\ current_files = [b \in Builder |-> [f \in Path |-> Absent]]
  /\ rows = [b \in Builder |-> [f \in Path |-> None]]
  /\ since = [b \in Builder |-> FALSE]
  /\ unread = {} /\ edits = 0 /\ builds = 0

At(b, here) == stage[b] = here
Goto(b, there) == stage' = [stage EXCEPT ![b] = there]

(* The user saves, creates or deletes a file; every version has its own identity. *)
EditFile ==
  /\ edits < MaxEdits
  /\ edits' = edits + 1
  /\ \E f \in Path, text \in Texts, gone \in BOOLEAN :
       disk' = [disk EXCEPT ![f] = IF gone THEN [text |-> "blank", stamp |-> Absent]
                                   ELSE [text |-> text, stamp |-> edits + 2]]
  /\ since' = [b \in Builder |-> stage[b] # "idle"]
  /\ UNCHANGED <<saved, existing, stage, todo, current_files, rows, unread, builds>>

(* A build starts from the copy in memory, or opens the file; a file that  *)
(* does not validate counts as none (RepositoryIndex.open).                *)
build_index(b) ==
  /\ At(b, "idle") /\ builds < MaxBuilds
  /\ builds' = builds + 1
  /\ existing' = [existing EXCEPT ![b] = IF @ = NoIndex THEN saved ELSE @]
  /\ todo' = [todo EXCEPT ![b] = Path]
  /\ Goto(b, "discover")
  /\ UNCHANGED <<disk, saved, current_files, rows, since, unread, edits>>

_discover_files(b) ==
  /\ At(b, "discover")
  /\ \E f \in todo[b] :
       /\ todo' = [todo EXCEPT ![b] = @ \ {f}]
       /\ current_files' = [current_files EXCEPT ![b][f] = disk[f].stamp]
  /\ UNCHANGED <<disk, saved, existing, stage, rows, since, unread, edits, builds>>

Discovered(b) == {f \in Path : current_files[b][f] # Absent}

UpToDate(b) == existing[b] # NoIndex /\ existing[b].files = current_files[b]

Unchanged(b) ==
  /\ At(b, "discover") /\ todo[b] = {} /\ UpToDate(b)
  /\ Goto(b, "ready")
  /\ UNCHANGED <<disk, saved, existing, todo, current_files, rows, since, unread,
                 edits, builds>>

Changed(b) ==
  /\ At(b, "discover") /\ todo[b] = {} /\ ~UpToDate(b)
  /\ todo' = [todo EXCEPT ![b] = Discovered(b)]
  /\ Goto(b, "read")
  /\ UNCHANGED <<disk, saved, existing, current_files, rows, since, unread, edits, builds>>

(* Mutant: rows are reused by the name of a file. *)
ReusableByName(b, f) == existing[b] # NoIndex /\ existing[b].rows[f] # None

(* The rows of a file whose identity the copy already had. *)
Reusable(b, f) == /\ existing[b] # NoIndex
                  /\ existing[b].files[f] = current_files[b][f]
                  /\ existing[b].rows[f] # None

Reuse(b) ==
  /\ At(b, "read")
  /\ \E f \in todo[b] :
       /\ Reusable(b, f)
       /\ rows' = [rows EXCEPT ![b][f] = existing[b].rows[f]]
       /\ todo' = [todo EXCEPT ![b] = @ \ {f}]
  /\ UNCHANGED <<disk, saved, existing, stage, current_files, since, unread, edits, builds>>

(* A file is read now, whatever happened since it was discovered. *)
ReadFile(b) ==
  /\ At(b, "read")
  /\ \E f \in todo[b] :
       /\ ~Reusable(b, f)
       /\ disk[f].stamp # Absent
       /\ rows' = [rows EXCEPT ![b][f] = _make_chunks(disk[f].text)]
       /\ todo' = [todo EXCEPT ![b] = @ \ {f}]
  /\ UNCHANGED <<disk, saved, existing, stage, current_files, since, unread, edits, builds>>

(* Gone or unreadable: the file stays in the list without rows. *)
ReadFails(b) ==
  /\ At(b, "read")
  /\ \E f \in todo[b] :
       /\ ~Reusable(b, f)
       /\ todo' = [todo EXCEPT ![b] = @ \ {f}]
       /\ unread' = unread \cup {<<f, current_files[b][f]>>}
  /\ UNCHANGED <<disk, saved, existing, stage, current_files, rows, since, edits, builds>>

(* The new index is written beside the old one, synced, and replaces it. *)
_write_index(b) ==
  /\ At(b, "read") /\ todo[b] = {}
  /\ saved' = [by |-> b, files |-> current_files[b], rows |-> rows[b]]
  /\ Goto(b, "open")
  /\ UNCHANGED <<disk, existing, todo, current_files, rows, since, unread, edits, builds>>

(* What is returned is read back from the file: it may be another's. *)
Reopen(b) ==
  /\ At(b, "open")
  /\ existing' = [existing EXCEPT ![b] = saved]
  /\ Goto(b, "ready")
  /\ UNCHANGED <<disk, saved, todo, current_files, rows, since, unread, edits, builds>>

Forget(b) == /\ todo' = [todo EXCEPT ![b] = {}]
             /\ current_files' = [current_files EXCEPT ![b] = [f \in Path |-> Absent]]
             /\ rows' = [rows EXCEPT ![b] = [f \in Path |-> None]]
             /\ since' = [since EXCEPT ![b] = FALSE]
             /\ Goto(b, "idle")

(* A search has been answered, or the build raised and the cached copy stays. *)
Answered(b) == /\ stage[b] \in {"ready", "read"}
               /\ Forget(b)
               /\ UNCHANGED <<disk, saved, existing, unread, edits, builds>>

(* The process ends at any point and another takes its place. *)
Restart(b) == /\ stage[b] # "idle"
              /\ existing' = [existing EXCEPT ![b] = NoIndex]
              /\ Forget(b)
              /\ UNCHANGED <<disk, saved, unread, edits, builds>>

IndexNext == \/ EditFile
             \/ \E b \in Builder :
                  \/ build_index(b) \/ _discover_files(b) \/ Unchanged(b) \/ Changed(b)
                  \/ Reuse(b) \/ ReadFile(b) \/ ReadFails(b) \/ _write_index(b)
                  \/ Reopen(b) \/ Answered(b) \/ Restart(b)

IndexSpec == IndexInit /\ [][IndexNext]_indexVars

----------------------------------------------------------------------------
Honest(index) ==
  \A f \in Path :
    index.files[f] = disk[f].stamp /\ disk[f].stamp # Absent
      => \/ index.rows[f] = _make_chunks(disk[f].text)
         \/ <<f, disk[f].stamp>> \in unread

(* An index that gives a file its present identity has the rows of its     *)
(* present text, in memory and on disk, whoever built it and whatever was  *)
(* edited meanwhile: the identity is taken before the text, so an edit in  *)
(* between is found by the next build.  And a search that follows a build  *)
(* of its own sees every file as it was when the build began or later,     *)
(* unless the build read back an index that another process wrote.         *)
IndexFresh ==
  /\ saved # NoIndex => Honest(saved)
  /\ \A b \in Builder :
       /\ existing[b] # NoIndex => Honest(existing[b])
       /\ stage[b] = "ready" /\ ~since[b] /\ existing[b].by = b
            => existing[b].files = [f \in Path |-> disk[f].stamp]
=============================================================================
