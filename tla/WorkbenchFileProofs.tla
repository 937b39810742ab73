------------------------- MODULE WorkbenchFileProofs -------------------------
(***************************************************************************)
(* Proofs about the parts of the workbench that work on files which others *)
(* write too: the index, edits of a language server, Git tools, sub-agents *)
(* and their worktrees, the file of keys, the goal and the session files;  *)
(* for every value of their constants.  First each part by itself, then    *)
(* the workbench.                                                          *)
(***************************************************************************)
EXTENDS Workbench, FiniteSetTheorems, TLAPS

-----------------------------------------------------------------------------
(* The code index (mjj/search/index.py). *)

\* A row belongs to the version of the file on disk, if it gives its identity.
Belongs(f, stamp, row) ==
  stamp = disk[f].stamp /\ stamp # Index!Absent =>
    row = Index!_make_chunks(disk[f].text) \/ <<f, stamp>> \in unread

AnIndex(index) == index.files \in [Path -> 0..(edits + 1)]

\* No identity is given twice: those that are known are older than the next.
StampInv ==
  /\ edits \in Nat
  /\ disk \in [Path -> [text : Texts \cup {"code", "blank"}, stamp : 0..(edits + 1)]]
  /\ current_files \in [Builder -> [Path -> 0..(edits + 1)]]
  /\ saved # Index!NoIndex => AnIndex(saved)
  /\ \A b \in Builder : existing[b] # Index!NoIndex => AnIndex(existing[b])

\* Both copies of an index are honest, and the rows collected so far too.
RowInv ==
  /\ rows = [b \in Builder |-> [f \in Path |-> rows[b][f]]]
  /\ saved # Index!NoIndex => Index!Honest(saved)
  /\ \A b \in Builder :
       /\ existing[b] # Index!NoIndex => Index!Honest(existing[b])
       /\ stage[b] = "read" =>
            \A f \in Path \ todo[b] : Belongs(f, current_files[b][f], rows[b][f])

\* Since no edit was made, what was discovered is what the files are.
FreshInv(b) ==
  /\ stage[b] = "discover" /\ ~since[b] =>
       \A f \in Path \ todo[b] : current_files[b][f] = disk[f].stamp
  /\ stage[b] \in {"read", "open", "ready"} /\ ~since[b] =>
       current_files[b] = [f \in Path |-> disk[f].stamp]

\* A process reads back its own index or that of another process.
WrittenInv(b) ==
  /\ stage[b] = "open" => saved # Index!NoIndex
  /\ stage[b] = "open" /\ saved.by = b => saved.files = current_files[b]
  /\ stage[b] = "ready" => existing[b] # Index!NoIndex
  /\ stage[b] = "ready" /\ existing[b].by = b => existing[b].files = current_files[b]

StageInv ==
  /\ existing = [b \in Builder |-> existing[b]]
  /\ stage = [b \in Builder |-> stage[b]]
  /\ todo = [b \in Builder |-> todo[b]]
  /\ since = [b \in Builder |-> since[b]]
  /\ \A b \in Builder : FreshInv(b) /\ WrittenInv(b)

IndexInv == StampInv /\ RowInv /\ StageInv

LEMMA IndexStarts == Index!IndexInit => IndexInv
  <1> SUFFICES ASSUME Index!IndexInit PROVE IndexInv
    OBVIOUS
  <1>1. StampInv
    BY DEF Index!IndexInit, StampInv, Index!Absent
  <1>2. RowInv
    BY DEF Index!IndexInit, RowInv
  <1>3. StageInv
    BY DEF Index!IndexInit, StageInv, FreshInv, WrittenInv
  <1>4. QED  BY <1>1, <1>2, <1>3 DEF IndexInv

\* An edit gives the file an identity that no index and no build knows.
LEMMA EditKeeps == ASSUME IndexInv, Index!EditFile PROVE IndexInv'
  <1>1. PICK f \in Path, v \in [text : Texts \cup {"code", "blank"}, stamp : 0..(edits + 2)] :
          /\ disk' = [disk EXCEPT ![f] = v]
          /\ v.stamp = 0 \/ v.stamp = edits + 2
    <2>1. edits + 2 \in 0..(edits + 2) /\ 0 \in 0..(edits + 2)
      BY DEF IndexInv, StampInv
    <2>2. PICK f \in Path, t \in Texts, gone \in BOOLEAN :
            disk' = [disk EXCEPT ![f] = IF gone THEN [text |-> "blank", stamp |-> 0]
                                        ELSE [text |-> t, stamp |-> edits + 2]]
      BY DEF Index!EditFile, Index!Absent
    <2> DEFINE v == IF gone THEN [text |-> "blank", stamp |-> 0]
                    ELSE [text |-> t, stamp |-> edits + 2]
    <2>3. v \in [text : Texts \cup {"code", "blank"}, stamp : 0..(edits + 2)]
      BY <2>1, <2>2
    <2>4. v.stamp = 0 \/ v.stamp = edits + 2
      OBVIOUS
    <2>5. disk' = [disk EXCEPT ![f] = v]
      BY <2>2
    <2> HIDE DEF v
    <2>6. QED  BY <2>3, <2>4, <2>5
  <1>2. /\ edits \in Nat /\ edits' = edits + 1 /\ edits' \in Nat
        /\ since' = [b \in Builder |-> stage[b] # "idle"]
        /\ UNCHANGED <<saved, existing, stage, todo, current_files, rows, unread>>
    BY DEF Index!EditFile, IndexInv, StampInv
  <1>3. \A s \in 0..(edits + 1) : s \in 0..(edits' + 1) /\ (s # 0 => s # v.stamp)
    BY <1>1, <1>2
  <1>4. edits' + 1 = edits + 2
    BY <1>2
  <1>5. /\ disk'[f] = v
        /\ \A g \in Path : g # f => disk'[g] = disk[g]
        /\ disk' \in [Path -> [text : Texts \cup {"code", "blank"}, stamp : 0..(edits' + 1)]]
    <2>1. disk \in [Path -> [text : Texts \cup {"code", "blank"}, stamp : 0..(edits' + 1)]]
      BY <1>3 DEF IndexInv, StampInv
    <2>2. v \in [text : Texts \cup {"code", "blank"}, stamp : 0..(edits' + 1)]
      BY <1>1, <1>4
    <2>3. QED  BY <1>1, <2>1, <2>2
  <1>6. \A g \in Path, s \in 0..(edits + 1) :
          s = disk'[g].stamp /\ s # 0 => disk'[g] = disk[g]
    BY <1>3, <1>5
  <1>7. StampInv'
    <2>1. \A index : AnIndex(index) => AnIndex(index)'
      BY <1>3 DEF AnIndex
    <2>2. current_files' \in [Builder -> [Path -> 0..(edits' + 1)]]
      BY <1>2, <1>3 DEF IndexInv, StampInv
    <2>3. QED  BY <1>2, <1>5, <2>1, <2>2 DEF IndexInv, StampInv
  <1>8. RowInv'
    <2>1. \A index : AnIndex(index) /\ Index!Honest(index) => Index!Honest(index)'
      BY <1>2, <1>6 DEF AnIndex, Index!Honest, Index!Absent
    <2>2. \A g \in Path, s \in 0..(edits + 1) : \A row : Belongs(g, s, row) => Belongs(g, s, row)'
      BY <1>2, <1>6 DEF Belongs, Index!Absent
    <2>3. \A b \in Builder, g \in Path : current_files[b][g] \in 0..(edits + 1)
      BY DEF IndexInv, StampInv
    <2>4. QED  BY <1>2, <2>1, <2>2, <2>3 DEF IndexInv, StampInv, RowInv
  <1>9. StageInv'
    <2>1. \A b \in Builder : stage'[b] # "idle" => since'[b]
      BY <1>2
    <2>2. \A b \in Builder : FreshInv(b)'
      BY <2>1 DEF FreshInv
    <2>3. \A b \in Builder : WrittenInv(b)'
      BY <1>2 DEF IndexInv, StageInv, WrittenInv
    <2>4. QED  BY <1>2, <2>2, <2>3 DEF IndexInv, StageInv
  <1>10. QED  BY <1>7, <1>8, <1>9 DEF IndexInv

\* A step of one process touches neither the files nor what the others hold.
Alone(b) ==
  /\ UNCHANGED <<disk, edits>> /\ unread \subseteq unread'
  /\ existing' = [c \in Builder |-> existing'[c]]
  /\ stage' = [c \in Builder |-> stage'[c]]
  /\ todo' = [c \in Builder |-> todo'[c]]
  /\ since' = [c \in Builder |-> since'[c]]
  /\ current_files' = [c \in Builder |-> current_files'[c]]
  /\ rows' = [c \in Builder |-> [f \in Path |-> rows'[c][f]]]
  /\ \A c \in Builder : c # b =>
       /\ stage'[c] = stage[c] /\ todo'[c] = todo[c] /\ since'[c] = since[c]
       /\ current_files'[c] = current_files[c] /\ rows'[c] = rows[c]
       /\ existing'[c] = existing[c]

\* What such a step must show: its own part of the invariant.
LEMMA BuildKeeps ==
  ASSUME IndexInv, NEW b \in Builder, Alone(b),
         current_files'[b] \in [Path -> 0..(edits + 1)],
         existing'[b] # Index!NoIndex =>
           AnIndex(existing[b])' /\ Index!Honest(existing[b])',
         stage'[b] = "read" =>
           \A f \in Path \ todo'[b] : Belongs(f, current_files[b][f], rows[b][f])',
         FreshInv(b)', WrittenInv(b)',
         \/ UNCHANGED saved
         \/ /\ saved'.by = b /\ saved' # Index!NoIndex
            /\ AnIndex(saved)' /\ Index!Honest(saved)'
  PROVE  IndexInv'
  <1>1. /\ UNCHANGED <<disk, edits>> /\ unread \subseteq unread'
        /\ \A c \in Builder : c # b =>
             /\ stage'[c] = stage[c] /\ todo'[c] = todo[c] /\ since'[c] = since[c]
             /\ current_files'[c] = current_files[c] /\ rows'[c] = rows[c]
             /\ existing'[c] = existing[c]
    BY DEF Alone
  <1>2. /\ existing' = [c \in Builder |-> existing'[c]]
        /\ stage' = [c \in Builder |-> stage'[c]]
        /\ todo' = [c \in Builder |-> todo'[c]]
        /\ since' = [c \in Builder |-> since'[c]]
        /\ current_files' = [c \in Builder |-> current_files'[c]]
        /\ rows' = [c \in Builder |-> [f \in Path |-> rows'[c][f]]]
    BY DEF Alone
  <1>3. \A f \in Path : \A s, row : Belongs(f, s, row) => Belongs(f, s, row)'
    BY <1>1 DEF Belongs
  <1>4. \A index : Index!Honest(index) => Index!Honest(index)'
    BY <1>1 DEF Index!Honest
  <1>5. StampInv'
    BY <1>1, <1>2 DEF IndexInv, StampInv, AnIndex
  <1>6. RowInv'
    <2>2. saved' # Index!NoIndex => Index!Honest(saved)'
      BY <1>4 DEF IndexInv, RowInv
    <2>3. \A c \in Builder : existing'[c] # Index!NoIndex => Index!Honest(existing[c])'
      BY <1>1, <1>2, <1>4 DEF IndexInv, RowInv
    <2>4. \A c \in Builder : stage'[c] = "read" =>
            \A f \in Path \ todo'[c] : Belongs(f, current_files[c][f], rows[c][f])'
      BY <1>1, <1>2, <1>3 DEF IndexInv, RowInv
    <2>5. QED  BY <1>2, <2>2, <2>3, <2>4 DEF RowInv
  <1>7. StageInv'
    <2>1. ASSUME NEW c \in Builder, c # b PROVE FreshInv(c)' /\ WrittenInv(c)'
      <3>1. FreshInv(c) /\ WrittenInv(c)
        BY <2>1 DEF IndexInv, StageInv
      <3>2. /\ stage'[c] = stage[c] /\ todo'[c] = todo[c] /\ since'[c] = since[c]
            /\ current_files'[c] = current_files[c] /\ existing'[c] = existing[c]
        BY <1>1, <2>1
      <3>3. FreshInv(c)'
        BY <1>1, <3>1, <3>2 DEF FreshInv
      <3>4. WrittenInv(c)'
        BY <2>1, <3>1, <3>2 DEF WrittenInv
      <3>5. QED  BY <3>3, <3>4
    <2>2. QED  BY <1>1, <1>2, <2>1 DEF IndexInv, StageInv
  <1>8. QED  BY <1>5, <1>6, <1>7 DEF IndexInv

SetsRow(b, f, row) == rows' = [rows EXCEPT ![b][f] = row]

LEMMA RowSet ==
  ASSUME IndexInv, NEW b \in Builder, NEW f, NEW row, SetsRow(b, f, row)
  PROVE  /\ rows' = [c \in Builder |-> [g \in Path |-> rows'[c][g]]]
         /\ \A c \in Builder : c # b => rows'[c] = rows[c]
         /\ f \in Path => rows'[b][f] = row
         /\ \A g \in Path : g # f => rows'[b][g] = rows[b][g]
  <1>1. rows = [c \in Builder |-> [g \in Path |-> rows[c][g]]]
    BY DEF IndexInv, RowInv
  <1> DEFINE new == [rows[b] EXCEPT ![f] = row]
  <1>2. rows' = [rows EXCEPT ![b] = new]
    BY DEF SetsRow
  <1>3. rows[b] = [g \in Path |-> rows[b][g]]
    BY <1>1
  <1>4. /\ new = [g \in Path |-> new[g]]
        /\ \A g \in Path : new[g] = IF g = f THEN row ELSE rows[b][g]
    BY <1>3
  <1> HIDE DEF new
  <1>5. /\ rows'[b] = new /\ \A c \in Builder : c # b => rows'[c] = rows[c]
        /\ rows' = [c \in Builder |-> rows'[c]]
    BY <1>1, <1>2
  <1>6. \A c \in Builder : rows'[c] = [g \in Path |-> rows'[c][g]]
    BY <1>1, <1>4, <1>5
  <1>7. QED  BY <1>4, <1>5, <1>6

LEMMA BuildsAlone ==
  ASSUME IndexInv, NEW b \in Builder,
         \/ Index!build_index(b) \/ Index!_discover_files(b) \/ Index!Unchanged(b)
         \/ Index!Changed(b) \/ Index!Reuse(b) \/ Index!ReadFile(b)
         \/ Index!ReadFails(b) \/ Index!_write_index(b) \/ Index!Reopen(b)
         \/ Index!Answered(b) \/ Index!Restart(b)
  PROVE  Alone(b)
  <1>1. /\ existing = [c \in Builder |-> existing[c]]
        /\ stage = [c \in Builder |-> stage[c]]
        /\ todo = [c \in Builder |-> todo[c]]
        /\ since = [c \in Builder |-> since[c]]
        /\ current_files = [c \in Builder |-> current_files[c]]
        /\ rows = [c \in Builder |-> [f \in Path |-> rows[c][f]]]
    BY DEF IndexInv, StampInv, RowInv, StageInv
  <1>2. CASE Index!build_index(b)
    BY <1>1, <1>2 DEF Index!build_index, Index!At, Index!Goto, Alone
  <1>3. CASE Index!_discover_files(b)
    <2>1. PICK f \in todo[b] :
            /\ current_files' = [current_files EXCEPT ![b][f] = disk[f].stamp]
            /\ todo' = [todo EXCEPT ![b] = @ \ {f}]
      BY <1>3 DEF Index!_discover_files
    <2>2. UNCHANGED <<disk, edits, unread, existing, stage, since, rows>>
      BY <1>3 DEF Index!_discover_files
    <2>3. QED  BY <1>1, <2>1, <2>2 DEF Alone
  <1>4. CASE Index!Unchanged(b) \/ Index!Changed(b)
    BY <1>1, <1>4 DEF Index!Unchanged, Index!Changed, Index!Goto, Alone
  <1>5. CASE Index!Reuse(b) \/ Index!ReadFile(b)
    <2>1. PICK f, row :
            /\ f \in todo[b]
            /\ SetsRow(b, f, row)
            /\ todo' = [todo EXCEPT ![b] = @ \ {f}]
      BY <1>5 DEF Index!Reuse, Index!ReadFile, SetsRow
    <2>2. UNCHANGED <<disk, edits, unread, existing, stage, since, current_files>>
      BY <1>5 DEF Index!Reuse, Index!ReadFile
    <2>3. /\ rows' = [c \in Builder |-> [g \in Path |-> rows'[c][g]]]
          /\ \A c \in Builder : c # b => rows'[c] = rows[c]
      BY <2>1, RowSet
    <2>4. QED  BY <1>1, <2>1, <2>2, <2>3 DEF Alone
  <1>7. CASE Index!ReadFails(b)
    BY <1>1, <1>7 DEF Index!ReadFails, Alone
  <1>8. CASE Index!_write_index(b) \/ Index!Reopen(b)
    BY <1>1, <1>8 DEF Index!_write_index, Index!Reopen, Index!Goto, Alone
  <1>9. CASE Index!Answered(b) \/ Index!Restart(b)
    <2>1. /\ todo' = [todo EXCEPT ![b] = {}]
          /\ current_files' = [current_files EXCEPT ![b] = [f \in Path |-> Index!Absent]]
          /\ rows' = [rows EXCEPT ![b] = [f \in Path |-> Index!None]]
          /\ since' = [since EXCEPT ![b] = FALSE]
          /\ stage' = [stage EXCEPT ![b] = "idle"]
          /\ existing' = existing \/ existing' = [existing EXCEPT ![b] = Index!NoIndex]
          /\ UNCHANGED <<disk, edits, unread>>
      BY <1>9 DEF Index!Answered, Index!Restart, Index!Forget, Index!Goto
    <2>2. QED  BY <1>1, <2>1 DEF Alone
  <1>10. QED
    BY <1>2, <1>3, <1>4, <1>5, <1>7, <1>8, <1>9

LEMMA BuildBegins ==
  ASSUME IndexInv, NEW b \in Builder,
         Index!build_index(b) \/ Index!_discover_files(b)
  PROVE  IndexInv'
  <1>1. Alone(b)
    BY BuildsAlone
  <1>2. FreshInv(b) /\ current_files[b] \in [Path -> 0..(edits + 1)]
    BY DEF IndexInv, StageInv, StampInv
  <1>3. /\ existing = [c \in Builder |-> existing[c]]
        /\ stage = [c \in Builder |-> stage[c]]
        /\ todo = [c \in Builder |-> todo[c]]
        /\ current_files \in [Builder -> [Path -> 0..(edits + 1)]]
    BY DEF IndexInv, StampInv, StageInv
  <1>4. stage'[b] = "discover" /\ UNCHANGED saved
    BY <1>3 DEF Index!build_index, Index!_discover_files, Index!At, Index!Goto
  <1>5. existing'[b] \in {existing[b], saved}
    BY <1>3 DEF Index!build_index, Index!_discover_files
  <1>6. existing'[b] # Index!NoIndex => AnIndex(existing[b])' /\ Index!Honest(existing[b])'
    <2>1. saved # Index!NoIndex => AnIndex(saved) /\ Index!Honest(saved)
      BY DEF IndexInv, StampInv, RowInv
    <2>2. existing[b] # Index!NoIndex => AnIndex(existing[b]) /\ Index!Honest(existing[b])
      BY DEF IndexInv, StampInv, RowInv
    <2>3. existing'[b] # Index!NoIndex =>
            AnIndex(existing'[b]) /\ Index!Honest(existing'[b])
      BY <1>5, <2>1, <2>2
    <2>4. AnIndex(existing'[b]) /\ Index!Honest(existing'[b])
            => AnIndex(existing[b])' /\ Index!Honest(existing[b])'
      BY <1>1 DEF AnIndex, Index!Honest, Alone
    <2>5. QED  BY <2>3, <2>4
  <1>7. WrittenInv(b)'
    BY <1>4 DEF WrittenInv
  <1>8. CASE Index!build_index(b)
    <2>1. todo'[b] = Path /\ UNCHANGED current_files
      BY <1>3, <1>8 DEF Index!build_index
    <2>2. FreshInv(b)'
      BY <1>4, <2>1 DEF FreshInv
    <2>3. QED
      BY <1>1, <1>2, <1>4, <1>6, <1>7, <2>1, <2>2, BuildKeeps
  <1>9. CASE Index!_discover_files(b)
    <2>1. PICK f \in todo[b] :
            /\ todo'[b] = todo[b] \ {f}
            /\ current_files'[b] = [current_files[b] EXCEPT ![f] = disk[f].stamp]
      BY <1>3, <1>9 DEF Index!_discover_files
    <2>2. UNCHANGED <<disk, since>> /\ stage[b] = "discover"
      BY <1>9 DEF Index!_discover_files, Index!At
    <2>3. f \in Path => disk[f].stamp \in 0..(edits + 1)
      BY DEF IndexInv, StampInv
    <2>4. /\ current_files'[b] \in [Path -> 0..(edits + 1)]
          /\ \A g \in Path : current_files'[b][g] =
               IF g = f THEN disk[f].stamp ELSE current_files[b][g]
      BY <1>2, <2>1, <2>3
    <2>5. FreshInv(b)'
      BY <1>2, <1>4, <2>1, <2>2, <2>4 DEF FreshInv
    <2>6. QED
      BY <1>1, <1>4, <1>6, <1>7, <2>4, <2>5, BuildKeeps
  <1>10. QED  BY <1>8, <1>9

LEMMA BuildCompares ==
  ASSUME IndexInv, NEW b \in Builder, Index!Unchanged(b) \/ Index!Changed(b)
  PROVE  IndexInv'
  <1>1. Alone(b)
    BY BuildsAlone
  <1>2. FreshInv(b) /\ current_files[b] \in [Path -> 0..(edits + 1)]
    BY DEF IndexInv, StageInv, StampInv
  <1>3. /\ stage = [c \in Builder |-> stage[c]] /\ todo = [c \in Builder |-> todo[c]]
        /\ stage[b] = "discover" /\ todo[b] = {}
        /\ UNCHANGED <<disk, edits, saved, existing, current_files, rows, since, unread>>
    BY DEF Index!Unchanged, Index!Changed, Index!At, IndexInv, StageInv
  <1>4. existing'[b] # Index!NoIndex => AnIndex(existing[b])' /\ Index!Honest(existing[b])'
    BY <1>3 DEF IndexInv, StampInv, RowInv, AnIndex, Index!Honest
  <1>5. ~since[b] => current_files[b] = [f \in Path |-> disk[f].stamp]
    BY <1>2, <1>3 DEF FreshInv
  <1>6. stage'[b] \in {"ready", "read"}
    BY <1>3 DEF Index!Unchanged, Index!Changed, Index!Goto
  <1>7. FreshInv(b)'
    BY <1>3, <1>5, <1>6 DEF FreshInv
  <1>8. CASE Index!Unchanged(b)
    <2>1. stage'[b] = "ready" /\ existing[b] # Index!NoIndex
          /\ existing[b].files = current_files[b]
      BY <1>3, <1>8 DEF Index!Unchanged, Index!UpToDate, Index!Goto
    <2>2. WrittenInv(b)'
      BY <1>3, <2>1 DEF WrittenInv
    <2>3. QED
      BY <1>1, <1>2, <1>3, <1>4, <1>7, <2>1, <2>2, BuildKeeps
  <1>9. CASE Index!Changed(b)
    <2>1. stage'[b] = "read" /\ todo'[b] = Index!Discovered(b)
      BY <1>3, <1>9 DEF Index!Changed, Index!Goto
    <2>2. WrittenInv(b)'
      BY <2>1 DEF WrittenInv
    <2>3. \A f \in Path \ todo'[b] : Belongs(f, current_files[b][f], rows[b][f])'
      BY <1>3, <2>1 DEF Index!Discovered, Belongs
    <2>4. QED
      BY <1>1, <1>2, <1>3, <1>4, <1>7, <2>1, <2>2, <2>3, BuildKeeps
  <1>10. QED  BY <1>8, <1>9

LEMMA BuildReads ==
  ASSUME IndexInv, NEW b \in Builder,
         Index!Reuse(b) \/ Index!ReadFile(b) \/ Index!ReadFails(b)
  PROVE  IndexInv'
  <1>1. Alone(b)
    BY BuildsAlone
  <1>2. /\ FreshInv(b) /\ current_files[b] \in [Path -> 0..(edits + 1)]
        /\ todo = [c \in Builder |-> todo[c]]
    BY DEF IndexInv, StageInv, StampInv
  <1>3. /\ stage[b] = "read"
        /\ UNCHANGED <<disk, edits, saved, existing, stage, current_files, since>>
    BY DEF Index!Reuse, Index!ReadFile, Index!ReadFails, Index!At
  <1>4. unread \subseteq unread'
    BY <1>1 DEF Alone
  <1>5. existing'[b] # Index!NoIndex => AnIndex(existing[b])' /\ Index!Honest(existing[b])'
    BY <1>3, <1>4 DEF IndexInv, StampInv, RowInv, AnIndex, Index!Honest
  <1>6. FreshInv(b)' /\ WrittenInv(b)'
    BY <1>2, <1>3 DEF FreshInv, WrittenInv
  <1>7. \A f \in Path \ todo[b] : Belongs(f, current_files[b][f], rows[b][f])
    BY <1>3 DEF IndexInv, RowInv
  <1>8. \A f \in Path : \A s, row : Belongs(f, s, row) => Belongs(f, s, row)'
    BY <1>3, <1>4 DEF Belongs
  <1>9. PICK f \in todo[b] :
          /\ todo'[b] = todo[b] \ {f}
          /\ f \in Path => Belongs(f, current_files[b][f], rows[b][f])'
          /\ \A g \in Path : g # f => rows'[b][g] = rows[b][g]
    <2>1. CASE Index!Reuse(b)
      <3>1. PICK f \in todo[b] :
              /\ Index!Reusable(b, f)
              /\ rows' = [rows EXCEPT ![b][f] = existing[b].rows[f]]
              /\ todo'[b] = todo[b] \ {f}
        BY <1>2, <2>1 DEF Index!Reuse
      <3>2. f \in Path => Belongs(f, current_files[b][f], existing[b].rows[f])
        BY <3>1 DEF Index!Reusable, IndexInv, RowInv, Index!Honest, Belongs
      <3>0. PICK row : row = existing[b].rows[f]
        OBVIOUS
      <3>3. SetsRow(b, f, row)
        BY <3>0, <3>1 DEF SetsRow
      <3>4. f \in Path => Belongs(f, current_files[b][f], row)
        BY <3>0, <3>2
      <3>5. /\ f \in Path => rows'[b][f] = row
            /\ \A g \in Path : g # f => rows'[b][g] = rows[b][g]
        BY <3>3, RowSet
      <3>6. f \in Path => Belongs(f, current_files[b][f], rows[b][f])'
        BY <1>3, <1>4, <3>4, <3>5 DEF Belongs
      <3>7. QED  BY <3>1, <3>5, <3>6
    <2>2. CASE Index!ReadFile(b)
      <3>1. PICK f \in todo[b] :
              /\ rows' = [rows EXCEPT ![b][f] = Index!_make_chunks(disk[f].text)]
              /\ todo'[b] = todo[b] \ {f}
        BY <1>2, <2>2 DEF Index!ReadFile
      <3>0. PICK row : row = Index!_make_chunks(disk[f].text)
        OBVIOUS
      <3>2. f \in Path => Belongs(f, current_files[b][f], row)
        BY <3>0 DEF Belongs
      <3>3. SetsRow(b, f, row)
        BY <3>0, <3>1 DEF SetsRow
      <3>4. /\ f \in Path => rows'[b][f] = row
            /\ \A g \in Path : g # f => rows'[b][g] = rows[b][g]
        BY <3>3, RowSet
      <3>5. f \in Path => Belongs(f, current_files[b][f], rows[b][f])'
        BY <1>3, <1>4, <3>2, <3>4 DEF Belongs
      <3>6. QED  BY <3>1, <3>4, <3>5
    <2>3. CASE Index!ReadFails(b)
      <3>1. PICK f \in todo[b] :
              /\ todo'[b] = todo[b] \ {f}
              /\ unread' = unread \cup {<<f, current_files[b][f]>>}
              /\ UNCHANGED rows
        BY <1>2, <2>3 DEF Index!ReadFails
      <3>2. Belongs(f, current_files[b][f], rows[b][f])'
        BY <1>3, <3>1 DEF Belongs
      <3>3. QED  BY <3>1, <3>2
    <2>4. QED  BY <2>1, <2>2, <2>3
  <1>10. \A g \in Path \ todo'[b] : Belongs(g, current_files[b][g], rows[b][g])'
    <2>1. \A g \in Path \ todo[b] : g # f =>
            Belongs(g, current_files[b][g], rows[b][g])'
      BY <1>3, <1>7, <1>8, <1>9 DEF Belongs
    <2>2. QED  BY <1>9, <2>1
  <1>11. QED
    BY <1>1, <1>2, <1>3, <1>5, <1>6, <1>10, BuildKeeps

LEMMA BuildEnds ==
  ASSUME IndexInv, NEW b \in Builder,
         \/ Index!_write_index(b) \/ Index!Reopen(b)
         \/ Index!Answered(b) \/ Index!Restart(b)
  PROVE  IndexInv'
  <1>1. Alone(b)
    BY BuildsAlone
  <1>2. /\ FreshInv(b) /\ WrittenInv(b)
        /\ current_files[b] \in [Path -> 0..(edits + 1)] /\ 0 \in 0..(edits + 1)
        /\ rows[b] = [f \in Path |-> rows[b][f]]
    BY DEF IndexInv, StageInv, StampInv, RowInv
  <1>3. /\ existing = [c \in Builder |-> existing[c]]
        /\ stage = [c \in Builder |-> stage[c]]
        /\ since = [c \in Builder |-> since[c]]
        /\ current_files \in [Builder -> [Path -> 0..(edits + 1)]]
    BY DEF IndexInv, StampInv, StageInv
  <1>4. UNCHANGED <<disk, edits, unread>>
    BY DEF Index!_write_index, Index!Reopen, Index!Answered, Index!Restart
  <1>5. existing'[b] \in {existing[b], saved, Index!NoIndex}
    BY <1>3 DEF Index!_write_index, Index!Reopen, Index!Answered, Index!Restart
  <1>6. existing'[b] # Index!NoIndex => AnIndex(existing[b])' /\ Index!Honest(existing[b])'
    <2>1. saved # Index!NoIndex => AnIndex(saved) /\ Index!Honest(saved)
      BY DEF IndexInv, StampInv, RowInv
    <2>2. existing[b] # Index!NoIndex => AnIndex(existing[b]) /\ Index!Honest(existing[b])
      BY DEF IndexInv, StampInv, RowInv
    <2>3. existing'[b] # Index!NoIndex =>
            AnIndex(existing'[b]) /\ Index!Honest(existing'[b])
      BY <1>5, <2>1, <2>2
    <2>4. AnIndex(existing'[b]) /\ Index!Honest(existing'[b])
            => AnIndex(existing[b])' /\ Index!Honest(existing[b])'
      BY <1>4 DEF AnIndex, Index!Honest
    <2>5. QED  BY <2>3, <2>4
  <1>7. CASE Index!_write_index(b)
    <2>1. /\ stage[b] = "read" /\ todo[b] = {} /\ stage'[b] = "open"
          /\ saved' = [by |-> b, files |-> current_files[b], rows |-> rows[b]]
          /\ UNCHANGED <<existing, todo, current_files, rows, since>>
      BY <1>3, <1>7 DEF Index!_write_index, Index!At, Index!Goto
    <2>2. /\ saved'.by = b /\ saved'.files = current_files[b]
          /\ \A f \in Path : saved'.files[f] = current_files[b][f] /\ saved'.rows[f] = rows[b][f]
      BY <2>1
    <2>3. saved' # Index!NoIndex
      BY <2>1 DEF Index!NoIndex
    <2>4. AnIndex(saved)'
      BY <1>2, <1>4, <2>2 DEF AnIndex
    <2>5. \A f \in Path : Belongs(f, current_files[b][f], rows[b][f])
      BY <2>1 DEF IndexInv, RowInv
    <2>6. Index!Honest(saved)'
      BY <1>4, <2>2, <2>5 DEF Index!Honest, Belongs
    <2>7. FreshInv(b)'
      BY <1>2, <1>4, <2>1 DEF FreshInv
    <2>8. WrittenInv(b)'
      BY <2>1, <2>2, <2>3 DEF WrittenInv
    <2>9. QED
      BY <1>1, <1>2, <1>6, <2>1, <2>2, <2>3, <2>4, <2>6, <2>7, <2>8, BuildKeeps
  <1>8. CASE Index!Reopen(b)
    <2>1. /\ stage[b] = "open" /\ stage'[b] = "ready" /\ existing'[b] = saved
          /\ UNCHANGED <<saved, todo, current_files, rows, since>>
      BY <1>3, <1>8 DEF Index!Reopen, Index!At, Index!Goto
    <2>2. FreshInv(b)'
      BY <1>2, <1>4, <2>1 DEF FreshInv
    <2>3. WrittenInv(b)'
      BY <1>2, <2>1 DEF WrittenInv
    <2>4. QED
      BY <1>1, <1>2, <1>6, <2>1, <2>2, <2>3, BuildKeeps
  <1>9. CASE Index!Answered(b) \/ Index!Restart(b)
    <2>1. /\ stage'[b] = "idle" /\ UNCHANGED saved
          /\ current_files'[b] = [f \in Path |-> Index!Absent]
      BY <1>3, <1>9 DEF Index!Answered, Index!Restart, Index!Forget, Index!Goto
    <2>2. FreshInv(b)' /\ WrittenInv(b)'
      BY <2>1 DEF FreshInv, WrittenInv
    <2>3. current_files'[b] \in [Path -> 0..(edits + 1)]
      BY <1>2, <2>1 DEF Index!Absent
    <2>4. QED
      BY <1>1, <1>6, <2>1, <2>2, <2>3, BuildKeeps
  <1>10. QED  BY <1>7, <1>8, <1>9

(* build_index: an index, on disk or in a process, that gives a file its    *)
(* present identity has the rows of its present text, whatever other        *)
(* processes build and whenever the user saves; and a process that reads    *)
(* back its own build knows the files as they were, if none was saved since *)
(* it began.                                                                *)
THEOREM IndexesAreFresh == Index!IndexSpec => []Index!IndexFresh
  <1>1. IndexInv /\ [Index!IndexNext]_(Index!indexVars) => IndexInv'
    <2> SUFFICES ASSUME IndexInv, [Index!IndexNext]_(Index!indexVars) PROVE IndexInv'
      OBVIOUS
    <2>1. CASE Index!EditFile
      BY <2>1, EditKeeps
    <2>2. CASE \E b \in Builder :
                 \/ Index!build_index(b) \/ Index!_discover_files(b) \/ Index!Unchanged(b)
                 \/ Index!Changed(b) \/ Index!Reuse(b) \/ Index!ReadFile(b)
                 \/ Index!ReadFails(b) \/ Index!_write_index(b) \/ Index!Reopen(b)
                 \/ Index!Answered(b) \/ Index!Restart(b)
      BY <2>2, BuildBegins, BuildCompares, BuildReads, BuildEnds
    <2>3. CASE UNCHANGED Index!indexVars
      BY <2>3 DEF Index!indexVars, IndexInv, StampInv, RowInv, StageInv, FreshInv,
                  WrittenInv, AnIndex, Belongs, Index!Honest
    <2>4. QED  BY <2>1, <2>2, <2>3 DEF Index!IndexNext
  <1>2. IndexInv => Index!IndexFresh
    BY DEF IndexInv, RowInv, StageInv, FreshInv, WrittenInv, Index!IndexFresh
  <1>3. QED  BY <1>1, <1>2, IndexStarts, PTL DEF Index!IndexSpec

-----------------------------------------------------------------------------
(* Edits of a language server (mjj/tools/navigate.py). *)

Content == [version : Nat, edited : Nat]

LEMMA EditOfContent ==
  ASSUME NEW c \in Content
  PROVE  Nav!WithEdit(c) \in Content
  BY DEF Nav!WithEdit, Content

NavTypes ==
  /\ nav \in {"idle", "asked", "planned", "approved", "snapped", "commit", "finish"}
  /\ texts \in [Sources -> Content] /\ originals \in [Sources -> Content]
  /\ snapshots \in [Sources -> Content]
  /\ targets \subseteq Sources /\ left \subseteq targets
  /\ user_writes \in Nat

\* Only a user's text, which has no edit, may differ from what was planned on.
PlannedInv ==
  nav \in {"planned", "approved"} =>
    \A f \in targets : texts[f].edited <= originals[f].edited

\* The files that were read again are those that were planned on; each file
\* the user leaves alone holds that, or the edit of it once it was replaced.
ReplacedInv ==
  /\ nav \in {"snapped", "commit", "finish"} =>
       \A f \in targets : snapshots[f] = originals[f]
  /\ nav = "snapped" => \A f \in targets \ meddled : texts[f] = snapshots[f]
  /\ nav = "commit" =>
       \A f \in targets \ meddled :
         texts[f] = IF f \in left THEN snapshots[f] ELSE Nav!WithEdit(snapshots[f])
  /\ nav = "finish" =>
       left = {} /\ \A f \in targets \ meddled : texts[f] = Nav!WithEdit(snapshots[f])

NavInv ==
  /\ NavTypes /\ PlannedInv /\ ReplacedInv
  /\ pending => nav \in {"commit", "finish"}
  /\ nav # "commit" => left = {}
  /\ nav = "asked" => targets = {}
  /\ Nav!WholeOrNothing

LEMMA NavStarts == Nav!NavInit => NavInv
  BY DEF Nav!NavInit, NavInv, NavTypes, PlannedInv, ReplacedInv, Nav!WholeOrNothing, Content

LEMMA NavPlans ==
  ASSUME NavInv, Nav!run \/ Nav!_plan_workspace_edit \/ Nav!approve
  PROVE  NavInv'
  <1>1. CASE Nav!run
    BY <1>1 DEF Nav!run, Nav!Result, NavInv, NavTypes, PlannedInv, ReplacedInv,
                Nav!WholeOrNothing
  <1>2. CASE Nav!_plan_workspace_edit
    <2>1. /\ nav = "asked" /\ left = {} /\ targets = {} /\ ~pending
          /\ UNCHANGED <<texts, snapshots, left, pending, noted, wanted_edits, user_writes, meddled>>
      BY <1>2 DEF Nav!_plan_workspace_edit, Nav!Ghosts, NavInv
    <2>2. CASE /\ targets' \in SUBSET Sources /\ originals' = texts
               /\ nav' = "planned" /\ UNCHANGED verdict
      <3>1. NavTypes'
        BY <2>1, <2>2 DEF NavInv, NavTypes
      <3>2. PlannedInv'
        BY <2>1, <2>2 DEF NavInv, NavTypes, PlannedInv, Content
      <3>3. QED
        BY <2>1, <2>2, <3>1, <3>2 DEF NavInv, ReplacedInv, Nav!WholeOrNothing
    <2>3. CASE Nav!Result("refused") /\ UNCHANGED <<targets, originals>>
      <3>1. NavTypes'
        BY <2>1, <2>3 DEF NavInv, NavTypes, Nav!Result
      <3>2. PlannedInv' /\ ReplacedInv'
        BY <2>3 DEF Nav!Result, PlannedInv, ReplacedInv
      <3>3. Nav!WholeOrNothing'
        <4>1. targets' = {} /\ pending' = FALSE /\ verdict' = "refused"
          BY <2>1, <2>3 DEF NavInv, Nav!Result
        <4>2. QED  BY <4>1 DEF Nav!WholeOrNothing
      <3>4. QED
        BY <2>1, <2>3, <3>1, <3>2, <3>3 DEF NavInv, Nav!Result
    <2>4. QED  BY <1>2, <2>2, <2>3 DEF Nav!_plan_workspace_edit
  <1>3. CASE Nav!approve
    BY <1>3 DEF Nav!approve, Nav!Result, Nav!Later, Nav!Ghosts, NavInv, NavTypes,
                PlannedInv, ReplacedInv, Nav!WholeOrNothing
  <1>4. QED  BY <1>1, <1>2, <1>3

LEMMA NavReads ==
  ASSUME NavInv, Nav!_snapshot \/ Nav!begin
  PROVE  NavInv'
  <1>1. UNCHANGED <<texts, targets, originals, noted, wanted_edits, user_writes>>
    BY DEF Nav!_snapshot, Nav!begin, Nav!Ghosts
  <1>2. CASE Nav!_snapshot
    <2>1. /\ nav = "approved" /\ snapshots' = texts /\ meddled' = {}
          /\ left = {} /\ ~pending /\ UNCHANGED <<left, pending>>
      BY <1>2 DEF Nav!_snapshot, NavInv
    <2>2. CASE (\E f \in targets : texts[f] # originals[f]) /\ Nav!Result("refused")
      <3>1. NavTypes'
        BY <1>1, <2>1, <2>2 DEF NavInv, NavTypes, Nav!Result
      <3>2. PlannedInv' /\ ReplacedInv'
        BY <2>2 DEF Nav!Result, PlannedInv, ReplacedInv
      <3>3. Nav!WholeOrNothing'
        BY <1>1, <2>1, <2>2 DEF NavInv, PlannedInv, Nav!Result, Nav!WholeOrNothing
      <3>4. QED  BY <2>1, <2>2, <3>1, <3>2, <3>3 DEF NavInv, Nav!Result
    <2>3. CASE /\ \A f \in targets : texts[f] = originals[f]
               /\ nav' = "snapped" /\ UNCHANGED verdict
      <3>1. NavTypes'
        BY <1>1, <2>1, <2>3 DEF NavInv, NavTypes
      <3>2. PlannedInv' /\ ReplacedInv'
        BY <1>1, <2>1, <2>3 DEF PlannedInv, ReplacedInv
      <3>3. QED  BY <2>1, <2>3, <3>1, <3>2 DEF NavInv, Nav!WholeOrNothing
    <2>4. QED  BY <1>2, <2>2, <2>3 DEF Nav!_snapshot
  <1>3. CASE Nav!begin
    <2>1. /\ nav = "snapped" /\ nav' = "commit" /\ left' = targets
          /\ UNCHANGED <<snapshots, meddled>>
      BY <1>3 DEF Nav!begin, Nav!Goto
    <2>2. NavTypes'
      BY <1>1, <2>1 DEF NavInv, NavTypes
    <2>3. PlannedInv' /\ ReplacedInv'
      BY <1>1, <2>1 DEF NavInv, PlannedInv, ReplacedInv
    <2>4. QED  BY <2>1, <2>2, <2>3 DEF NavInv, Nav!WholeOrNothing
  <1>4. QED  BY <1>2, <1>3

LEMMA NavReplaces ==
  ASSUME NavInv, NEW f \in Sources, Nav!Replace(f)
  PROVE  NavInv'
  <1>1. /\ nav = "commit" /\ f \in left /\ left' = left \ {f}
        /\ nav' = (IF left' = {} THEN "finish" ELSE "commit")
        /\ UNCHANGED <<targets, originals, snapshots, pending, verdict, noted,
                       wanted_edits, user_writes, meddled>>
    BY DEF Nav!Replace, Nav!Ghosts
  <1>2. f \in targets /\ originals[f] \in Content /\ snapshots[f] = originals[f]
    BY <1>1 DEF NavInv, NavTypes, ReplacedInv
  <1>3. /\ texts'[f] = Nav!WithEdit(snapshots[f])
        /\ \A g \in Sources : g # f => texts'[g] = texts[g]
        /\ texts' = [g \in Sources |-> texts'[g]]
    BY <1>2 DEF Nav!Replace, NavInv, NavTypes, Nav!WithEdit
  <1>4. Nav!WithEdit(snapshots[f]) \in Content
    BY <1>2 DEF Nav!WithEdit, Content
  <1>5. NavTypes'
    <2>1. texts' \in [Sources -> Content]
      BY <1>3, <1>4 DEF NavInv, NavTypes
    <2>2. QED  BY <1>1, <2>1 DEF NavInv, NavTypes
  <1>6. \A g \in targets \ meddled :
          texts'[g] = IF g \in left' THEN snapshots[g] ELSE Nav!WithEdit(snapshots[g])
    <2>1. \A g \in targets \ meddled : g # f =>
            texts'[g] = IF g \in left THEN snapshots[g] ELSE Nav!WithEdit(snapshots[g])
      BY <1>1, <1>3 DEF NavInv, NavTypes, ReplacedInv
    <2>2. QED  BY <1>1, <1>3, <2>1
  <1>7. PlannedInv'
    BY <1>1 DEF PlannedInv
  <1>8. ReplacedInv'
    BY <1>1, <1>6 DEF NavInv, ReplacedInv
  <1>9. QED
    BY <1>1, <1>5, <1>7, <1>8 DEF NavInv, Nav!WholeOrNothing

LEMMA NavEnds ==
  ASSUME NavInv, Nav!_restore \/ Nav!finish
  PROVE  NavInv'
  <1>1. CASE Nav!_restore
    <2>1. /\ nav = "commit" /\ left # {} /\ left' = {} /\ ~pending'
          /\ nav' = "idle" /\ verdict' = "refused"
          /\ UNCHANGED <<targets, originals, snapshots, noted, wanted_edits,
                         user_writes, meddled>>
      BY <1>1 DEF Nav!_restore, Nav!Result, Nav!Ghosts
    <2>2. \/ left = targets /\ UNCHANGED <<texts, unrestored>>
          \/ \E lost \in SUBSET targets :
               /\ texts' = [f \in Sources |->
                    IF f \in targets \ lost THEN snapshots[f] ELSE texts[f]]
               /\ unrestored' = lost \ left
      BY <1>1 DEF Nav!_restore
    <2>3. NavTypes'
      BY <2>1, <2>2 DEF NavInv, NavTypes
    <2>4. \A f \in targets \ meddled :
            \/ texts'[f] = originals[f]
            \/ f \in unrestored' /\ texts'[f] = Nav!WithEdit(snapshots[f])
      BY <2>1, <2>2 DEF NavInv, NavTypes, ReplacedInv
    <2>5. \A f \in targets : originals[f].edited <= originals[f].edited
      BY DEF NavInv, NavTypes, Content
    <2>6. PlannedInv' /\ ReplacedInv'
      BY <2>1 DEF PlannedInv, ReplacedInv
    <2>7. Nav!WholeOrNothing'
      BY <2>1, <2>4, <2>5 DEF Nav!WholeOrNothing, Nav!WithEdit
    <2>8. QED  BY <2>1, <2>3, <2>6, <2>7 DEF NavInv
  <1>2. CASE Nav!finish
    <2>1. /\ nav = "finish" /\ ~pending' /\ noted' = noted \cup targets
          /\ nav' = "idle" /\ verdict' = "edited"
          /\ UNCHANGED <<texts, targets, originals, snapshots, left, meddled,
                         wanted_edits, user_writes>>
      BY <1>2 DEF Nav!finish, Nav!Result
    <2>2. NavTypes' /\ PlannedInv' /\ ReplacedInv'
      BY <2>1 DEF NavInv, NavTypes, PlannedInv, ReplacedInv
    <2>3. Nav!WholeOrNothing'
      BY <2>1 DEF NavInv, ReplacedInv, Nav!WithEdit, Nav!WholeOrNothing
    <2>4. QED  BY <2>1, <2>2, <2>3 DEF NavInv
  <1>3. QED  BY <1>1, <1>2

\* What the user writes has no edit, and is remembered as the user's.
LEMMA NavUser == ASSUME NavInv, Nav!UserWrites PROVE NavInv'
  <1>1. /\ user_writes' = user_writes + 1
        /\ UNCHANGED <<nav, targets, originals, snapshots, left, pending, verdict,
                       noted, unrestored, wanted_edits>>
    BY DEF Nav!UserWrites
  <1>2. PICK f \in Sources :
          /\ texts' = [texts EXCEPT ![f] = [version |-> user_writes', edited |-> 0]]
          /\ meddled' = meddled \cup {f}
    BY DEF Nav!UserWrites
  <1>3. user_writes' \in Nat
    BY <1>1 DEF NavInv, NavTypes
  <1>4. /\ texts' \in [Sources -> Content]
        /\ texts'[f].edited = 0
        /\ \A g \in Sources : g # f => texts'[g] = texts[g]
    BY <1>2, <1>3 DEF NavInv, NavTypes, Content
  <1>5. NavTypes'
    BY <1>1, <1>3, <1>4 DEF NavInv, NavTypes
  <1>6. PlannedInv'
    BY <1>1, <1>4 DEF NavInv, NavTypes, PlannedInv, Content
  <1>7. ReplacedInv'
    BY <1>1, <1>2, <1>4 DEF NavInv, NavTypes, ReplacedInv
  <1>8. Nav!WholeOrNothing'
    BY <1>1, <1>2, <1>4 DEF NavInv, NavTypes, Nav!WholeOrNothing
  <1>9. QED  BY <1>1, <1>5, <1>6, <1>7, <1>8 DEF NavInv

(* A workspace edit (_plan_workspace_edit, _snapshot, _commit, _restore)    *)
(* reaches all of its files or none, but for one that was replaced and      *)
(* could not be written back, and closes its checkpoint, whatever the user  *)
(* writes to other files, or to these before they are read again.           *)
THEOREM EditsAreWhole == Nav!NavSpec => []Nav!WholeOrNothing
  <1>1. NavInv /\ [Nav!NavNext]_(Nav!navVars) => NavInv'
    <2> SUFFICES ASSUME NavInv, [Nav!NavNext]_(Nav!navVars) PROVE NavInv'
      OBVIOUS
    <2>1. CASE UNCHANGED Nav!navVars
      BY <2>1 DEF Nav!navVars, NavInv, NavTypes, PlannedInv, ReplacedInv,
                  Nav!WholeOrNothing
    <2>2. QED
      BY <2>1, NavPlans, NavReads, NavReplaces, NavEnds, NavUser DEF Nav!NavNext
  <1>2. NavInv => Nav!WholeOrNothing
    BY DEF NavInv
  <1>3. QED  BY <1>1, <1>2, NavStarts, PTL DEF Nav!NavSpec

-----------------------------------------------------------------------------
(* The commit tool (mjj/tools/commit.py). *)

\* From the staging on, unless others staged or wrote: the index holds what
\* was asked for as the work tree has it, and the head's content elsewhere.
StagedInv ==
  committing # "idle" /\ ~foreign =>
    /\ \A f \in Tracked : f \in asked => git_index[f] = work[f]
    /\ \A f \in Tracked : f \notin asked => git_index[f] = head[f]

\* The head is the one the commit started from, and what was listed is all
\* that is staged, unless a name was dropped as a renaming.
ListedInv ==
  /\ committing # "idle" => head = base
  /\ committing = "listed" /\ ~foreign /\ ~paired =>
       names = {f \in Tracked : git_index[f] # head[f]}

GitInv ==
  /\ changed \subseteq Tracked /\ asked \subseteq Tracked
  /\ foreign \in BOOLEAN
  /\ committing # "idle" => answer_of # "committed"
  /\ StagedInv /\ ListedInv /\ Git!CommitTells

LEMMA GitStarts == Git!GitInit => GitInv
  BY DEF Git!GitInit, GitInv, StagedInv, ListedInv, Git!CommitTells

\* What the user does while a commit is under way marks it.
LEMMA GitWrites == ASSUME GitInv, Git!Edit \/ Git!UserStages PROVE GitInv'
  <1>1. CASE Git!Edit
    <2>1. PICK f \in Tracked :
            \/ committing = "idle" /\ UNCHANGED foreign
            \/ foreign'
      BY <1>1 DEF Git!Edit
    <2>2. UNCHANGED <<head, git_index, committing, asked, names, base, paired>>
      BY <1>1 DEF Git!Edit
    <2>3. answer_of' = "none" /\ foreign' \in BOOLEAN /\ changed' \subseteq Tracked
      BY <1>1 DEF Git!Edit, GitInv
    <2>4. QED
      BY <2>1, <2>2, <2>3 DEF GitInv, StagedInv, ListedInv, Git!CommitTells
  <1>2. CASE Git!UserStages
    <2>1. /\ foreign' = TRUE /\ answer_of' = "none"
          /\ UNCHANGED <<head, changed, committing, asked, base>>
      BY <1>2 DEF Git!UserStages
    <2>2. QED  BY <2>1 DEF GitInv, StagedInv, ListedInv, Git!CommitTells
  <1>3. QED  BY <1>1, <1>2

\* The staging takes what is asked for from the work tree; the rest of the
\* index is the head's, or the commit is marked.
LEMMA GitCommits == ASSUME GitInv, Git!commit PROVE GitInv'
  <1>1. /\ foreign' = (git_index # head) /\ base' = head
        /\ answer_of' \in {"none", "refused"} /\ committing' \in {"idle", "added"}
        /\ asked' \subseteq Tracked
        /\ UNCHANGED <<head, work, changed>>
    BY DEF Git!commit, Git!Refuse, Git!_changed_names, GitInv
  <1>2. committing' = "added" => git_index' = Git!Staged(asked')
    BY DEF Git!commit, Git!Refuse
  <1>3. StagedInv'
    BY <1>1, <1>2 DEF StagedInv, Git!Staged
  <1>4. QED  BY <1>1, <1>3 DEF GitInv, ListedInv, Git!CommitTells

LEMMA GitLists == ASSUME GitInv, Git!diff_cached PROVE GitInv'
  <1>1. /\ UNCHANGED <<head, git_index, work, changed, asked, base, foreign>>
        /\ committing = "added" /\ committing' \in {"idle", "listed"}
        /\ answer_of' = "refused" \/ answer_of' = answer_of
        /\ names' = Git!Cached /\ paired' = (Git!Renamed # {})
    BY DEF Git!diff_cached, Git!Refuse, Git!Trees
  <1>2. ~paired' => names' = {f \in Tracked : git_index[f] # head[f]}
    BY <1>1 DEF Git!Cached
  <1>3. QED  BY <1>1, <1>2 DEF GitInv, StagedInv, ListedInv, Git!CommitTells

\* The names are among those asked for: elsewhere the index is the head.
LEMMA GitTakes == ASSUME GitInv, Git!git_commit PROVE GitInv'
  <1>1. /\ committing = "listed" /\ committing' = "idle"
        /\ UNCHANGED <<work, changed, asked, names, base, paired, foreign>>
    BY DEF Git!git_commit, Git!Refuse
  <1>2. CASE answer_of' = "committed" /\ ~foreign /\ ~paired
    <2>1. head' = [f \in Tracked |-> IF f \in names THEN work[f] ELSE head[f]]
      BY <1>2 DEF Git!git_commit, Git!Refuse
    <2>2. names = {f \in Tracked : git_index[f] # head[f]} /\ head = base
      BY <1>1, <1>2 DEF GitInv, ListedInv
    <2>3. \A f \in Tracked :
            git_index[f] = IF f \in asked THEN work[f] ELSE head[f]
      BY <1>1, <1>2 DEF GitInv, StagedInv
    <2>4. names \subseteq asked
      BY <2>2, <2>3
    <2>5. \A f \in Tracked : head'[f] # base[f] <=> f \in names
      BY <2>1, <2>2, <2>3
    <2>6. \A f \in asked : head'[f] = work[f]
      BY <2>1, <2>2, <2>3 DEF GitInv
    <2>7. {f \in Tracked : head'[f] # base'[f]} = names'
      BY <1>1, <2>2, <2>5
    <2>8. Git!CommitTells'
      BY <1>1, <2>4, <2>6, <2>7 DEF Git!CommitTells
    <2>9. QED  BY <1>1, <2>8 DEF GitInv, StagedInv, ListedInv
  <1>3. CASE ~(answer_of' = "committed" /\ ~foreign /\ ~paired)
    BY <1>1, <1>3 DEF GitInv, StagedInv, ListedInv, Git!CommitTells
  <1>4. QED  BY <1>2, <1>3

(* commit: unless other changes were staged before, the user wrote          *)
(* meanwhile or git saw a renaming, what the tool reports is what it        *)
(* committed, all of it was asked for, and all that was asked for is in the *)
(* head as in the tree.                                                     *)
THEOREM CommitsTell == Git!GitSpec => []Git!CommitTells
  <1>1. GitInv /\ [Git!GitNext]_(Git!gitVars) => GitInv'
    <2> SUFFICES ASSUME GitInv, [Git!GitNext]_(Git!gitVars) PROVE GitInv'
      OBVIOUS
    <2>1. CASE Git!check
      <3>1. /\ committing = "idle" /\ answer_of' \in {"refused", "checked"}
            /\ changed' \subseteq Tracked
            /\ UNCHANGED <<committing, asked, foreign>>
        BY <2>1 DEF Git!check, Git!_changed_names, GitInv
      <3>2. QED  BY <3>1 DEF GitInv, StagedInv, ListedInv, Git!CommitTells
    <2>2. CASE UNCHANGED Git!gitVars
      BY <2>2 DEF Git!gitVars, GitInv, StagedInv, ListedInv, Git!CommitTells
    <2>3. QED
      BY <2>1, <2>2, GitWrites, GitCommits, GitLists, GitTakes DEF Git!GitNext
  <1>2. GitInv => Git!CommitTells
    BY DEF GitInv
  <1>3. QED  BY <1>1, <1>2, GitStarts, PTL DEF Git!GitSpec

-----------------------------------------------------------------------------
(* Sub-agents (mjj/subagents.py). *)

\* While a worker's task is under way its worktree is there; when the task
\* closes without an error, a ref holds what Git saw.
Worked == edited \cup hidden

WorkInv ==
  \A t \in Worked :
    /\ t \in Task /\ role[t] = "worker" /\ child[t] # "creating"
    /\ child[t] \in {"running", "capturing", "committing", "naming", "closing"} =>
         tree[t] = "live"
    /\ child[t] = "closing" => t \in error \/ (t \in edited => t \in ref)

SubInv ==
  /\ child = [t \in Task |-> child[t]] /\ tree = [t \in Task |-> tree[t]]
  /\ \A t \in Task : child[t] = "running" => tree[t] = "live"
  /\ WorkInv
  /\ Sub!WorkKept

LEMMA TaskMoves ==
  ASSUME SubInv, NEW t \in Task, NEW from, NEW to, Sub!Step(t, from, to)
  PROVE  /\ child[t] = from /\ child'[t] = to
         /\ \A u \in Task : u # t => child'[u] = child[u]
         /\ child' = [u \in Task |-> child'[u]]
  BY DEF SubInv, Sub!Step

\* A child goes on in its worktree; to be closed without an error its task
\* has a ref.
LEMMA TaskGoesOn ==
  ASSUME SubInv, NEW t \in Task, NEW from, NEW to, Sub!Step(t, from, to),
         UNCHANGED <<tree, edited, hidden, role>>,
         ref' \in {ref, ref \cup {t}}, error' \in {error, error \cup {t}},
         from \in {"running", "capturing", "committing", "naming"},
         to \in {"capturing", "committing", "naming", "closing"},
         to = "closing" /\ t \in Worked => t \in error' \/ (t \in edited => t \in ref')
  PROVE  SubInv'
  <1>1. /\ child[t] = from /\ child'[t] = to
        /\ \A u \in Task : u # t => child'[u] = child[u]
        /\ child' = [u \in Task |-> child'[u]]
    BY TaskMoves
  <1>2. Worked' = Worked
    BY DEF Worked
  <1>3. \A u \in Worked : u \in Task /\ role[u] = "worker" /\ child[u] # "creating"
    BY DEF SubInv, WorkInv
  <1>4. t \in Worked => tree[t] = "live"
    BY <1>1 DEF SubInv, WorkInv
  <1>5. \A u : u # t => (u \in ref' <=> u \in ref) /\ (u \in error' <=> u \in error)
    OBVIOUS
  <1>6. WorkInv'
    <2> SUFFICES ASSUME NEW u \in Worked
                 PROVE  /\ u \in Task /\ role[u] = "worker" /\ child'[u] # "creating"
                        /\ child'[u] \in {"running", "capturing", "committing",
                                          "naming", "closing"} => tree[u] = "live"
                        /\ child'[u] = "closing" =>
                             u \in error' \/ (u \in edited => u \in ref')
      BY <1>2 DEF WorkInv
    <2>1. CASE u = t
      BY <1>1, <1>3, <1>4, <2>1
    <2>2. CASE u # t
      <3>1. child'[u] = child[u]
        BY <1>1, <1>3, <2>2
      <3>2. QED  BY <1>5, <2>2, <3>1 DEF SubInv, WorkInv
    <2>3. QED  BY <2>1, <2>2
  <1>7. Sub!WorkKept'
    <2> SUFFICES ASSUME NEW u \in Worked, child'[u] \in {"done", "off"}
                 PROVE  \/ tree[u] \in {"live", "retained"}
                        \/ u \notin error' /\ (u \in edited => u \in ref')
      BY DEF Sub!WorkKept, Worked
    <2>1. u # t /\ child'[u] = child[u]
      BY <1>1, <1>3
    <2>2. QED  BY <1>5, <2>1 DEF SubInv, Sub!WorkKept, Worked
  <1>8. \A u \in Task : child'[u] = "running" => tree[u] = "live"
    BY <1>1 DEF SubInv
  <1>9. QED  BY <1>1, <1>6, <1>7, <1>8 DEF SubInv

\* The steps of a child that leave the worktrees alone.
LEMMA TaskEdits ==
  ASSUME SubInv, NEW t \in Task, Sub!Edit(t) \/ Sub!EditUnseen(t)
  PROVE  SubInv'
  <1>1. /\ UNCHANGED <<child, tree, ref, error, role>> /\ role[t] = "worker"
        /\ child[t] \in {"running", "capturing", "committing", "naming", "closing"}
        /\ Worked' = Worked \cup {t}
    BY DEF Sub!Edit, Sub!EditUnseen, Sub!Same, Worked
  <1>2. tree[t] = "live"
    BY DEF Sub!Edit, Sub!EditUnseen, SubInv
  <1>3. /\ child[t] = "closing" => edited' = edited
        /\ \A u \in Task : u # t => (u \in edited' <=> u \in edited)
    BY DEF Sub!Edit, Sub!EditUnseen
  <1>4. child[t] = "closing" => t \in error \/ (t \in edited => t \in ref)
    BY DEF SubInv, WorkInv, Worked
  <1>5. \A u \in Worked : u \in Task
    BY DEF SubInv, WorkInv
  <1>6. WorkInv'
    BY <1>1, <1>2, <1>3, <1>4, <1>5 DEF SubInv, WorkInv
  <1>7. Sub!WorkKept'
    <2> SUFFICES ASSUME NEW u \in Worked', child[u] \in {"done", "off"}
                 PROVE  \/ tree[u] \in {"live", "retained"}
                        \/ u \notin error /\ (u \in edited' => u \in ref)
      BY <1>1 DEF Sub!WorkKept, Worked
    <2>1. u # t /\ u \in Worked
      BY <1>1
    <2>2. QED  BY <1>3, <1>5, <2>1 DEF SubInv, Sub!WorkKept, Worked
  <1>8. QED  BY <1>1, <1>6, <1>7 DEF SubInv

LEMMA TaskWorks ==
  ASSUME SubInv, NEW t \in Task,
         Sub!_final_answer(t) \/ Sub!capture(t) \/ Sub!_commit(t) \/ Sub!update_ref(t)
  PROVE  SubInv'
  <1>1. CASE Sub!_final_answer(t)
    <2>1. UNCHANGED <<tree, edited, hidden, ref, role>> /\ error' \in {error, error \cup {t}}
      BY <1>1 DEF Sub!_final_answer, Sub!Same, Sub!Fails
    <2>2. PICK to : /\ Sub!Step(t, "running", to)
                    /\ to \in {"capturing", "closing"}
                    /\ to = "closing" => t \in error' \/ role[t] # "worker"
      BY <1>1 DEF Sub!_final_answer, Sub!Fails
    <2>3. t \in Worked => role[t] = "worker"
      BY DEF SubInv, WorkInv
    <2>4. QED
      BY <2>1, <2>2, <2>3, TaskGoesOn
  <1>2. CASE Sub!capture(t)
    <2>1. UNCHANGED <<tree, edited, hidden, ref, role>> /\ error' \in {error, error \cup {t}}
      BY <1>2 DEF Sub!capture, Sub!Same, Sub!Fails
    <2>2. PICK to : /\ Sub!Step(t, "capturing", to)
                    /\ to \in {"committing", "closing"}
                    /\ to = "closing" => t \in error' \/ t \notin edited
      BY <1>2 DEF Sub!capture, Sub!Fails
    <2>3. QED
      BY <2>1, <2>2, TaskGoesOn
  <1>3. CASE Sub!_commit(t)
    <2>1. UNCHANGED <<tree, edited, hidden, ref, role>> /\ error' \in {error, error \cup {t}}
      BY <1>3 DEF Sub!_commit, Sub!Same, Sub!Fails
    <2>2. PICK to : /\ Sub!Step(t, "committing", to)
                    /\ to \in {"naming", "closing"}
                    /\ to = "closing" => t \in error'
      BY <1>3 DEF Sub!_commit, Sub!Fails
    <2>3. QED
      BY <2>1, <2>2, TaskGoesOn
  <1>4. CASE Sub!update_ref(t)
    <2>1. /\ UNCHANGED <<tree, edited, hidden, role>>
          /\ error' \in {error, error \cup {t}} /\ ref' \in {ref, ref \cup {t}}
      BY <1>4 DEF Sub!update_ref, Sub!Same, Sub!Fails
    <2>2. Sub!Step(t, "naming", "closing") /\ (t \in ref' \/ t \in error')
      BY <1>4 DEF Sub!update_ref, Sub!Fails
    <2>3. QED
      BY <2>1, <2>2, TaskGoesOn
  <1>5. QED  BY <1>1, <1>2, <1>3, <1>4

LEMMA TaskCreates == ASSUME SubInv, NEW t \in Task, Sub!create(t) PROVE SubInv'
  <1>1. UNCHANGED <<edited, hidden, ref, role>> /\ error' \in {error, error \cup {t}}
    BY DEF Sub!create, Sub!Same, Sub!Fails
  <1>2. child[t] = "creating" /\ t \notin Worked
    BY DEF Sub!create, Sub!Step, SubInv, WorkInv
  <1>3. \A u \in Worked : u \in Task
    BY DEF SubInv, WorkInv
  <1>4. CASE Sub!Step(t, "creating", "running") /\ tree' = [tree EXCEPT ![t] = "live"]
    <2>1. /\ tree'[t] = "live" /\ tree' = [u \in Task |-> tree'[u]]
          /\ \A u \in Task : u # t => tree'[u] = tree[u]
      BY <1>4 DEF SubInv
    <2>2. /\ child'[t] = "running" /\ child' = [u \in Task |-> child'[u]]
          /\ \A u \in Task : u # t => child'[u] = child[u]
      BY <1>4, TaskMoves
    <2>3. Worked' = Worked
      BY <1>1 DEF Worked
    <2>4. \A u : u # t => (u \in error' <=> u \in error)
      BY <1>1
    <2>5. \A u \in Worked : u # t /\ child'[u] = child[u] /\ tree'[u] = tree[u]
      BY <1>2, <1>3, <2>1, <2>2
    <2>6. WorkInv'
      BY <1>1, <2>3, <2>4, <2>5 DEF SubInv, WorkInv
    <2>7. Sub!WorkKept'
      <3> SUFFICES ASSUME NEW u \in Worked, child'[u] \in {"done", "off"}
                   PROVE  \/ tree'[u] \in {"live", "retained"}
                          \/ u \notin error' /\ (u \in edited => u \in ref)
        BY <1>1 DEF Sub!WorkKept, Worked
      <3>1. QED  BY <2>4, <2>5 DEF SubInv, Sub!WorkKept, Worked
    <2>8. \A u \in Task : child'[u] = "running" => tree'[u] = "live"
      BY <2>1, <2>2 DEF SubInv
    <2>9. QED  BY <2>1, <2>2, <2>6, <2>7, <2>8 DEF SubInv
  <1>5. CASE Sub!Step(t, "creating", "closing") /\ UNCHANGED tree
    BY <1>1, <1>2, <1>3, <1>5, TaskMoves DEF SubInv, WorkInv, Sub!WorkKept, Worked
  <1>6. QED  BY <1>4, <1>5 DEF Sub!create

\* A worker's worktree is removed only if its task has no error: then a ref
\* of the parent holds what Git saw.
LEMMA TaskCloses == ASSUME SubInv, NEW t \in Task, Sub!close(t) PROVE SubInv'
  <1>1. UNCHANGED <<edited, hidden, ref, role>> /\ error' \in {error, error \cup {t}}
    BY DEF Sub!close, Sub!Same, Sub!Fails
  <1>2. Sub!Step(t, "closing", "done")
    BY DEF Sub!close
  <1>3. /\ tree' = [u \in Task |-> tree'[u]]
        /\ \A u \in Task : u # t => tree'[u] = tree[u]
    BY DEF Sub!close, SubInv
  <1>4. t \in Worked => \/ tree'[t] \in {"live", "retained"}
                        \/ t \notin error' /\ (t \in edited => t \in ref)
    <2>1. ASSUME t \in Worked PROVE /\ role[t] = "worker" /\ tree[t] = "live"
                                    /\ t \in error \/ (t \in edited => t \in ref)
      BY <1>2, <2>1, TaskMoves DEF SubInv, WorkInv
    <2>2. tree = [u \in Task |-> tree[u]]
      BY DEF SubInv
    <2>3. QED  BY <2>1, <2>2 DEF Sub!close
  <1>5. \A u \in Worked : u \in Task
    BY DEF SubInv, WorkInv
  <1>6. QED
    BY <1>1, <1>2, <1>3, <1>4, <1>5, TaskMoves DEF SubInv, WorkInv, Sub!WorkKept, Worked

(* A worker's task: whichever command of Git fails, and whatever the child  *)
(* answered, its worktree is left, or it has no error and what Git saw of   *)
(* its changes is held by a ref of the parent's repository.                 *)
THEOREM WorkIsKept == Sub!SubSpec => []Sub!WorkKept
  <1>1. Sub!SubInit => SubInv
    BY DEF Sub!SubInit, SubInv, WorkInv, Sub!WorkKept, Worked
  <1>2. SubInv /\ [Sub!SubNext]_(Sub!subVars) => SubInv'
    <2> SUFFICES ASSUME SubInv, [Sub!SubNext]_(Sub!subVars) PROVE SubInv'
      OBVIOUS
    <2>1. CASE Sub!update_plan
      BY <2>1 DEF Sub!update_plan, SubInv, WorkInv, Sub!WorkKept, Worked
    <2>2. CASE Sub!delegate
      BY <2>2 DEF Sub!delegate, SubInv, WorkInv, Sub!WorkKept, Worked
    <2>3. CASE Sub!Collect
      <3>1. /\ \A t \in Task : child[t] = "done"
            /\ child' = [t \in Task |-> "off"]
            /\ UNCHANGED <<role, tree, edited, hidden, ref, error>>
        BY <2>3 DEF Sub!Collect
      <3>2. QED  BY <3>1 DEF SubInv, WorkInv, Sub!WorkKept, Worked
    <2>4. CASE UNCHANGED Sub!subVars
      BY <2>4 DEF Sub!subVars, SubInv, WorkInv, Sub!WorkKept, Worked
    <2>5. QED
      BY <2>1, <2>2, <2>3, <2>4, TaskCreates, TaskEdits, TaskWorks, TaskCloses DEF Sub!SubNext
  <1>3. SubInv => Sub!WorkKept
    BY DEF SubInv
  <1>4. QED  BY <1>1, <1>2, <1>3, PTL DEF Sub!SubSpec

-----------------------------------------------------------------------------
(* The file of provider keys (mjj/auth.py). *)

\* What a file of keys may hold.
Docs == UNION {[D -> Key] : D \in SUBSET Provider}

KeyJob ==
  [at : {"rest", "open", "write", "replace"}, kind : {"none", "save", "remove"},
   provider : Provider \cup {"none"}, key : Key \cup {0},
   doc : Docs, node : {0} \cup Keys!Node]

KeyTypes ==
  /\ named \in [{"auth.json", "auth.json.tmp"} -> {0} \cup Keys!Node]
  /\ nodes = [n \in Keys!Node |-> nodes[n]]
  /\ keyjob \in [Process -> KeyJob]
  /\ keys \in Docs

\* No two changes are under way, and the two names are two files.
AloneInFile ==
  /\ \A p, q \in Process : keyjob[p].at # "rest" /\ keyjob[q].at # "rest" => p = q
  /\ named["auth.json"] = named["auth.json.tmp"] => named["auth.json"] = 0

\* The file holds what the changes so far leave, except while a removal
\* rewrites it.
HeldInv ==
  \/ Keys!_stored_provider_keys = keys
  \/ \E p \in Process : keyjob[p].at = "write" /\ keyjob[p].kind = "remove"

\* A change under way has read that, and what it writes is its own.
ChangeInv(job) ==
  /\ job.at \in {"rest", "open"} => job.node = 0
  /\ job.at # "rest" => job.kind \in {"save", "remove"} /\ job.doc = Keys!Done(job)
  /\ job.at = "write" =>
       /\ job.node \in Keys!Node /\ job.node = named[Keys!Target(job.kind)]
       /\ nodes[job.node] = Keys!Torn
  /\ job.at = "replace" =>
       /\ job.kind = "save" /\ job.node = 0 /\ named["auth.json.tmp"] # 0
       /\ nodes[named["auth.json.tmp"]] = job.doc

FileInv ==
  /\ KeyTypes /\ ~unmade /\ AloneInFile /\ HeldInv
  /\ \A p \in Process : ChangeInv(keyjob[p])

\* Overlapping changes, and a removal that died as it wrote, are excepted.
KeyInv == ~racing /\ ~cut => FileInv

LEMMA DocsWith ==
  ASSUME NEW doc \in Docs, NEW provider \in Provider, NEW key \in Key
  PROVE  Keys!With(doc, provider, key) \in Docs
  <1>1. PICK D \in SUBSET Provider : doc \in [D -> Key]
    BY DEF Docs
  <1>2. Keys!With(doc, provider, key) \in [D \cup {provider} -> Key]
    BY <1>1 DEF Keys!With
  <1>3. QED  BY <1>2 DEF Docs

LEMMA DocsWithout ==
  ASSUME NEW doc \in Docs, NEW provider
  PROVE  Keys!Without(doc, provider) \in Docs
  <1>1. PICK D \in SUBSET Provider : doc \in [D -> Key]
    BY DEF Docs
  <1>2. Keys!Without(doc, provider) \in [D \ {provider} -> Key]
    BY <1>1 DEF Keys!Without, Keys!Restrict
  <1>3. QED  BY <1>2 DEF Docs

LEMMA DocsWhole ==
  ASSUME "torn" \notin Provider, NEW doc \in Docs PROVE doc # Keys!Torn
  <1>1. DOMAIN doc \subseteq Provider
    BY DEF Docs
  <1>2. DOMAIN Keys!Torn = {"torn"}
    BY DEF Keys!Torn
  <1>3. QED  BY <1>1, <1>2

LEMMA NoKeysIsDoc == Keys!NoKeys \in Docs
  <1>1. Keys!NoKeys \in [{} -> Key]
    BY DEF Keys!NoKeys
  <1>2. QED  BY <1>1 DEF Docs

LEMMA KeyStarts == Keys!KeyInit => KeyInv
  <1> SUFFICES ASSUME Keys!KeyInit PROVE FileInv
    BY DEF KeyInv
  <1>1. KeyTypes
    <2>1. Keys!Rest \in KeyJob
      BY NoKeysIsDoc DEF Keys!Rest, KeyJob
    <2>2. QED  BY <2>1, NoKeysIsDoc DEF Keys!KeyInit, KeyTypes
  <1>2. \A p \in Process : keyjob[p].at = "rest" /\ keyjob[p].node = 0
    BY DEF Keys!KeyInit, Keys!Rest
  <1>3. HeldInv
    BY DEF HeldInv, Keys!KeyInit, Keys!_stored_provider_keys, Keys!Document
  <1>4. AloneInFile /\ ~unmade
    BY <1>2 DEF AloneInFile, Keys!KeyInit
  <1>5. QED  BY <1>1, <1>2, <1>3, <1>4 DEF FileInv, ChangeInv

\* A step of one process: its job is another, the rest are as they were.
JobIs(p, job) ==
  /\ keyjob' = [keyjob EXCEPT ![p] = job] /\ job \in KeyJob

LEMMA KeyJobMoves ==
  ASSUME FileInv, NEW p \in Process, NEW job, JobIs(p, job)
  PROVE  /\ keyjob' \in [Process -> KeyJob] /\ keyjob'[p] = job
         /\ \A q \in Process : q # p => keyjob'[q] = keyjob[q]
  BY DEF FileInv, KeyTypes, JobIs

\* When one process changes the file, the others are at rest.
LEMMA OthersRest ==
  ASSUME FileInv, NEW p \in Process, NEW job, JobIs(p, job),
         keyjob[p].at # "rest" \/ Keys!Others(p) = {} \/ job.at = "rest"
  PROVE  /\ \A q, r \in Process :
              keyjob'[q].at # "rest" /\ keyjob'[r].at # "rest" => q = r
         /\ job.at # "rest" =>
              \A q \in Process : q # p => keyjob'[q].at = "rest" /\ keyjob'[q].node = 0
  BY KeyJobMoves DEF FileInv, AloneInFile, ChangeInv, Keys!Others

LEMMA KeyReads ==
  ASSUME KeyInv, NEW p \in Process, Keys!read_text(p) PROVE KeyInv'
  <1> SUFFICES ASSUME ~racing', ~cut' PROVE FileInv'
    BY DEF KeyInv
  <1>1. FileInv /\ Keys!Others(p) = {} /\ keyjob[p].at = "rest"
    BY DEF KeyInv, Keys!read_text
  <1>2. UNCHANGED <<nodes, named, keys, unmade>>
    BY DEF Keys!read_text
  <1>3. Keys!_stored_provider_keys = keys /\ keys \in Docs
    BY <1>1 DEF FileInv, HeldInv, KeyTypes, Keys!Others
  <1>4. PICK job \in KeyJob :
          /\ JobIs(p, job) /\ job.at = "open" /\ job.node = 0
          /\ job.kind \in {"save", "remove"} /\ job.doc = Keys!Done(job)
    <2>1. PICK kind \in {"save", "remove"}, provider \in Provider, key \in Key :
            keyjob' = [keyjob EXCEPT ![p] = [at |-> "open", kind |-> kind,
              provider |-> provider, key |-> key,
              doc |-> IF kind = "save" THEN Keys!With(keys, provider, key)
                      ELSE Keys!Without(keys, provider),
              node |-> 0]]
      BY <1>3 DEF Keys!read_text
    <2> DEFINE doc == IF kind = "save" THEN Keys!With(keys, provider, key)
                      ELSE Keys!Without(keys, provider)
               job == [at |-> "open", kind |-> kind, provider |-> provider,
                       key |-> key, doc |-> doc, node |-> 0]
    <2>2. doc \in Docs
      BY <1>3, DocsWith, DocsWithout
    <2>3. job.doc = Keys!Done(job)
      BY DEF Keys!Done
    <2> HIDE DEF doc
    <2>4. job \in KeyJob
      BY <2>2 DEF KeyJob
    <2>5. JobIs(p, job)
      BY <2>1, <2>4 DEF JobIs, doc
    <2>6. QED  BY <2>3, <2>4, <2>5
  <1>5. ChangeInv(job)'
    BY <1>2, <1>4 DEF ChangeInv, Keys!Done
  <1>6. HeldInv'
    BY <1>2, <1>3 DEF HeldInv, Keys!_stored_provider_keys, Keys!Document
  <1>7. /\ keyjob' \in [Process -> KeyJob] /\ keyjob'[p] = job
        /\ \A q, r \in Process :
             keyjob'[q].at # "rest" /\ keyjob'[r].at # "rest" => q = r
        /\ \A q \in Process : q # p => keyjob'[q].at = "rest" /\ keyjob'[q].node = 0
    BY <1>1, <1>4, KeyJobMoves, OthersRest
  <1>8. AloneInFile'
    BY <1>1, <1>2, <1>7 DEF AloneInFile, FileInv
  <1>9. \A q \in Process : ChangeInv(keyjob[q])'
    BY <1>5, <1>7 DEF ChangeInv
  <1>10. QED
    BY <1>1, <1>2, <1>6, <1>7, <1>8, <1>9 DEF FileInv, KeyTypes

\* While one process works on the file, a third node is free.
LEMMA NodeIsFree ==
  ASSUME IsFiniteSet(Process), FileInv,
         NEW p \in Process, keyjob[p].at = "open"
  PROVE  (CHOOSE n \in Keys!Node \ Keys!InUse : TRUE) \in Keys!Node \ Keys!InUse
  <1>1. \A q \in Process : keyjob[q].node = 0
    BY DEF FileInv, AloneInFile, ChangeInv
  <1>2. Keys!InUse \subseteq {0, named["auth.json"], named["auth.json.tmp"]}
    BY <1>1 DEF Keys!InUse, FileInv, KeyTypes
  <1>3. {1, 2, 3} \subseteq Keys!Node
    <2>1. Cardinality(Process) \in Nat \ {0}
      BY FS_CardinalityType, FS_EmptySet
    <2>2. Keys!Cardinality(Process) = Cardinality(Process)
      BY DEF Keys!Cardinality, Cardinality
    <2>3. QED  BY <2>1, <2>2 DEF Keys!Node
  <1>4. \E n \in {1, 2, 3} : n \notin {0, named["auth.json"], named["auth.json.tmp"]}
    OBVIOUS
  <1>5. \E n : n \in Keys!Node \ Keys!InUse
    BY <1>2, <1>3, <1>4
  <1>6. QED  BY <1>5

LEMMA KeyOpens ==
  ASSUME IsFiniteSet(Process), KeyInv,
         NEW p \in Process, Keys!open(p)
  PROVE  KeyInv'
  <1> SUFFICES ASSUME ~racing', ~cut' PROVE FileInv'
    BY DEF KeyInv
  <1>1. FileInv /\ keyjob[p].at = "open" /\ UNCHANGED <<keys, unmade>>
    BY DEF KeyInv, Keys!open
  <1> DEFINE name == Keys!Target(keyjob[p].kind)
  <1>2. name \in {"auth.json", "auth.json.tmp"}
    BY DEF Keys!Target
  <1>3. PICK node \in Keys!Node :
          /\ named' = [named EXCEPT ![name] = node]
          /\ nodes' = [nodes EXCEPT ![node] = Keys!Torn]
          /\ keyjob' = [keyjob EXCEPT ![p].node = node, ![p].at = "write"]
          /\ node = named[name] \/ node \notin Keys!InUse
    <2> DEFINE node == IF named[name] # 0 THEN named[name]
                       ELSE CHOOSE n \in Keys!Node \ Keys!InUse : TRUE
    <2>1. node \in Keys!Node /\ (node = named[name] \/ node \notin Keys!InUse)
      BY <1>1, <1>2, NodeIsFree DEF FileInv, KeyTypes
    <2>2. /\ named' = [named EXCEPT ![name] = node]
          /\ nodes' = [nodes EXCEPT ![node] = Keys!Torn]
          /\ keyjob' = [keyjob EXCEPT ![p].node = node, ![p].at = "write"]
      BY DEF Keys!open
    <2> HIDE DEF node
    <2>3. QED  BY <2>1, <2>2
  <1>4. PICK job \in KeyJob :
          /\ JobIs(p, job) /\ job.at = "write" /\ job.node = node
          /\ job.kind = keyjob[p].kind /\ job.doc = keyjob[p].doc
          /\ job.provider = keyjob[p].provider /\ job.key = keyjob[p].key
    <2>1. keyjob[p] \in KeyJob
      BY <1>1 DEF FileInv, KeyTypes
    <2> DEFINE job == [keyjob[p] EXCEPT !.node = node, !.at = "write"]
    <2>2. /\ job \in KeyJob /\ job.at = "write" /\ job.node = node
          /\ job.kind = keyjob[p].kind /\ job.doc = keyjob[p].doc
          /\ job.provider = keyjob[p].provider /\ job.key = keyjob[p].key
      BY <2>1 DEF KeyJob
    <2>3. JobIs(p, job)
      BY <1>3, <2>2 DEF JobIs
    <2>4. QED  BY <2>2, <2>3
  <1>5. /\ keyjob' \in [Process -> KeyJob] /\ keyjob'[p] = job
        /\ \A q, r \in Process :
             keyjob'[q].at # "rest" /\ keyjob'[r].at # "rest" => q = r
        /\ \A q \in Process : q # p => keyjob'[q].at = "rest" /\ keyjob'[q].node = 0
    BY <1>1, <1>4, KeyJobMoves, OthersRest
  <1>6. /\ ChangeInv(keyjob[p])
        /\ job.kind \in {"save", "remove"} /\ job.doc = Keys!Done(keyjob[p])
    BY <1>1, <1>4 DEF FileInv, ChangeInv
  <1>7. ChangeInv(job)'
    <2>1. job.doc = Keys!Done(job)'
      BY <1>1, <1>4, <1>6 DEF Keys!Done
    <2>2. nodes'[node] = Keys!Torn /\ node = named'[Keys!Target(job.kind)]
      BY <1>1, <1>2, <1>3, <1>4 DEF FileInv, KeyTypes
    <2>3. QED  BY <1>4, <1>6, <2>1, <2>2 DEF ChangeInv, Keys!Torn
  <1>8. \A q \in Process : ChangeInv(keyjob[q])'
    BY <1>5, <1>7 DEF ChangeInv
  <1>9. \A other \in {"auth.json", "auth.json.tmp"} :
          other # name => named'[other] = named[other] /\ named[other] # node
    <2>1. node # 0
      BY DEF Keys!Node
    <2>2. named["auth.json"] = node /\ named["auth.json.tmp"] = node => FALSE
      BY <1>1, <2>1 DEF FileInv, AloneInFile
    <2>3. \A other \in {"auth.json", "auth.json.tmp"} : named[other] \in Keys!InUse
      BY <1>1 DEF FileInv, KeyTypes, Keys!InUse
    <2>4. \A other \in {"auth.json", "auth.json.tmp"} :
            other # name => named'[other] = named[other]
      BY <1>1, <1>3 DEF FileInv, KeyTypes
    <2> HIDE DEF name
    <2>5. QED  BY <1>2, <1>3, <2>2, <2>3, <2>4
  <1>10. AloneInFile'
    BY <1>1, <1>2, <1>3, <1>5, <1>9 DEF AloneInFile, FileInv, KeyTypes
  <1>11. HeldInv'
    <2>1. CASE job.kind = "remove"
      BY <1>4, <1>5, <2>1 DEF HeldInv
    <2>2. CASE job.kind = "save"
      <3>1. named'["auth.json"] = named["auth.json"] /\ named["auth.json"] # node
        BY <1>4, <1>9, <2>2 DEF Keys!Target
      <3>2. Keys!Document' = Keys!Document
        BY <1>1, <1>3, <3>1 DEF Keys!Document, FileInv, KeyTypes, Keys!Torn
      <3>3. Keys!_stored_provider_keys = keys
        BY <1>1 DEF FileInv, HeldInv, AloneInFile
      <3>4. QED  BY <1>1, <3>2, <3>3 DEF HeldInv, Keys!_stored_provider_keys, Keys!Torn, Keys!NoKeys
    <2>3. QED  BY <1>6, <2>1, <2>2
  <1>12. QED
    BY <1>1, <1>2, <1>3, <1>5, <1>8, <1>10, <1>11 DEF FileInv, KeyTypes

LEMMA KeyWrites ==
  ASSUME "torn" \notin Provider, KeyInv, NEW p \in Process, Keys!write_text(p)
  PROVE  KeyInv'
  <1> SUFFICES ASSUME ~racing', ~cut' PROVE FileInv'
    BY DEF KeyInv
  <1>1. /\ FileInv /\ keyjob[p].at = "write" /\ keyjob[p] \in KeyJob
        /\ UNCHANGED <<named, unmade>>
    BY DEF KeyInv, Keys!write_text, FileInv, KeyTypes
  <1> DEFINE old == keyjob[p]
             node == old.node
  <1>2. /\ old.kind \in {"save", "remove"} /\ old.doc = Keys!Done(old)
        /\ node \in Keys!Node /\ node = named[Keys!Target(old.kind)]
        /\ nodes[node] = Keys!Torn
    BY <1>1 DEF FileInv, ChangeInv
  <1>3. nodes' = [nodes EXCEPT ![node] = old.doc]
    BY <1>1, <1>2 DEF Keys!write_text
  <1>4. old.doc \in Docs /\ old.doc # Keys!Torn /\ node # 0
    BY <1>1, <1>2, DocsWhole DEF KeyJob, Keys!Node
  <1>5. /\ nodes'[node] = old.doc /\ nodes' = [n \in Keys!Node |-> nodes'[n]]
        /\ \A n : n # node => nodes'[n] = nodes[n]
    BY <1>1, <1>2, <1>3 DEF FileInv, KeyTypes
  <1>6. CASE old.kind = "remove"
    <2>1. /\ keyjob' = [keyjob EXCEPT ![p] = Keys!Rest] /\ keys' = old.doc
      BY <1>2, <1>6 DEF Keys!write_text
    <2>2. /\ Keys!Rest \in KeyJob /\ Keys!Rest.at = "rest" /\ Keys!Rest.node = 0
      BY NoKeysIsDoc DEF Keys!Rest, KeyJob
    <2>3. JobIs(p, Keys!Rest)
      BY <2>1, <2>2 DEF JobIs
    <2>4. /\ keyjob' \in [Process -> KeyJob]
          /\ \A q \in Process : keyjob'[q].at = "rest" /\ keyjob'[q].node = 0
      <3>1. /\ keyjob' \in [Process -> KeyJob] /\ keyjob'[p] = Keys!Rest
            /\ \A q \in Process : q # p => keyjob'[q] = keyjob[q]
        BY <1>1, <2>3, KeyJobMoves
      <3>2. \A q \in Process : q # p => keyjob[q].at = "rest" /\ keyjob[q].node = 0
        BY <1>1 DEF FileInv, AloneInFile, ChangeInv
      <3>3. QED  BY <2>2, <3>1, <3>2
    <2>5. Keys!_stored_provider_keys' = old.doc
      BY <1>1, <1>2, <1>4, <1>5, <1>6
         DEF Keys!_stored_provider_keys, Keys!Document, Keys!Target, Keys!Torn
    <2>6. HeldInv' /\ AloneInFile'
      BY <1>1, <2>1, <2>4, <2>5 DEF HeldInv, AloneInFile, FileInv
    <2>7. \A q \in Process : ChangeInv(keyjob[q])'
      BY <2>4 DEF ChangeInv
    <2>8. QED
      BY <1>1, <1>4, <1>5, <2>1, <2>4, <2>6, <2>7 DEF FileInv, KeyTypes
  <1>7. CASE old.kind = "save"
    <2>1. /\ keyjob' = [keyjob EXCEPT ![p] = [old EXCEPT !.at = "replace", !.node = 0]]
          /\ keys' = keys
      BY <1>7 DEF Keys!write_text
    <2>2. PICK job \in KeyJob :
            /\ JobIs(p, job) /\ job.at = "replace" /\ job.node = 0
            /\ job.kind = old.kind /\ job.doc = old.doc
            /\ job.provider = old.provider /\ job.key = old.key
      <3> DEFINE job == [old EXCEPT !.at = "replace", !.node = 0]
      <3>1. /\ job \in KeyJob /\ job.at = "replace" /\ job.node = 0
            /\ job.kind = old.kind /\ job.doc = old.doc
            /\ job.provider = old.provider /\ job.key = old.key
        BY <1>1 DEF KeyJob
      <3>2. JobIs(p, job)
        BY <2>1, <3>1 DEF JobIs
      <3>3. QED  BY <3>1, <3>2
    <2>3. /\ keyjob' \in [Process -> KeyJob] /\ keyjob'[p] = job
          /\ \A q, r \in Process :
               keyjob'[q].at # "rest" /\ keyjob'[r].at # "rest" => q = r
          /\ \A q \in Process : q # p => keyjob'[q].at = "rest" /\ keyjob'[q].node = 0
      BY <1>1, <2>2, KeyJobMoves, OthersRest
    <2>4. node = named["auth.json.tmp"] /\ named["auth.json"] # node
      BY <1>1, <1>2, <1>4, <1>7 DEF Keys!Target, FileInv, AloneInFile
    <2>5. ChangeInv(job)'
      <3>1. job.doc = Keys!Done(job)'
        BY <1>2, <2>1, <2>2 DEF Keys!Done
      <3>2. QED  BY <1>1, <1>4, <1>5, <1>7, <2>2, <2>4, <3>1 DEF ChangeInv
    <2>6. HeldInv'
      <3>1. Keys!Document' = Keys!Document
        BY <1>1, <1>5, <2>4 DEF Keys!Document, Keys!Torn
      <3>2. Keys!_stored_provider_keys = keys
        BY <1>1, <1>7 DEF FileInv, HeldInv, AloneInFile
      <3>3. QED
        BY <2>1, <3>1, <3>2 DEF HeldInv, Keys!_stored_provider_keys, Keys!Torn, Keys!NoKeys
    <2>7. AloneInFile' /\ \A q \in Process : ChangeInv(keyjob[q])'
      BY <1>1, <2>3, <2>5 DEF AloneInFile, ChangeInv, FileInv
    <2>8. QED
      BY <1>1, <1>5, <2>1, <2>3, <2>6, <2>7 DEF FileInv, KeyTypes
  <1>8. QED  BY <1>2, <1>6, <1>7

\* What is renamed is the document the save wrote.
LEMMA KeyReplaces ==
  ASSUME "torn" \notin Provider, KeyInv, NEW p \in Process, Keys!replace(p)
  PROVE  KeyInv'
  <1> SUFFICES ASSUME ~racing', ~cut' PROVE FileInv'
    BY DEF KeyInv
  <1>1. /\ FileInv /\ keyjob[p].at = "replace" /\ keyjob[p] \in KeyJob
        /\ UNCHANGED nodes
    BY DEF KeyInv, Keys!replace, FileInv, KeyTypes
  <1> DEFINE old == keyjob[p]
             new == named["auth.json.tmp"]
  <1>2. old.doc = Keys!Done(old) /\ new # 0 /\ nodes[new] = old.doc
    BY <1>1 DEF FileInv, ChangeInv
  <1>3. /\ named' = [name \in DOMAIN named |-> IF name = "auth.json" THEN new ELSE 0]
        /\ keys' = old.doc /\ unmade' = unmade
        /\ keyjob' = [keyjob EXCEPT ![p] = Keys!Rest]
    BY <1>2 DEF Keys!replace
  <1>4. /\ named'["auth.json"] = new /\ named'["auth.json.tmp"] = 0
        /\ named' \in [{"auth.json", "auth.json.tmp"} -> {0} \cup Keys!Node]
    BY <1>1, <1>3 DEF FileInv, KeyTypes
  <1>5. Keys!Rest \in KeyJob /\ Keys!Rest.at = "rest" /\ Keys!Rest.node = 0
    BY NoKeysIsDoc DEF Keys!Rest, KeyJob
  <1>6. /\ keyjob' \in [Process -> KeyJob]
        /\ \A q \in Process : keyjob'[q].at = "rest" /\ keyjob'[q].node = 0
    <2>1. JobIs(p, Keys!Rest)
      BY <1>3, <1>5 DEF JobIs
    <2>2. /\ keyjob' \in [Process -> KeyJob] /\ keyjob'[p] = Keys!Rest
          /\ \A q \in Process : q # p => keyjob'[q] = keyjob[q]
      BY <1>1, <2>1, KeyJobMoves
    <2>3. \A q \in Process : q # p => keyjob[q].at = "rest" /\ keyjob[q].node = 0
      BY <1>1 DEF FileInv, AloneInFile, ChangeInv
    <2>4. QED  BY <1>5, <2>2, <2>3
  <1>7. old.doc \in Docs /\ old.doc # Keys!Torn
    BY <1>1, DocsWhole DEF KeyJob
  <1>8. Keys!_stored_provider_keys' = old.doc
    BY <1>1, <1>2, <1>4, <1>7 DEF Keys!_stored_provider_keys, Keys!Document, Keys!Torn
  <1>9. HeldInv' /\ AloneInFile' /\ \A q \in Process : ChangeInv(keyjob[q])'
    BY <1>2, <1>3, <1>4, <1>6, <1>8 DEF HeldInv, AloneInFile, ChangeInv
  <1>10. QED
    BY <1>1, <1>3, <1>4, <1>6, <1>7, <1>9 DEF FileInv, KeyTypes

\* A process that dies leaves the file as it was, or marks it.
LEMMA KeyDies ==
  ASSUME KeyInv, NEW p \in Process, Keys!Die(p) PROVE KeyInv'
  <1> SUFFICES ASSUME ~racing', ~cut' PROVE FileInv'
    BY DEF KeyInv
  <1>1. /\ FileInv /\ keyjob[p].at # "rest"
        /\ ~(keyjob[p].at = "write" /\ keyjob[p].kind = "remove")
        /\ keyjob' = [keyjob EXCEPT ![p] = Keys!Rest]
        /\ UNCHANGED <<nodes, named, keys, unmade>>
    BY DEF KeyInv, Keys!Die
  <1>2. Keys!Rest \in KeyJob /\ Keys!Rest.at = "rest" /\ Keys!Rest.node = 0
    BY NoKeysIsDoc DEF Keys!Rest, KeyJob
  <1>3. /\ keyjob' \in [Process -> KeyJob]
        /\ \A q \in Process : keyjob'[q].at = "rest" /\ keyjob'[q].node = 0
    <2>1. JobIs(p, Keys!Rest)
      BY <1>1, <1>2 DEF JobIs
    <2>2. /\ keyjob' \in [Process -> KeyJob] /\ keyjob'[p] = Keys!Rest
          /\ \A q \in Process : q # p => keyjob'[q] = keyjob[q]
      BY <1>1, <2>1, KeyJobMoves
    <2>3. \A q \in Process : q # p => keyjob[q].at = "rest" /\ keyjob[q].node = 0
      BY <1>1 DEF FileInv, AloneInFile, ChangeInv
    <2>4. QED  BY <1>2, <2>2, <2>3
  <1>4. Keys!_stored_provider_keys = keys
    BY <1>1 DEF FileInv, HeldInv, AloneInFile
  <1>5. HeldInv'
    BY <1>1, <1>4 DEF HeldInv, Keys!_stored_provider_keys, Keys!Document
  <1>6. AloneInFile' /\ \A q \in Process : ChangeInv(keyjob[q])'
    BY <1>1, <1>3 DEF AloneInFile, ChangeInv, FileInv
  <1>7. QED
    BY <1>1, <1>3, <1>5, <1>6 DEF FileInv, KeyTypes

(* auth.py: unless two changes overlapped or a removal died as it wrote, at *)
(* every moment but while a removal rewrites the file, whatever saves died, *)
(* a key is found exactly if the saves and removals done so far leave one,  *)
(* and no save finds its new file gone.  A provider is not called as a torn *)
(* file is marked here, and there are finitely many processes.              *)
THEOREM KeysAreKept ==
  ASSUME "torn" \notin Provider, IsFiniteSet(Process)
  PROVE  Keys!KeySpec => []Keys!KeysKept
  <1>1. KeyInv /\ [Keys!KeyNext]_(Keys!keyVars) => KeyInv'
    <2> SUFFICES ASSUME KeyInv, [Keys!KeyNext]_(Keys!keyVars) PROVE KeyInv'
      OBVIOUS
    <2>1. CASE UNCHANGED Keys!keyVars
      BY <2>1 DEF Keys!keyVars, KeyInv, FileInv, KeyTypes, AloneInFile, HeldInv,
         ChangeInv, Keys!Done, Keys!_stored_provider_keys, Keys!Document
    <2>2. QED
      BY <2>1, KeyReads, KeyOpens, KeyWrites, KeyReplaces, KeyDies DEF Keys!KeyNext
  <1>2. KeyInv => Keys!KeysKept
    <2> SUFFICES ASSUME FileInv, ~racing, ~cut PROVE Keys!KeysKept
      BY DEF KeyInv, Keys!KeysKept
    <2>1. CASE Keys!_stored_provider_keys = keys
      <3>1. \A provider \in Provider \ InEnvironment :
              Keys!provider_credential(provider) =
                IF provider \in DOMAIN keys THEN keys[provider] ELSE Keys!AuthError
        BY <2>1 DEF Keys!provider_credential
      <3>2. QED  BY <3>1 DEF Keys!KeysKept, FileInv
    <2>2. CASE \E p \in Process : keyjob[p].at = "write" /\ keyjob[p].kind = "remove"
      BY <2>2 DEF Keys!KeysKept, FileInv
    <2>3. QED  BY <2>1, <2>2 DEF FileInv, HeldInv
  <1>3. QED  BY <1>1, <1>2, KeyStarts, PTL DEF Keys!KeySpec

-----------------------------------------------------------------------------
(* The goal of a workspace (mjj/goals.py). *)

\* What a goal of at most `most` entries keeps of a longer one.
LEMMA BoundedKeeps ==
  ASSUME NEW s \in Seq(Nat), NEW most \in Nat \ {0}
  PROVE  LET shift == IF Len(s) > most THEN Len(s) - most ELSE 0
         IN /\ Goal!Bounded(s, most) \in Seq(Nat)
            /\ Len(Goal!Bounded(s, most)) = Len(s) - shift
            /\ \A i \in 1..(Len(s) - shift) : Goal!Bounded(s, most)[i] = s[i + shift]
  <1> DEFINE shift == IF Len(s) > most THEN Len(s) - most ELSE 0
  <1>1. Len(s) \in Nat /\ shift \in 0..Len(s)
    OBVIOUS
  <1>2. Goal!Bounded(s, most) = SubSeq(s, shift + 1, Len(s))
    <2> DEFINE first == Len(s) - most + 1
    <2>1. (IF first > 1 THEN first ELSE 1) = shift + 1
      BY <1>1
    <2> HIDE DEF shift
    <2>2. QED  BY <2>1 DEF Goal!Bounded
  <1> HIDE DEF shift
  <1>3. /\ SubSeq(s, shift + 1, Len(s)) \in Seq(Nat)
        /\ Len(SubSeq(s, shift + 1, Len(s))) = Len(s) - shift
        /\ \A i \in 1..(Len(s) - shift) : SubSeq(s, shift + 1, Len(s))[i] = s[i + shift]
    BY <1>1
  <1>4. QED  BY <1>2, <1>3 DEF shift

LEMMA SameSequence ==
  ASSUME NEW s \in Seq(Nat), NEW t \in Seq(Nat), Len(s) = Len(t),
         \A i \in 1..Len(s) : s[i] = t[i]
  PROVE  s = t
  OBVIOUS

\* To cut before an entry is added and after it is to cut after it.
LEMMA CutOnceMore ==
  ASSUME NEW s \in Seq(Nat), NEW e \in Nat, NEW most \in Nat \ {0}
  PROVE  Goal!Bounded(Append(Goal!Bounded(s, most), e), most)
           = Goal!Bounded(Append(s, e), most)
  <1> DEFINE b == Goal!Bounded(s, most)
             x == IF Len(s) > most THEN Len(s) - most ELSE 0
  <1>1. /\ b \in Seq(Nat) /\ Len(b) = Len(s) - x
        /\ \A i \in 1..(Len(s) - x) : b[i] = s[i + x]
    BY BoundedKeeps
  <1> DEFINE be == Append(b, e)
             se == Append(s, e)
  <1>2. /\ be \in Seq(Nat) /\ Len(be) = Len(b) + 1 /\ be[Len(b) + 1] = e
        /\ \A i \in 1..Len(b) : be[i] = b[i]
    BY <1>1
  <1>3. /\ se \in Seq(Nat) /\ Len(se) = Len(s) + 1 /\ se[Len(s) + 1] = e
        /\ \A i \in 1..Len(s) : se[i] = s[i]
    OBVIOUS
  <1> HIDE DEF b, be, se
  <1> DEFINE y == IF Len(be) > most THEN Len(be) - most ELSE 0
             z == IF Len(se) > most THEN Len(se) - most ELSE 0
  <1>4. /\ Goal!Bounded(be, most) \in Seq(Nat)
        /\ Len(Goal!Bounded(be, most)) = Len(be) - y
        /\ \A i \in 1..(Len(be) - y) : Goal!Bounded(be, most)[i] = be[i + y]
    BY <1>2, BoundedKeeps
  <1>5. /\ Goal!Bounded(se, most) \in Seq(Nat)
        /\ Len(Goal!Bounded(se, most)) = Len(se) - z
        /\ \A i \in 1..(Len(se) - z) : Goal!Bounded(se, most)[i] = se[i + z]
    BY <1>3, BoundedKeeps
  <1> DEFINE n == Len(s)
             m == Len(be)
  <1>6. /\ n \in Nat /\ x \in 0..n /\ y \in Nat /\ z \in Nat /\ m \in Nat
        /\ z = x + y /\ m - y = n + 1 - z /\ n + 1 - z \in Nat /\ m = n + 1 - x
    <2>1. n \in Nat /\ m = n - x + 1 /\ Len(se) = n + 1
      BY <1>1, <1>2, <1>3
    <2>2. /\ x = (IF n > most THEN n - most ELSE 0)
          /\ y = (IF m > most THEN m - most ELSE 0)
          /\ z = (IF n + 1 > most THEN n + 1 - most ELSE 0)
      BY <2>1 DEF x, y, z
    <2> HIDE DEF n, m, x, y, z
    <2>3. x \in 0..n /\ m \in Nat /\ y \in Nat /\ z \in Nat
      BY <2>1, <2>2
    <2>4. z = x + y
      BY <2>1, <2>2
    <2>5. m - y = n + 1 - z /\ n + 1 - z \in Nat /\ m = n + 1 - x
      BY <2>1, <2>2
    <2>6. QED  BY <2>1, <2>3, <2>4, <2>5
  <1>6a. Len(se) = n + 1 /\ Len(be) = m /\ Len(b) + 1 = m
    BY <1>1, <1>2, <1>3
  <1> HIDE DEF x, y, z
  <1>7. \A i \in 1..(Len(se) - z) : be[i + y] = se[i + z]
    <2> SUFFICES ASSUME NEW i \in 1..(Len(se) - z) PROVE be[i + y] = se[i + z]
      OBVIOUS
    <2>1. i + y \in 1..(Len(b) + 1) /\ i + z = (i + y) + x /\ Len(b) = Len(s) - x
      BY <1>1, <1>2, <1>3, <1>6
    <2>2. CASE i + y = Len(b) + 1
      <3>1. i + z = Len(s) + 1
        BY <1>6, <2>1, <2>2
      <3>2. QED  BY <1>2, <1>3, <2>2, <3>1
    <2>3. CASE i + y # Len(b) + 1
      <3>1. i + y \in 1..Len(b) /\ (i + y) + x \in 1..Len(s)
        <4>1. Len(b) \in Nat /\ i + y \in 1..Len(b)
          BY <1>1, <1>6, <2>1, <2>3
        <4>2. QED  BY <1>6, <2>1, <4>1
      <3>2. be[i + y] = s[(i + y) + x]
        BY <1>1, <1>2, <2>1, <3>1
      <3>3. QED  BY <1>3, <2>1, <3>1, <3>2
    <2>4. QED  BY <2>2, <2>3
  <1>8. Goal!Bounded(be, most) = Goal!Bounded(se, most)
    <2>1. Len(be) - y = Len(se) - z
      BY <1>6, <1>6a
    <2>2. \A i \in 1..(Len(se) - z) : Goal!Bounded(be, most)[i] = Goal!Bounded(se, most)[i]
      BY <1>4, <1>5, <1>7, <2>1
    <2>3. QED  BY <1>4, <1>5, <2>1, <2>2, SameSequence
  <1>9. QED  BY <1>8 DEF b, be, se

\* A second cut to fewer entries is the only one that counts.
LEMMA CutTwice ==
  ASSUME NEW s \in Seq(Nat), NEW most \in Nat \ {0}, NEW more \in Nat, most <= more
  PROVE  Goal!Bounded(Goal!Bounded(s, more), most) = Goal!Bounded(s, most)
  <1> DEFINE b == Goal!Bounded(s, more)
             x == IF Len(s) > more THEN Len(s) - more ELSE 0
             y == IF Len(b) > most THEN Len(b) - most ELSE 0
             z == IF Len(s) > most THEN Len(s) - most ELSE 0
  <1>1. /\ b \in Seq(Nat) /\ Len(b) = Len(s) - x
        /\ \A i \in 1..(Len(s) - x) : b[i] = s[i + x]
    <2>1. more \in Nat \ {0}
      OBVIOUS
    <2>2. QED  BY <2>1, BoundedKeeps
  <1> HIDE DEF b
  <1>2. /\ Goal!Bounded(b, most) \in Seq(Nat)
        /\ Len(Goal!Bounded(b, most)) = Len(b) - y
        /\ \A i \in 1..(Len(b) - y) : Goal!Bounded(b, most)[i] = b[i + y]
    BY <1>1, BoundedKeeps
  <1>3. /\ Goal!Bounded(s, most) \in Seq(Nat)
        /\ Len(Goal!Bounded(s, most)) = Len(s) - z
        /\ \A i \in 1..(Len(s) - z) : Goal!Bounded(s, most)[i] = s[i + z]
    BY BoundedKeeps
  <1>4. /\ Len(s) \in Nat /\ x \in 0..Len(s) /\ y \in Nat /\ z = x + y
        /\ Len(b) - y = Len(s) - z
    <2> DEFINE n == Len(s)
               m == Len(b)
    <2>1. n \in Nat /\ m = n - x
      BY <1>1
    <2> HIDE DEF n, m
    <2>2. x = (IF n > more THEN n - more ELSE 0) /\ y = (IF m > most THEN m - most ELSE 0)
          /\ z = (IF n > most THEN n - most ELSE 0)
      BY DEF n, m
    <2> HIDE DEF x, y, z
    <2>3. n \in Nat /\ x \in 0..n /\ y \in Nat /\ z = x + y /\ m - y = n - z
      BY <2>1, <2>2
    <2>4. QED  BY <2>3 DEF n, m
  <1> HIDE DEF x, y, z
  <1>5. \A i \in 1..(Len(s) - z) : b[i + y] = s[i + z]
    <2> SUFFICES ASSUME NEW i \in 1..(Len(s) - z) PROVE b[i + y] = s[i + z]
      OBVIOUS
    <2>1. i + y \in 1..(Len(s) - x) /\ i + z = (i + y) + x
      BY <1>4
    <2>2. QED  BY <1>1, <2>1
  <1>6. Goal!Bounded(b, most) = Goal!Bounded(s, most)
    <2>1. Len(Goal!Bounded(b, most)) = Len(Goal!Bounded(s, most))
      BY <1>2, <1>3, <1>4
    <2>2. \A i \in 1..(Len(s) - z) : Goal!Bounded(b, most)[i] = Goal!Bounded(s, most)[i]
      BY <1>2, <1>3, <1>4, <1>5
    <2>3. QED  BY <1>2, <1>3, <2>1, <2>2, SameSequence
  <1>7. QED  BY <1>6 DEF b

GoalRecord ==
  [id : Nat \ {0}, status : GoalStatus \cup {"active"}, progress : Seq(Nat)]

GoalChange ==
  [op : {"none"}] \cup [op : {"set"}, id : Nat \ {0}]
  \cup [op : {"record"}, entry : Nat]
  \cup [op : {"transition"}, status : GoalStatus, entry : Nat]

\* The goal as the file keeps it.
Kept(goal) == [goal EXCEPT !.progress = Goal!Bounded(@, MAX_PROGRESS_ENTRIES)]

GoalTypes ==
  /\ goals \in Nat /\ entries \in Nat
  /\ wanted \in GoalRecord \cup {Goal!NoGoal}
  /\ loaded = [p \in Process |-> loaded[p]]
  /\ change \in [Process -> GoalChange]
  /\ temporary \in [Process -> {"none", "whole"}]
  /\ \A p \in Process : temporary[p] = "whole" => change[p].op # "none"

\* The file is the goal that is wanted, cut to what is kept.
FileIsWanted ==
  IF wanted = Goal!NoGoal THEN file = Goal!NoGoal ELSE file = Kept(wanted)

\* What a change saves is the change of a fresh goal, or of the file as it
\* still is: had it been saved since, the two would have overlapped.
LoadedInv ==
  \A p \in Process :
    /\ change[p].op = "set" =>
         loaded[p] = Goal!Apply(Goal!NoGoal, change[p], MAX_PROGRESS_ENTRIES)
    /\ change[p].op \in {"record", "transition"} =>
         /\ file # Goal!NoGoal
         /\ loaded[p] = Goal!Apply(file, change[p], MAX_PROGRESS_ENTRIES)

GoalInv == ~raced => GoalTypes /\ FileIsWanted /\ LoadedInv

LEMMA NoGoalIsNone ==
  ASSUME NEW goal \in GoalRecord
  PROVE  goal # Goal!NoGoal /\ Kept(goal) # Goal!NoGoal
  <1>1. goal.id # 0 /\ Kept(goal).id = goal.id
    BY DEF GoalRecord, Kept
  <1>2. QED  BY <1>1 DEF Goal!NoGoal

LEMMA KeptIsGoal ==
  ASSUME MAX_PROGRESS_ENTRIES \in Nat \ {0}, NEW goal \in GoalRecord
  PROVE  /\ Kept(goal) \in GoalRecord
         /\ Kept(goal).id = goal.id /\ Kept(goal).status = goal.status
         /\ Kept(goal).progress = Goal!Bounded(goal.progress, MAX_PROGRESS_ENTRIES)
  <1>1. goal.progress \in Seq(Nat)
    BY DEF GoalRecord
  <1>2. Goal!Bounded(goal.progress, MAX_PROGRESS_ENTRIES) \in Seq(Nat)
    BY <1>1, BoundedKeeps
  <1>3. QED  BY <1>2 DEF GoalRecord, Kept

\* A change of the cut goal, cut, is the change of the goal, cut: the limit
\* of a run on a goal's entries is no tighter than the goal's own.
LEMMA AppendKept ==
  ASSUME MAX_PROGRESS_ENTRIES \in Nat \ {0}, MaxEntries \in Nat,
         MAX_PROGRESS_ENTRIES <= MaxEntries, NEW goal \in GoalRecord, NEW e \in Nat
  PROVE  /\ Goal!_append(goal, e, MaxEntries) \in GoalRecord
         /\ Goal!_append(Kept(goal), e, MAX_PROGRESS_ENTRIES)
              = Kept(Goal!_append(goal, e, MaxEntries))
  <1> DEFINE s == goal.progress
             kept == Goal!Bounded(s, MAX_PROGRESS_ENTRIES)
             more == Goal!Bounded(Append(s, e), MaxEntries)
  <1>1. s \in Seq(Nat) /\ Append(s, e) \in Seq(Nat) /\ MaxEntries \in Nat \ {0}
    BY DEF GoalRecord
  <1>2. more \in Seq(Nat)
    BY <1>1, BoundedKeeps
  <1>3. Goal!_append(goal, e, MaxEntries) = [goal EXCEPT !.progress = more]
    BY DEF Goal!_append
  <1>4. Goal!Bounded(Append(kept, e), MAX_PROGRESS_ENTRIES)
          = Goal!Bounded(more, MAX_PROGRESS_ENTRIES)
    <2>1. Goal!Bounded(Append(kept, e), MAX_PROGRESS_ENTRIES)
            = Goal!Bounded(Append(s, e), MAX_PROGRESS_ENTRIES)
      BY <1>1, CutOnceMore
    <2>2. Goal!Bounded(more, MAX_PROGRESS_ENTRIES)
            = Goal!Bounded(Append(s, e), MAX_PROGRESS_ENTRIES)
      <3> DEFINE t == Append(s, e)
      <3>1. t \in Seq(Nat)
        BY <1>1
      <3> HIDE DEF t
      <3>2. Goal!Bounded(Goal!Bounded(t, MaxEntries), MAX_PROGRESS_ENTRIES)
              = Goal!Bounded(t, MAX_PROGRESS_ENTRIES)
        BY <3>1, CutTwice
      <3>3. QED  BY <3>2 DEF t
    <2>3. QED  BY <2>1, <2>2
  <1> HIDE DEF more, kept
  <1>5. Goal!_append(Kept(goal), e, MAX_PROGRESS_ENTRIES)
          = [goal EXCEPT !.progress = Goal!Bounded(Append(kept, e), MAX_PROGRESS_ENTRIES)]
    BY DEF GoalRecord, Goal!_append, Kept, kept
  <1>6. Kept([goal EXCEPT !.progress = more])
          = [goal EXCEPT !.progress = Goal!Bounded(more, MAX_PROGRESS_ENTRIES)]
    BY DEF GoalRecord, Kept
  <1>7. [goal EXCEPT !.progress = more] \in GoalRecord
    BY <1>2 DEF GoalRecord
  <1>8. QED  BY <1>3, <1>4, <1>5, <1>6, <1>7

LEMMA StatusKept ==
  ASSUME MAX_PROGRESS_ENTRIES \in Nat \ {0}, NEW goal \in GoalRecord,
         NEW status \in GoalStatus
  PROVE  /\ [goal EXCEPT !.status = status] \in GoalRecord
         /\ [Kept(goal) EXCEPT !.status = status] = Kept([goal EXCEPT !.status = status])
  BY DEF GoalRecord, Kept

LEMMA ApplyKept ==
  ASSUME MAX_PROGRESS_ENTRIES \in Nat \ {0}, MaxEntries \in Nat,
         MAX_PROGRESS_ENTRIES <= MaxEntries, NEW goal \in GoalRecord,
         NEW c \in GoalChange, c.op \in {"record", "transition"}
  PROVE  /\ Goal!Apply(goal, c, MaxEntries) \in GoalRecord
         /\ Goal!Apply(Kept(goal), c, MAX_PROGRESS_ENTRIES)
              = Kept(Goal!Apply(goal, c, MaxEntries))
  <1>1. CASE c.op = "record"
    <2>1. c.entry \in Nat
      BY <1>1 DEF GoalChange
    <2>2. \A g, most : Goal!Apply(g, c, most) = Goal!_append(g, c.entry, most)
      BY <1>1 DEF Goal!Apply
    <2>3. QED  BY <2>1, <2>2, AppendKept
  <1>2. CASE c.op = "transition"
    <2>1. c.entry \in Nat /\ c.status \in GoalStatus
      BY <1>2 DEF GoalChange
    <2>2. CASE c.entry = 0
      <3>1. \A g, most : Goal!Apply(g, c, most) = [g EXCEPT !.status = c.status]
        BY <1>2, <2>2 DEF Goal!Apply
      <3>2. QED  BY <2>1, <3>1, StatusKept
    <2>3. CASE c.entry # 0
      <3>1. \A g, most : Goal!Apply(g, c, most)
              = Goal!_append([g EXCEPT !.status = c.status], c.entry, most)
        BY <1>2, <2>3 DEF Goal!Apply
      <3> DEFINE to == [goal EXCEPT !.status = c.status]
      <3>2. to \in GoalRecord /\ [Kept(goal) EXCEPT !.status = c.status] = Kept(to)
        BY <2>1, StatusKept
      <3>3. /\ Goal!Apply(goal, c, MaxEntries) = Goal!_append(to, c.entry, MaxEntries)
            /\ Goal!Apply(Kept(goal), c, MAX_PROGRESS_ENTRIES)
                 = Goal!_append(Kept(to), c.entry, MAX_PROGRESS_ENTRIES)
        BY <3>1, <3>2
      <3> HIDE DEF to
      <3>4. QED  BY <2>1, <3>2, <3>3, AppendKept
    <2>4. QED  BY <2>2, <2>3
  <1>3. QED  BY <1>1, <1>2

\* A goal that is set is new: nothing is cut from it.
LEMMA SetKept ==
  ASSUME MAX_PROGRESS_ENTRIES \in Nat \ {0}, NEW c \in GoalChange, c.op = "set",
         NEW old
  PROVE  /\ Goal!Apply(old, c, MaxEntries) \in GoalRecord
         /\ Goal!Apply(Goal!NoGoal, c, MAX_PROGRESS_ENTRIES)
              = Kept(Goal!Apply(old, c, MaxEntries))
  <1> DEFINE goal == [id |-> c.id, status |-> "active", progress |-> <<>>]
  <1>1. \A g, most : Goal!Apply(g, c, most) = goal
    BY DEF Goal!Apply
  <1>2. c.id \in Nat \ {0}
    BY DEF GoalChange
  <1>3. goal \in GoalRecord
    BY <1>2 DEF GoalRecord
  <1>4. Goal!Bounded(<<>>, MAX_PROGRESS_ENTRIES) = <<>>
    <2>1. <<>> \in Seq(Nat) /\ Len(<<>>) = 0
      OBVIOUS
    <2> DEFINE s == <<>>
               shift == IF Len(s) > MAX_PROGRESS_ENTRIES
                        THEN Len(s) - MAX_PROGRESS_ENTRIES ELSE 0
               short == Goal!Bounded(s, MAX_PROGRESS_ENTRIES)
    <2>2. s \in Seq(Nat) /\ Len(s) = 0 /\ Len(s) - shift = 0
      BY <2>1
    <2> HIDE DEF s
    <2>3. short \in Seq(Nat) /\ Len(short) = Len(s) - shift
      BY <2>2, BoundedKeeps
    <2> HIDE DEF shift, short
    <2>4. short = <<>>
      BY <2>2, <2>3
    <2>5. QED  BY <2>4 DEF short, s
  <1>5. Kept(goal) = goal
    BY <1>4 DEF Kept
  <1>6. QED  BY <1>1, <1>3, <1>5

LEMMA GoalStarts == Goal!GoalInit => GoalInv
  <1> SUFFICES ASSUME Goal!GoalInit PROVE GoalTypes /\ FileIsWanted /\ LoadedInv
    BY DEF GoalInv
  <1>1. Goal!Nothing \in GoalChange /\ Goal!Nothing.op = "none"
    BY DEF Goal!Nothing, GoalChange
  <1>2. \A p \in Process : change[p].op = "none"
    BY <1>1 DEF Goal!GoalInit
  <1>3. GoalTypes
    BY <1>1 DEF Goal!GoalInit, GoalTypes
  <1>4. QED  BY <1>2, <1>3 DEF Goal!GoalInit, FileIsWanted, LoadedInv

\* A change is under way if and only if it is not nothing.
LEMMA ChangeIs ==
  ASSUME NEW c \in GoalChange
  PROVE  /\ c # Goal!Nothing <=> c.op # "none"
         /\ c.op \in {"none", "set", "record", "transition"}
  BY DEF GoalChange, Goal!Nothing

LEMMA GoalBegins ==
  ASSUME GoalInv, NEW p \in Process, NEW c \in GoalChange, NEW goal,
         Goal!Start(p, c, goal), goals' \in Nat, entries' \in Nat,
         \/ c.op = "set" /\ goal = Goal!NoGoal
         \/ c.op \in {"record", "transition"} /\ goal = file /\ file # Goal!NoGoal
  PROVE  GoalInv'
  <1> SUFFICES ASSUME ~raced' PROVE (GoalTypes /\ FileIsWanted /\ LoadedInv)'
    BY DEF GoalInv
  <1>1. GoalTypes /\ FileIsWanted /\ LoadedInv
    BY DEF GoalInv, Goal!Start
  <1> DEFINE new == Goal!Apply(goal, c, MAX_PROGRESS_ENTRIES)
  <1>2. /\ change' = [change EXCEPT ![p] = c]
        /\ loaded' = [loaded EXCEPT ![p] = new]
        /\ UNCHANGED <<file, temporary, wanted>>
    BY DEF Goal!Start
  <1> HIDE DEF new
  <1>3. /\ change' \in [Process -> GoalChange] /\ change'[p] = c /\ loaded'[p] = new
        /\ loaded' = [q \in Process |-> loaded'[q]]
        /\ \A q \in Process : q # p => change'[q] = change[q] /\ loaded'[q] = loaded[q]
    BY <1>1, <1>2 DEF GoalTypes
  <1>4. GoalTypes'
    BY <1>1, <1>2, <1>3 DEF GoalTypes
  <1>5. FileIsWanted'
    BY <1>1, <1>2 DEF FileIsWanted, Kept
  <1>6. LoadedInv'
    <2> SUFFICES ASSUME NEW q \in Process
                 PROVE  /\ change'[q].op = "set" =>
                             loaded'[q] = Goal!Apply(Goal!NoGoal, change'[q], MAX_PROGRESS_ENTRIES)
                        /\ change'[q].op \in {"record", "transition"} =>
                             /\ file' # Goal!NoGoal
                             /\ loaded'[q] = Goal!Apply(file', change'[q], MAX_PROGRESS_ENTRIES)
      BY DEF LoadedInv
    <2>1. CASE q = p
      BY <1>2, <1>3, <2>1 DEF new
    <2>2. CASE q # p
      BY <1>1, <1>2, <1>3, <2>2 DEF LoadedInv
    <2>3. QED  BY <2>1, <2>2
  <1>7. QED  BY <1>4, <1>5, <1>6

LEMMA GoalChanges ==
  ASSUME GoalInv, NEW p \in Process,
         Goal!set(p) \/ Goal!record(p) \/ Goal!transition(p), ~raced
  PROVE  GoalInv'
  <1>1. goals \in Nat /\ entries \in Nat
    BY DEF GoalInv, GoalTypes
  <1>2. goals + 1 \in Nat \ {0} /\ entries + 1 \in Nat
    BY <1>1
  <1>3. CASE Goal!set(p)
    <2> DEFINE c == [op |-> "set", id |-> goals + 1]
    <2>1. Goal!Start(p, c, Goal!NoGoal) /\ goals' = goals + 1 /\ entries' = entries
      BY <1>3 DEF Goal!set
    <2>2. c \in GoalChange /\ c.op = "set"
      BY <1>2 DEF GoalChange
    <2> HIDE DEF c
    <2>3. QED  BY <1>1, <1>2, <2>1, <2>2, GoalBegins
  <1>4. CASE Goal!record(p)
    <2> DEFINE c == [op |-> "record", entry |-> entries + 1]
    <2>1. /\ Goal!Start(p, c, file) /\ goals' = goals /\ entries' = entries + 1
          /\ file # Goal!NoGoal
      BY <1>4 DEF Goal!record
    <2>2. c \in GoalChange /\ c.op = "record"
      BY <1>2 DEF GoalChange
    <2> HIDE DEF c
    <2>3. QED  BY <1>1, <1>2, <2>1, <2>2, GoalBegins
  <1>5. CASE Goal!transition(p)
    <2>1. PICK status \in GoalStatus, silent \in BOOLEAN :
            /\ entries' = IF silent THEN entries ELSE entries + 1
            /\ Goal!Start(p, [op |-> "transition", status |-> status,
                              entry |-> IF silent THEN 0 ELSE entries + 1], file)
      BY <1>5 DEF Goal!transition
    <2> DEFINE e == IF silent THEN 0 ELSE entries + 1
               c == [op |-> "transition", status |-> status, entry |-> e]
    <2>2. goals' = goals /\ file # Goal!NoGoal
      BY <1>5 DEF Goal!transition
    <2>3. e \in Nat /\ entries' \in Nat
      BY <1>1, <1>2, <2>1
    <2>4. Goal!Start(p, c, file)
      BY <2>1
    <2> HIDE DEF e
    <2>5. c \in GoalChange /\ c.op = "transition"
      BY <2>3 DEF GoalChange
    <2> HIDE DEF c
    <2>6. QED  BY <1>1, <2>2, <2>3, <2>4, <2>5, GoalBegins
  <1>6. QED  BY <1>3, <1>4, <1>5

\* A process that forgets its change leaves the others'.
LEMMA ProcessForgets ==
  ASSUME GoalTypes, NEW p \in Process, Goal!Forget(p)
  PROVE  /\ change' \in [Process -> GoalChange] /\ change'[p].op = "none"
         /\ temporary' \in [Process -> {"none", "whole"}]
         /\ loaded' = [q \in Process |-> loaded'[q]]
         /\ \A q \in Process : temporary'[q] = "whole" => change'[q].op # "none"
         /\ \A q \in Process : q # p => change'[q] = change[q] /\ loaded'[q] = loaded[q]
  <1>1. Goal!Nothing \in GoalChange /\ Goal!Nothing.op = "none"
    BY DEF Goal!Nothing, GoalChange
  <1>2. QED  BY <1>1 DEF GoalTypes, Goal!Forget

LEMMA GoalSaves ==
  ASSUME MAX_PROGRESS_ENTRIES \in Nat \ {0}, MaxEntries \in Nat,
         MAX_PROGRESS_ENTRIES <= MaxEntries,
         GoalInv, NEW p \in Process, Goal!save(p)
  PROVE  GoalInv'
  <1> SUFFICES ASSUME ~raced' PROVE (GoalTypes /\ FileIsWanted /\ LoadedInv)'
    BY DEF GoalInv
  <1>1. GoalTypes /\ FileIsWanted /\ LoadedInv
    BY DEF GoalInv, Goal!save
  <1> DEFINE c == change[p]
  <1>2. c \in GoalChange /\ c.op \in {"set", "record", "transition"}
    BY <1>1, ChangeIs DEF Goal!save, GoalTypes
  <1>3. \A q \in Process : q # p => change[q].op \in {"none", "set"}
    <2>1. ~Goal!Others(p)
      BY DEF Goal!save
    <2>2. \A q \in Process : q # p => change[q] = Goal!Nothing \/ change[q].op = "set"
      BY <2>1 DEF Goal!Others
    <2>3. QED  BY <2>2 DEF Goal!Nothing
  <1>4. /\ file' = loaded[p] /\ Goal!Forget(p) /\ UNCHANGED <<goals, entries>>
        /\ wanted' = IF c.op # "set" /\ wanted = Goal!NoGoal THEN Goal!NoGoal
                     ELSE Goal!Apply(wanted, c, MaxEntries)
    BY DEF Goal!save
  <1>5. /\ wanted' = Goal!Apply(wanted, c, MaxEntries)
        /\ wanted' \in GoalRecord /\ file' = Kept(wanted')
    <2>1. CASE c.op = "set"
      <3>1. loaded[p] = Goal!Apply(Goal!NoGoal, c, MAX_PROGRESS_ENTRIES)
        BY <1>1, <2>1 DEF LoadedInv
      <3>2. wanted' = Goal!Apply(wanted, c, MaxEntries)
        BY <1>4, <2>1
      <3>3. /\ Goal!Apply(wanted, c, MaxEntries) \in GoalRecord
            /\ Goal!Apply(Goal!NoGoal, c, MAX_PROGRESS_ENTRIES)
                 = Kept(Goal!Apply(wanted, c, MaxEntries))
        BY <1>2, <2>1, SetKept
      <3> HIDE DEF c
      <3>4. QED  BY <1>4, <3>1, <3>2, <3>3
    <2>2. CASE c.op \in {"record", "transition"}
      <3>1. /\ file # Goal!NoGoal
            /\ loaded[p] = Goal!Apply(file, c, MAX_PROGRESS_ENTRIES)
        BY <1>1, <2>2 DEF LoadedInv
      <3>2. wanted \in GoalRecord /\ file = Kept(wanted) /\ wanted # Goal!NoGoal
        BY <1>1, <3>1 DEF FileIsWanted, GoalTypes
      <3>3. wanted' = Goal!Apply(wanted, c, MaxEntries)
        BY <1>4, <3>2
      <3>4. /\ Goal!Apply(wanted, c, MaxEntries) \in GoalRecord
            /\ Goal!Apply(Kept(wanted), c, MAX_PROGRESS_ENTRIES)
                 = Kept(Goal!Apply(wanted, c, MaxEntries))
        BY <1>2, <2>2, <3>2, ApplyKept
      <3> HIDE DEF c
      <3>5. QED  BY <1>4, <3>1, <3>2, <3>3, <3>4
    <2>3. QED  BY <1>2, <2>1, <2>2
  <1>6. FileIsWanted'
    <2>1. wanted' # Goal!NoGoal
      BY <1>5, NoGoalIsNone
    <2>2. QED  BY <1>5, <2>1 DEF FileIsWanted, Kept
  <1>7. GoalTypes'
    BY <1>1, <1>4, <1>5, ProcessForgets DEF GoalTypes
  <1>8. LoadedInv'
    BY <1>1, <1>3, <1>4, ProcessForgets DEF LoadedInv
  <1>9. QED  BY <1>6, <1>7, <1>8

LEMMA GoalOthers ==
  ASSUME GoalInv, NEW p \in Process,
         Goal!WriteTemporary(p) \/ Goal!SaveFails(p) \/ Goal!clear(p)
  PROVE  GoalInv'
  <1> SUFFICES ASSUME ~raced' PROVE (GoalTypes /\ FileIsWanted /\ LoadedInv)'
    BY DEF GoalInv
  <1>1. GoalTypes /\ FileIsWanted /\ LoadedInv
    BY DEF GoalInv, Goal!WriteTemporary, Goal!SaveFails, Goal!clear
  <1>2. CASE Goal!WriteTemporary(p)
    <2>1. /\ UNCHANGED <<file, loaded, change, wanted, goals, entries>>
          /\ temporary' = [temporary EXCEPT ![p] = "whole"]
          /\ change[p].op # "none"
      BY <1>1, <1>2, ChangeIs DEF Goal!WriteTemporary, GoalTypes
    <2>2. GoalTypes'
      BY <1>1, <2>1 DEF GoalTypes
    <2>3. FileIsWanted' /\ LoadedInv'
      BY <1>1, <2>1 DEF FileIsWanted, LoadedInv, Kept
    <2>4. QED  BY <2>2, <2>3
  <1>3. CASE Goal!SaveFails(p)
    <2>1. UNCHANGED <<file, wanted, goals, entries>> /\ Goal!Forget(p)
      BY <1>3 DEF Goal!SaveFails
    <2>2. GoalTypes'
      BY <1>1, <2>1, ProcessForgets DEF GoalTypes
    <2>3. FileIsWanted'
      BY <1>1, <2>1 DEF FileIsWanted, Kept
    <2>4. LoadedInv'
      BY <1>1, <2>1, ProcessForgets DEF LoadedInv
    <2>5. QED  BY <2>2, <2>3, <2>4
  <1>4. CASE Goal!clear(p)
    <2>1. /\ UNCHANGED <<loaded, change, temporary, goals, entries>>
          /\ file' = Goal!NoGoal /\ wanted' = Goal!NoGoal /\ change[p] = Goal!Nothing
      BY <1>4 DEF Goal!clear
    <2>2. \A q \in Process : change[q].op \in {"none", "set"}
      BY <1>1, <1>4, <2>1, ChangeIs DEF Goal!clear, Goal!Others, GoalTypes
    <2>3. GoalTypes' /\ FileIsWanted'
      BY <1>1, <2>1 DEF GoalTypes, FileIsWanted
    <2>4. LoadedInv'
      BY <1>1, <2>1, <2>2 DEF LoadedInv
    <2>5. QED  BY <2>3, <2>4
  <1>5. QED  BY <1>2, <1>3, <1>4

(* GoalStore: as long as no change overlapped another's, the file is what   *)
(* the finished changes make of the goal one after the other, with its      *)
(* newest entries in order, whatever saves failed; if the bound of a run is *)
(* no tighter than the goal's own.                                          *)
THEOREM GoalsAreExact ==
  ASSUME MAX_PROGRESS_ENTRIES \in Nat \ {0}, MaxEntries \in Nat,
         MAX_PROGRESS_ENTRIES <= MaxEntries
  PROVE  Goal!GoalSpec => []Goal!GoalExact
  <1>1. GoalInv /\ [Goal!GoalNext]_(Goal!goalVars) => GoalInv'
    <2> SUFFICES ASSUME GoalInv, [Goal!GoalNext]_(Goal!goalVars) PROVE GoalInv'
      OBVIOUS
    <2>1. CASE raced
      <3>1. raced'
        BY <2>1 DEF Goal!GoalNext, Goal!goalVars, Goal!set, Goal!record,
           Goal!transition, Goal!Start, Goal!WriteTemporary, Goal!save,
           Goal!SaveFails, Goal!clear
      <3>2. QED  BY <3>1 DEF GoalInv
    <2>2. CASE ~raced
      <3>1. CASE UNCHANGED Goal!goalVars
        BY <3>1 DEF Goal!goalVars, GoalInv, GoalTypes, FileIsWanted, LoadedInv, Kept
      <3>2. QED
        BY <2>2, <3>1, GoalChanges, GoalSaves, GoalOthers DEF Goal!GoalNext
    <2>3. QED  BY <2>1, <2>2
  <1>2. GoalInv => Goal!GoalExact
    BY DEF GoalInv, FileIsWanted, Kept, Goal!GoalExact
  <1>3. QED  BY <1>1, <1>2, GoalStarts, PTL DEF Goal!GoalSpec

-----------------------------------------------------------------------------
(* The rollout files of sessions (mjj/session.py). *)

\* While the clock has not gone back, the session started last is as late as
\* any.
OrderInv ==
  /\ second \in Nat
  /\ DOMAIN rollouts \subseteq FileIds
  /\ DOMAIN rollouts # {} => lastly \in DOMAIN rollouts
  /\ \A id \in DOMAIN rollouts :
       /\ "started" \in DOMAIN rollouts[id] /\ rollouts[id].started \in Nat
       /\ ~set_back => /\ rollouts[id].started <= second
                       /\ rollouts[id].started <= rollouts[lastly].started

\* What is written to a file leaves the moment it was started at.
LEMMA WriteKeepsStart ==
  ASSUME NEW log, NEW lines, "started" \in DOMAIN log
  PROVE  /\ "started" \in DOMAIN Sessions!_write(log, lines)
         /\ Sessions!_write(log, lines).started = log.started
  BY DEF Sessions!_write

\* Files that keep their moments keep their order.
LEMMA OrderKept ==
  ASSUME OrderInv, UNCHANGED lastly, second' \in Nat,
         ~set_back' => ~set_back /\ second <= second',
         DOMAIN rollouts' = DOMAIN rollouts,
         \A id \in DOMAIN rollouts :
           /\ "started" \in DOMAIN rollouts'[id]
           /\ rollouts'[id].started = rollouts[id].started
  PROVE  OrderInv'
  BY DEF OrderInv

LEMMA StartIsLast ==
  ASSUME OrderInv, NEW lines, NEW window, Sessions!Starts(lines, window)
  PROVE  OrderInv'
  <1>1. PICK id \in FileIds \ DOMAIN rollouts :
          /\ rollouts' = [i \in DOMAIN rollouts \union {id} |-> IF i = id
               THEN [lines |-> <<Sessions!Meta>> \o lines, torn |-> FALSE, started |-> second]
               ELSE rollouts[i]]
          /\ lastly' = id /\ second' = second /\ set_back' = set_back
    BY DEF Sessions!Starts
  <1>2. DOMAIN rollouts' = DOMAIN rollouts \union {id}
    BY <1>1
  <1>3. "started" \in DOMAIN rollouts'[id] /\ rollouts'[id].started = second
    BY <1>1
  <1>4. \A i \in DOMAIN rollouts : rollouts'[i] = rollouts[i]
    BY <1>1
  <1>5. QED  BY <1>1, <1>2, <1>3, <1>4 DEF OrderInv

LEMMA OrderMoves ==
  ASSUME OrderInv, [Sessions!SessNext]_(Sessions!sessVars)
  PROVE  OrderInv'
  <1>1. CASE Sessions!Session \/ Sessions!fork_session \/ Sessions!import_session
    <2>1. PICK lines, window : Sessions!Starts(lines, window)
      BY <1>1 DEF Sessions!Session, Sessions!fork_session, Sessions!import_session
    <2>2. QED  BY <2>1, StartIsLast
  <1>2. CASE Sessions!record \/ Sessions!note
    <2>1. PICK id, lines : rollouts' = [rollouts EXCEPT ![id] = Sessions!_write(@, lines)]
      BY <1>2 DEF Sessions!record, Sessions!note
    <2>2. DOMAIN rollouts' = DOMAIN rollouts
      BY <2>1
    <2>3. \A i \in DOMAIN rollouts :
            rollouts'[i] = IF i = id THEN Sessions!_write(rollouts[id], lines) ELSE rollouts[i]
      BY <2>1
    <2>4. UNCHANGED <<lastly, second, set_back>>
      BY <1>2 DEF Sessions!record, Sessions!note
    <2>5. \A i \in DOMAIN rollouts :
            /\ "started" \in DOMAIN rollouts'[i]
            /\ rollouts'[i].started = rollouts[i].started
      BY <2>3, WriteKeepsStart DEF OrderInv
    <2>6. second \in Nat /\ second <= second
      BY DEF OrderInv
    <2>7. QED  BY <2>2, <2>4, <2>5, <2>6, OrderKept
  <1>3. CASE Sessions!Crash
    <2>1. PICK id : rollouts' = rollouts \/ rollouts' = [rollouts EXCEPT ![id].torn = TRUE]
      BY <1>3 DEF Sessions!Crash
    <2>2. DOMAIN rollouts' = DOMAIN rollouts
      BY <2>1
    <2>3. UNCHANGED <<lastly, second, set_back>>
      BY <1>3 DEF Sessions!Crash
    <2>4. \A i \in DOMAIN rollouts :
            /\ "started" \in DOMAIN rollouts'[i]
            /\ rollouts'[i].started = rollouts[i].started
      BY <2>1 DEF OrderInv
    <2>5. second \in Nat /\ second <= second
      BY DEF OrderInv
    <2>6. QED  BY <2>2, <2>3, <2>4, <2>5, OrderKept
  <1>4. CASE Sessions!Tick
    BY <1>4, OrderKept DEF Sessions!Tick, OrderInv
  <1>5. CASE Sessions!resume \/ UNCHANGED Sessions!sessVars
    BY <1>5, OrderKept DEF Sessions!resume, Sessions!sessVars, OrderInv
  <1>6. QED
    BY <1>1, <1>2, <1>3, <1>4, <1>5 DEF Sessions!SessNext

(* latest: the session that is resumed without a name is the one started    *)
(* last, whatever starts, crashes and imports came before; or another was   *)
(* started in its second, or the local clock went back.                     *)
THEOREM LatestSessionIsLast ==
  ASSUME FileIds \subseteq Int
  PROVE  Sessions!SessSpec => []Sessions!LatestIsLast
  <1>1. Sessions!SessInit => OrderInv
    BY DEF Sessions!SessInit, OrderInv
  <1>2. OrderInv => Sessions!LatestIsLast
    <2> SUFFICES ASSUME OrderInv, DOMAIN rollouts # {}, ~set_back,
                        \A id \in DOMAIN rollouts \ {lastly} :
                          rollouts[id].started # rollouts[lastly].started
                 PROVE  Sessions!latest = lastly
      BY DEF Sessions!LatestIsLast
    <2> DEFINE Later(other, id) ==
          \/ rollouts[other].started < rollouts[id].started
          \/ rollouts[other].started = rollouts[id].started /\ other <= id
    <2>1. lastly \in DOMAIN rollouts /\ lastly \in Int
      BY DEF OrderInv
    <2>2. \A id \in DOMAIN rollouts : rollouts[id].started \in Int
      BY DEF OrderInv
    <2>3. \A other \in DOMAIN rollouts : Later(other, lastly)
      BY <2>1, <2>2 DEF OrderInv
    <2>4. \A id \in DOMAIN rollouts : Later(lastly, id) => id = lastly
      BY <2>1, <2>2 DEF OrderInv
    <2>5. Sessions!latest =
            CHOOSE id \in DOMAIN rollouts : \A other \in DOMAIN rollouts : Later(other, id)
      BY DEF Sessions!latest
    <2> HIDE DEF Later
    <2>6. QED  BY <2>1, <2>3, <2>4, <2>5
  <1>3. QED
    BY <1>1, <1>2, OrderMoves, PTL DEF Sessions!SessSpec

-----------------------------------------------------------------------------
(* The workbench. *)

LEMMA PartsBegin ==
  Init => /\ Index!IndexInit /\ Nav!NavInit /\ Git!GitInit /\ Sub!SubInit
          /\ Keys!KeyInit /\ Goal!GoalInit /\ Sessions!SessInit
  BY DEF Init

\* A step of the workbench is one of a part, or leaves the part as it is.
LEMMA PartsMove ==
  ASSUME [Next]_vars
  PROVE  /\ [Index!IndexNext]_(Index!indexVars) /\ [Nav!NavNext]_(Nav!navVars)
         /\ [Git!GitNext]_(Git!gitVars) /\ [Sub!SubNext]_(Sub!subVars)
         /\ [Keys!KeyNext]_(Keys!keyVars) /\ [Goal!GoalNext]_(Goal!goalVars)
         /\ [Sessions!SessNext]_(Sessions!sessVars)
  <1>1. [Index!IndexNext]_(Index!indexVars)
    BY DEF Next, vars, Mcps, Languages, Shell, Delegates, KeepsGoal, Indexes, Types,
           RunsPython, UsesGit, Renames, Executes, LogsIn,
           RecordsLines, RestBut, indexVars, Index!indexVars
  <1>2. [Nav!NavNext]_(Nav!navVars)
    BY DEF Next, vars, Mcps, Languages, Shell, Delegates, KeepsGoal, Indexes, Types,
           RunsPython, UsesGit, Renames, Executes, LogsIn,
           RecordsLines, RestBut, navVars, Nav!navVars
  <1>3. [Git!GitNext]_(Git!gitVars)
    BY DEF Next, vars, Mcps, Languages, Shell, Delegates, KeepsGoal, Indexes, Types,
           RunsPython, UsesGit, Renames, Executes, LogsIn,
           RecordsLines, RestBut, gitVars, Git!gitVars
  <1>4. [Sub!SubNext]_(Sub!subVars)
    BY DEF Next, vars, Mcps, Languages, Shell, Delegates, KeepsGoal, Indexes, Types,
           RunsPython, UsesGit, Renames, Executes, LogsIn,
           RecordsLines, RestBut, subVars, Sub!subVars
  <1>5. [Keys!KeyNext]_(Keys!keyVars)
    BY DEF Next, vars, Mcps, Languages, Shell, Delegates, KeepsGoal, Indexes, Types,
           RunsPython, UsesGit, Renames, Executes, LogsIn,
           RecordsLines, RestBut, keyVars, Keys!keyVars
  <1>6. [Goal!GoalNext]_(Goal!goalVars)
    BY DEF Next, vars, Mcps, Languages, Shell, Delegates, KeepsGoal, Indexes, Types,
           RunsPython, UsesGit, Renames, Executes, LogsIn,
           RecordsLines, RestBut, goalVars, Goal!goalVars
  <1>7. [Sessions!SessNext]_(Sessions!sessVars)
    BY DEF Next, vars, Mcps, Languages, Shell, Delegates, KeepsGoal, Indexes, Types,
           RunsPython, UsesGit, Renames, Executes, LogsIn,
           RecordsLines, RestBut, sessVars, Sessions!sessVars
  <1>8. QED  BY <1>1, <1>2, <1>3, <1>4, <1>5, <1>6, <1>7

(* Edits of several files, commits and indexes: beside whatever else a      *)
(* session does, and what the user and other builders write.                *)
THEOREM EditsAreSound == Spec => []EditsSound
  <1>1. Init => Nav!NavInit /\ Git!GitInit /\ Index!IndexInit
    BY PartsBegin
  <1>2. [Next]_vars => /\ [Nav!NavNext]_(Nav!navVars) /\ [Git!GitNext]_(Git!gitVars)
                       /\ [Index!IndexNext]_(Index!indexVars)
    BY PartsMove
  <1>3. QED
    BY <1>1, <1>2, EditsAreWhole, CommitsTell, IndexesAreFresh, PTL
    DEF Spec, EditsSound, Nav!NavSpec, Git!GitSpec, Index!IndexSpec

(* What Git saw of a worker's changes, the goal and the keys outlive        *)
(* failures and crashes, with any number of tasks, processes, providers and *)
(* entries, and the last session is found again, with the exceptions of     *)
(* each part.                                                               *)
THEOREM NothingIsLost ==
  ASSUME "torn" \notin Provider, IsFiniteSet(Process),
         MAX_PROGRESS_ENTRIES \in Nat \ {0}, MaxEntries \in Nat,
         MAX_PROGRESS_ENTRIES <= MaxEntries, FileIds \subseteq Int
  PROVE  Spec => []NothingLost
  <1>1. Init => Sub!SubInit /\ Keys!KeyInit /\ Goal!GoalInit /\ Sessions!SessInit
    BY PartsBegin
  <1>2. [Next]_vars => /\ [Sub!SubNext]_(Sub!subVars) /\ [Keys!KeyNext]_(Keys!keyVars)
                       /\ [Goal!GoalNext]_(Goal!goalVars)
                       /\ [Sessions!SessNext]_(Sessions!sessVars)
    BY PartsMove
  <1>3. Keys!KeySpec => []Keys!KeysKept
    BY KeysAreKept
  <1>4. Goal!GoalSpec => []Goal!GoalExact
    BY GoalsAreExact
  <1>5. Sessions!SessSpec => []Sessions!LatestIsLast
    BY LatestSessionIsLast
  <1>6. QED
    BY <1>1, <1>2, <1>3, <1>4, <1>5, WorkIsKept, PTL
    DEF Spec, NothingLost, Sub!SubSpec, Keys!KeySpec, Goal!GoalSpec, Sessions!SessSpec
=============================================================================
