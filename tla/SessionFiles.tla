------------------------------ MODULE SessionFiles ------------------------------
(***************************************************************************)
(* The rollout files of sessions (mjj/session.py): written line by line,   *)
(* resumed, forked, and exported and imported again; and which of them is  *)
(* the latest.                                                             *)
(***************************************************************************)
EXTENDS Integers, Sequences, FiniteSets, SequencesExt

CONSTANTS
  FileIds,     \* the random parts of file names
  MaxSecond,   \* bound: seconds that pass
  MaxLines,    \* bound: lines written in all
  MaxTears     \* bound: crashes in the middle of a line

VARIABLES
  rollouts,   \* each file: [lines, torn, started]; torn: its last line has no end
  windows,    \* the window of each session, as its process holds it
  titles,     \* the name last given to each session
  holding,    \* the sessions that are open
  second,     \* the second the clock shows, in local time
  set_back,   \* the clock went back, as where an hour of the year repeats
  lastly,     \* the session started last
  wrote,      \* lines written
  tears,      \* crashes in a line
  harmed      \* sessions whose file a crash tore

sessVars == <<rollouts, windows, titles, holding, second, set_back, lastly, wrote, tears, harmed>>

Nobody == 0
Unnamed == 0
Meta == [kind |-> "meta", item |-> 0, type |-> "none"]
ItemLine(item) == [kind |-> "item", item |-> item.item, type |-> item.type]
Note(name) == [kind |-> "note", item |-> name, type |-> "none"]
Junk == [kind |-> "junk", item |-> 0, type |-> "none"]

SessInit ==
  /\ rollouts = [id \in {} |-> 0] /\ windows = [id \in {} |-> 0] /\ titles = [id \in {} |-> 0]
  /\ holding = {} /\ second = 0 /\ set_back = FALSE
  /\ lastly = Nobody /\ wrote = 0 /\ tears = 0 /\ harmed = {}

(* _documents: the lines that are JSON objects.  A text with a separator     *)
(* that str.splitlines ends a line at, and json.dumps leaves as it is, is   *)
(* no line of JSON.                                                         *)
_documents(file) == SelectSeq(file.lines, LAMBDA l : l.kind # "junk" /\ l.type # "separator")
Items(file) ==
  LET items == SelectSeq(_documents(file), LAMBDA l : l.kind = "item")
  IN [k \in DOMAIN items |-> [item |-> items[k].item, type |-> items[k].type]]

(* prune_to_latest_compaction *)
(* Mutant: the first compaction begins the window. *)
PruneToFirst(items) ==
  LET marks == {k \in DOMAIN items : items[k].type = "compaction"}
  IN IF marks = {} THEN items
     ELSE SubSeq(items, CHOOSE k \in marks : \A j \in marks : k <= j, Len(items))

prune_to_latest_compaction(items) ==
  LET marks == {k \in DOMAIN items : items[k].type = "compaction"}
  IN IF marks = {} THEN items
     ELSE SubSeq(items, CHOOSE k \in marks : \A j \in marks : j <= k, Len(items))

load_items(file) == prune_to_latest_compaction(Items(file))

(* _write appends a line; to a line without an end, of which neither is      *)
(* JSON then.                                                               *)
_write(file, lines) ==
  IF ~file.torn \/ lines = << >> THEN [file EXCEPT !.lines = @ \o lines]
  ELSE [file EXCEPT !.lines = Append(@, Junk) \o Tail(lines), !.torn = FALSE]

Room == wrote < MaxLines
Bump(n) == wrote' = wrote + n

(* A session that starts has a file of its own, with a header.              *)
Starts(lines, window) ==
  \E id \in FileIds \ DOMAIN rollouts :
    /\ rollouts' = [i \in DOMAIN rollouts \union {id} |-> IF i = id
          THEN [lines |-> <<Meta>> \o lines, torn |-> FALSE, started |-> second] ELSE rollouts[i]]
    /\ windows' = [i \in DOMAIN windows \union {id} |-> IF i = id THEN window ELSE windows[i]]
    /\ titles' = [i \in DOMAIN titles \union {id} |-> IF i = id THEN Unnamed ELSE titles[i]]
    /\ holding' = holding \union {id}
    /\ lastly' = id
    /\ UNCHANGED <<second, set_back, tears>>

Session == Room /\ Starts(<< >>, << >>) /\ Bump(1) /\ UNCHANGED harmed

(* record: an item of the window, which a compaction begins anew.           *)
record ==
  /\ Room /\ Bump(1)
  /\ \E id \in holding, type \in {"plain", "compaction", "separator"} :
       LET item == [item |-> wrote, type |-> type]
       IN /\ rollouts' = [rollouts EXCEPT ![id] = _write(@, <<ItemLine(item)>>)]
          /\ windows' = [windows EXCEPT ![id] =
                           IF type = "compaction" THEN <<item>> ELSE Append(@, item)]
  /\ UNCHANGED <<titles, holding, second, set_back, lastly, tears, harmed>>

note ==
  /\ Room /\ Bump(1)
  /\ \E id \in holding :
       /\ rollouts' = [rollouts EXCEPT ![id] = _write(@, <<Note(wrote)>>)]
       /\ titles' = [titles EXCEPT ![id] = wrote]
  /\ UNCHANGED <<windows, holding, second, set_back, lastly, tears, harmed>>

(* The process ends: at rest, or in the middle of a line.                   *)
Crash ==
  /\ \E id \in holding :
       /\ holding' = holding \ {id}
       /\ \/ UNCHANGED <<rollouts, tears, harmed>>
          \/ /\ tears < MaxTears /\ tears' = tears + 1
             /\ rollouts' = [rollouts EXCEPT ![id].torn = TRUE]
             /\ harmed' = harmed \union {id}
  /\ UNCHANGED <<windows, titles, second, set_back, lastly, wrote>>

(* resume: the window is what the file gives.                               *)
resume ==
  /\ \E id \in DOMAIN rollouts \ holding :
       /\ holding' = holding \union {id}
       /\ windows' = [windows EXCEPT ![id] = load_items(rollouts[id])]
  /\ UNCHANGED <<rollouts, titles, second, set_back, lastly, wrote, tears, harmed>>

(* fork_session: the window, or the part of it before a branch point.       *)
Inherits(id, new) == harmed' = IF id \in harmed THEN harmed \union new ELSE harmed
New == DOMAIN rollouts' \ DOMAIN rollouts

fork_session ==
  /\ Room
  /\ \E id \in DOMAIN rollouts :
       \E through \in 0..Len(load_items(rollouts[id])) :
         LET items == SubSeq(load_items(rollouts[id]), 1, through)
         IN /\ Starts([k \in DOMAIN items |-> ItemLine(items[k])] \o <<Note(Unnamed)>>, items)
            /\ Bump(1) /\ Inherits(id, New)

(* export_session copies the file's text, import_session starts a session    *)
(* with the window of all its items.                                        *)
import_session ==
  /\ Room
  /\ \E id \in DOMAIN rollouts :
       LET items == prune_to_latest_compaction(Items(rollouts[id]))
       IN /\ items # << >>
          /\ Starts([k \in DOMAIN items |-> ItemLine(items[k])] \o <<Note(Unnamed)>>, items)
          /\ Bump(1) /\ Inherits(id, New)

(* The clock is the user's: its local time may go back. *)
Tick == /\ \/ second < MaxSecond /\ second' = second + 1 /\ UNCHANGED set_back
           \/ ~set_back /\ set_back' = TRUE /\ second' \in 0..(second - 1)
        /\ UNCHANGED <<rollouts, windows, titles, holding, lastly, wrote, tears, harmed>>

SessNext ==
  \/ Session \/ record \/ note \/ Crash \/ resume \/ fork_session \/ import_session \/ Tick
SessSpec == SessInit /\ [][SessNext]_sessVars

(* latest: the last file by name, which is its second and its random part.   *)
latest ==
  CHOOSE id \in DOMAIN rollouts : \A other \in DOMAIN rollouts :
    \/ rollouts[other].started < rollouts[id].started
    \/ rollouts[other].started = rollouts[id].started /\ other <= id

(* inspect_session: the name is that of the last note with one.             *)
inspect_name(file) ==
  LET notes == SelectSeq(_documents(file), LAMBDA l : l.kind = "note" /\ l.item # Unnamed)
  IN IF notes = << >> THEN Unnamed ELSE Last(notes).item

-----------------------------------------------------------------------------
Separated(file) == \E k \in DOMAIN file.lines : file.lines[k].type = "separator"

(* At every moment a session's file gives back the window its process has,   *)
(* and its name: after resumes, forks at any point, an export and an        *)
(* import; unless a crash tore a line of it or of the session it was made   *)
(* from, or a text has a character that str.splitlines splits at.           *)
SessionReloads ==
  \A id \in DOMAIN rollouts :
    id \notin harmed /\ ~(\E other \in DOMAIN rollouts : Separated(rollouts[other])) =>
      /\ load_items(rollouts[id]) = windows[id]
      /\ inspect_name(rollouts[id]) = titles[id]

(* The session that is resumed without a name is the one started last,       *)
(* unless two were started in the same second, or the local clock, which    *)
(* names the files, went back (latest; session.py:45).                      *)
LatestIsLast ==
  DOMAIN rollouts # {} =>
    \/ latest = lastly \/ set_back
    \/ \E id \in DOMAIN rollouts \ {lastly} : rollouts[id].started = rollouts[lastly].started
=============================================================================
