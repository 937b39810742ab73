------------------------------- MODULE Goals -------------------------------
(***************************************************************************)
(* The durable goal of one workspace (mjj/goals.py) as two processes use   *)
(* it: the goal tool of an agent and the goal commands of the terminal and *)
(* the command line.  Every update reads the file, changes the object and  *)
(* saves the whole of it through a temporary file; nothing is locked.      *)
(***************************************************************************)
EXTENDS Integers, Sequences

CONSTANTS Process,              \* the processes that share the workspace
          GoalStatus,           \* the statuses a transition may ask for
          MAX_PROGRESS_ENTRIES, \* progress kept per goal
          MaxGoals,             \* objectives set in a run: ids 1..MaxGoals
          MaxEntries            \* messages written in a run

VARIABLES file,      \* the goal on disk, or NoGoal
          loaded,    \* [Process -> the goal a process has read and changed, or NoGoal]
          change,    \* [Process -> the change it is saving]
          temporary, \* [Process -> what its temporary file holds]
          wanted,    \* the goal as if every finished change had been atomic
          raced,     \* a change finished while another process held an older goal
          goals, entries

goalVars == <<file, loaded, change, temporary, wanted, raced, goals, entries>>

NoGoal == [id |-> 0]
Nothing == [op |-> "none"]

GoalInit == /\ file = NoGoal /\ wanted = NoGoal
            /\ loaded = [p \in Process |-> NoGoal]
            /\ change = [p \in Process |-> Nothing]
            /\ temporary = [p \in Process |-> "none"]
            /\ raced = FALSE
            /\ goals = 0 /\ entries = 0

(* The newest entries a goal keeps. *)
Bounded(progress, most) ==
  LET first == Len(progress) - most + 1
  IN  SubSeq(progress, IF first > 1 THEN first ELSE 1, Len(progress))

_append(goal, entry, most) ==
  [goal EXCEPT !.progress = Bounded(Append(@, entry), most)]

(* What a change makes of a goal; a message of 0 stands for an empty one. *)
Apply(goal, c, most) ==
  CASE c.op = "set" -> [id |-> c.id, status |-> "active", progress |-> <<>>]
    [] c.op = "record" -> _append(goal, c.entry, most)
    [] c.op = "transition" /\ c.entry = 0 -> [goal EXCEPT !.status = c.status]
    [] c.op = "transition" /\ c.entry # 0 ->
         _append([goal EXCEPT !.status = c.status], c.entry, most)

Others(p) == \E q \in Process \ {p} : change[q] # Nothing /\ change[q].op # "set"

Start(p, c, goal) == /\ change[p] = Nothing
                     /\ change' = [change EXCEPT ![p] = c]
                     /\ loaded' = [loaded EXCEPT ![p] = Apply(goal, c, MAX_PROGRESS_ENTRIES)]
                     /\ UNCHANGED <<file, temporary, wanted, raced>>

set(p) == /\ goals < MaxGoals
          /\ goals' = goals + 1
          /\ Start(p, [op |-> "set", id |-> goals + 1], NoGoal)
          /\ UNCHANGED entries

(* No goal to load raises and leaves everything as it was. *)
record(p) == /\ file # NoGoal /\ entries < MaxEntries
             /\ entries' = entries + 1
             /\ Start(p, [op |-> "record", entry |-> entries + 1], file)
             /\ UNCHANGED goals

(* The tool insists on a message; the terminal's pause and resume do not. *)
transition(p) ==
  /\ file # NoGoal
  /\ \E status \in GoalStatus, silent \in BOOLEAN :
       /\ silent \/ entries < MaxEntries
       /\ entries' = IF silent THEN entries ELSE entries + 1
       /\ Start(p, [op |-> "transition", status |-> status,
                    entry |-> IF silent THEN 0 ELSE entries + 1], file)
  /\ UNCHANGED goals

(* save: the temporary file is written and synced, then it replaces the goal. *)
WriteTemporary(p) ==
  /\ change[p] # Nothing /\ temporary[p] = "none"
  /\ temporary' = [temporary EXCEPT ![p] = "whole"]
  /\ UNCHANGED <<file, loaded, change, wanted, raced, goals, entries>>

Forget(p) == /\ change' = [change EXCEPT ![p] = Nothing]
             /\ loaded' = [loaded EXCEPT ![p] = NoGoal]
             /\ temporary' = [temporary EXCEPT ![p] = "none"]

save(p) == /\ temporary[p] = "whole"
           /\ file' = loaded[p]
           /\ wanted' = IF change[p].op # "set" /\ wanted = NoGoal THEN NoGoal
                        ELSE Apply(wanted, change[p], MaxEntries)
           /\ raced' = (raced \/ Others(p))
           /\ Forget(p)
           /\ UNCHANGED <<goals, entries>>

(* A full disk: the finally clause removes the temporary file; or the process dies. *)
SaveFails(p) == /\ change[p] # Nothing
                /\ Forget(p)
                /\ UNCHANGED <<file, wanted, raced, goals, entries>>

clear(p) == /\ change[p] = Nothing
            /\ file # NoGoal
            /\ file' = NoGoal /\ wanted' = NoGoal
            /\ raced' = (raced \/ Others(p))
            /\ UNCHANGED <<loaded, change, temporary, goals, entries>>

GoalNext == \E p \in Process :
  \/ set(p) \/ record(p) \/ transition(p)
  \/ WriteTemporary(p) \/ save(p) \/ SaveFails(p) \/ clear(p)

GoalSpec == GoalInit /\ [][GoalNext]_goalVars

----------------------------------------------------------------------------
(* As long as no change overlapped another's, the file is what the changes *)
(* make of it one after the other: id, status and the newest entries in    *)
(* order; a save that fails or is interrupted leaves no trace              *)
(* (GoalStore.save, GoalStore._append).                                    *)
GoalExact ==
  ~raced => IF wanted = NoGoal THEN file = NoGoal
            ELSE file = [wanted EXCEPT !.progress = Bounded(@, MAX_PROGRESS_ENTRIES)]
=============================================================================
