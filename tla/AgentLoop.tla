------------------------------ MODULE AgentLoop ------------------------------
(***************************************************************************)
(* The turn loop (mjj/agent.py: Agent.run, _consume, _invoke, steer) with  *)
(* the rollout file it writes through (mjj/session.py).                    *)
(*                                                                         *)
(* One process owns an in-memory window `items` and appends every item to  *)
(* the JSONL `file`.  A provider streams items into the loop, a second     *)
(* thread queues steering, the consumer of the generator may close it at a *)
(* yield, the process may be killed (also in the middle of a line), and a  *)
(* later process resumes or forks the file.  The content of items is left  *)
(* out (an assistant message always has text); a call and its output share *)
(* an id, and steering messages are numbered as they are accepted.  The    *)
(* workspace goal is a record other processes may rewrite at any time, so  *)
(* each read of it may see any status.                                     *)
(***************************************************************************)
EXTENDS Integers, Sequences, FiniteSets

CONSTANTS
  MaxSteps,      \* Agent.max_steps: tool rounds before the run gives up
  MaxAuto,       \* max_autonomous_turns: 0 means unlimited
  AutoMode,      \* auto_next_steps or auto_next_idea
  SteerCap,      \* capacity of Agent.steering (32 in the code)
  MaxRuns,       \* bound: calls of Agent.run
  MaxOut,        \* bound: items the provider streams
  MaxTurmoil     \* bound: steering messages, crashes and forks, together

ASSUME LoopAssumption ==
  /\ MaxSteps \in Nat \ {0} /\ MaxAuto \in Nat /\ AutoMode \in BOOLEAN
  /\ SteerCap \in Nat \ {0}
  /\ MaxRuns \in Nat /\ MaxOut \in Nat /\ MaxTurmoil \in Nat

VARIABLES
  file,        \* readable item documents of the rollout file, in order
  torn,        \* the file ends in a partial line without its newline
  items,       \* Agent.items, the live window (<<>> while the process is down)
  steering,    \* Agent.steering, a bounded FIFO of steering ids
  pending,     \* ctx.state holds pending_vision
  pc,          \* where the generator stands
  outcome      \* how the last run ended

\* Locals of the run generator, cleared when it ends.
VARIABLES
  calls,       \* function calls of the current response still to invoke
  respStart,   \* response_start: Len(items) when the request was sent
  emittedText, \* emitted_text: a text delta was yielded in this response
  toolRounds,  \* tool_rounds
  autoTurns    \* autonomous_turns

\* History of one run, cleared with its locals: only properties read it.
VARIABLES
  sawAnswer,   \* the window holds an assistant message of this response
  requests     \* model requests sent by this run

\* History and bounds: only properties and the bounds read them.
VARIABLES
  runs, out, crashes, forks,  \* how much of each bound is used
  nextCall, nextSteer,        \* next fresh call id and steering id
  skewed,                     \* items holds a record that the file lost
  cut,                        \* call ids separated from their partner
  mark                        \* nextSteer when the run last heard the model or asked it

disk == <<file, torn>>
locals == <<calls, respStart, emittedText, toolRounds, autoTurns, sawAnswer,
            requests>>
ids == <<nextCall, nextSteer>>
bounds == <<runs, out, crashes, forks>>
vars == <<disk, items, steering, pending, pc, outcome, locals, bounds, ids,
          skewed, cut, mark>>

Turmoil == crashes + forks + nextSteer - 1

Kinds == {"prompt", "steer", "auto", "vision", "reasoning", "message",
          "call", "output", "compaction"}
Item == [kind : Kinds, id : Nat]
Entry(k, n) == [kind |-> k, id |-> n]

GoalStatuses == {"none", "active", "paused", "complete", "blocked"}
Running == {"boundary", "streaming", "answered", "ending", "invoke", "yielded"}
Outcomes == {"none", "error", "empty", "done", "goal", "checkpoint",
             "exceeded", "aborted", "refused"}

-----------------------------------------------------------------------------
(* The window that survives server-side compaction. *)

Compactions(s) ==
  {i \in 1..Len(s) : /\ s[i].kind = "compaction"
                     /\ \A j \in 1..Len(s) : j > i => s[j].kind # "compaction"}

prune_to_latest_compaction(s) ==
  IF Compactions(s) = {} THEN s
  ELSE SubSeq(s, CHOOSE i \in Compactions(s) : TRUE, Len(s))

load_items(f) == prune_to_latest_compaction(f)

(* Agent.append and Session.record: one item to memory and one line to the  *)
(* file.  A line written after a torn one is glued to it and unreadable.    *)

Record(x) ==
  /\ file' = IF torn THEN file ELSE Append(file, x)
  /\ torn' = FALSE
  /\ skewed' = (skewed \/ torn)

AppendItem(x) == Record(x) /\ items' = Append(items, x)

SeqSet(s) == {s[i] : i \in 1..Len(s)}

\* Calls of the current response that have no output yet.
Unanswered ==
  IF pc = "yielded" THEN {calls[i] : i \in 2..Len(calls)} ELSE SeqSet(calls)

ClearLocals ==
  /\ calls' = <<>> /\ respStart' = 0 /\ emittedText' = FALSE
  /\ toolRounds' = 0 /\ autoTurns' = 0
  /\ sawAnswer' = FALSE /\ requests' = 0

EndRun(why) == pc' = "idle" /\ outcome' = why /\ ClearLocals

-----------------------------------------------------------------------------
(* The loop. *)

Init ==
  /\ file = <<>> /\ torn = FALSE /\ items = <<>> /\ steering = <<>>
  /\ pending = FALSE /\ pc = "idle" /\ outcome = "none"
  /\ calls = <<>> /\ respStart = 0 /\ emittedText = FALSE
  /\ toolRounds = 0 /\ autoTurns = 0 /\ sawAnswer = FALSE /\ requests = 0
  /\ runs = 0 /\ out = 0 /\ crashes = 0 /\ forks = 0
  /\ nextCall = 1 /\ nextSteer = 1
  /\ skewed = FALSE /\ cut = {} /\ mark = 1

\* run(): the prompt becomes a user item (an active goal only rewords it);
\* with neither a prompt nor an image the loop starts on the window as it is.
run ==
  /\ pc = "idle" /\ runs < MaxRuns
  /\ \/ AppendItem(Entry("prompt", 0))
     \/ UNCHANGED <<disk, items, skewed>>
  /\ pc' = "boundary" /\ outcome' = "none"
  /\ runs' = runs + 1
  /\ UNCHANGED <<steering, pending, locals, out, crashes, forks, ids, cut, mark>>

\* run(): a mentioned file cannot be attached; nothing is appended or asked.
MentionError ==
  /\ pc = "idle" /\ runs < MaxRuns
  /\ outcome' = "refused" /\ runs' = runs + 1
  /\ UNCHANGED <<disk, items, steering, pending, pc, locals, out, crashes,
                 forks, ids, skewed, cut, mark>>

\* Mutant: the newest entry of the queue is taken first.
DrainNewest ==
  /\ pc = "boundary" /\ steering # <<>>
  /\ AppendItem(Entry("steer", steering[Len(steering)]))
  /\ steering' = SubSeq(steering, 1, Len(steering) - 1)
  /\ UNCHANGED <<pending, pc, outcome, locals, bounds, ids, cut, mark>>

\* _drain_steering at the top of the loop, one queue entry per step.
DrainSteering ==
  /\ pc = "boundary" /\ steering # <<>>
  /\ AppendItem(Entry("steer", Head(steering)))
  /\ steering' = Tail(steering)
  /\ UNCHANGED <<pending, pc, outcome, locals, bounds, ids, cut, mark>>

\* The queue was found empty: the window goes to the model.
Request ==
  /\ pc = "boundary" /\ steering = <<>>
  /\ pc' = "streaming"
  /\ calls' = <<>> /\ respStart' = Len(items) /\ emittedText' = FALSE
  /\ sawAnswer' = FALSE /\ requests' = requests + 1
  /\ mark' = nextSteer
  /\ UNCHANGED <<disk, items, steering, pending, outcome, toolRounds,
                 autoTurns, bounds, ids, skewed, cut>>

TextDelta ==
  /\ pc = "streaming" /\ ~emittedText
  /\ emittedText' = TRUE
  /\ UNCHANGED <<disk, items, steering, pending, pc, outcome, calls, respStart,
                 toolRounds, autoTurns, sawAnswer, requests, bounds, ids,
                 skewed, cut, mark>>

\* _consume: an assistant message, or reasoning and any other completed item.
PlainItem ==
  /\ pc = "streaming" /\ out < MaxOut
  /\ \E k \in {"reasoning", "message"} :
       /\ AppendItem(Entry(k, 0))
       /\ sawAnswer' = (sawAnswer \/ k = "message")
  /\ out' = out + 1
  /\ UNCHANGED <<steering, pending, pc, outcome, calls, respStart, emittedText,
                 toolRounds, autoTurns, requests, runs, crashes, forks, ids,
                 cut, mark>>

\* _consume: a function call is appended and remembered for after the stream.
\* (The call is cut from its output if its own line is glued to a torn one.)
CallItem ==
  /\ pc = "streaming" /\ out < MaxOut
  /\ AppendItem(Entry("call", nextCall))
  /\ calls' = Append(calls, nextCall)
  /\ nextCall' = nextCall + 1 /\ out' = out + 1
  /\ cut' = IF torn THEN cut \cup {nextCall} ELSE cut
  /\ UNCHANGED <<steering, pending, pc, outcome, respStart, emittedText,
                 toolRounds, autoTurns, sawAnswer, requests, runs, crashes,
                 forks, nextSteer, mark>>

\* Mutant: the compaction item is recorded but the live window is not pruned.
CompactionKept ==
  /\ pc = "streaming" /\ out < MaxOut
  /\ AppendItem(Entry("compaction", 0))
  /\ out' = out + 1
  /\ UNCHANGED <<steering, pending, pc, outcome, locals, runs, crashes, forks,
                 ids, cut, mark>>

\* _consume: the item is appended and the live window pruned to it; calls
\* already streamed in this response leave the window without their outputs.
CompactionItem ==
  /\ pc = "streaming" /\ out < MaxOut
  /\ Record(Entry("compaction", 0))
  /\ items' = prune_to_latest_compaction(Append(items, Entry("compaction", 0)))
  /\ cut' = cut \cup SeqSet(calls)
  /\ out' = out + 1 /\ sawAnswer' = FALSE
  /\ UNCHANGED <<steering, pending, pc, outcome, calls, respStart, emittedText,
                 toolRounds, autoTurns, requests, runs, crashes, forks, ids,
                 mark>>

\* Any exception of the stream ends the run with an error Step.
StreamError ==
  /\ pc = "streaming"
  /\ EndRun("error")
  /\ cut' = cut \cup SeqSet(calls)
  /\ UNCHANGED <<disk, items, steering, pending, bounds, ids, skewed, mark>>

\* _latest_assistant_text(items[response_start:]) finds a message.
LatestAssistantText ==
  \E i \in 1..Len(items) : i > respStart /\ items[i].kind = "message"

\* The stream is exhausted: tool calls, an answer, or an empty completion.
StreamEnd ==
  /\ pc = "streaming"
  /\ \/ /\ calls # <<>>
        /\ pc' = "invoke" /\ UNCHANGED <<outcome, locals, mark>>
     \/ /\ calls = <<>> /\ (emittedText \/ LatestAssistantText)
        /\ pc' = "answered" /\ mark' = nextSteer /\ UNCHANGED <<outcome, locals>>
     \/ /\ calls = <<>> /\ ~(emittedText \/ LatestAssistantText)
        /\ EndRun("empty") /\ UNCHANGED mark
  /\ UNCHANGED <<disk, items, steering, pending, bounds, ids, skewed, cut>>

\* A user-side item keeps the run going with a fresh tool budget.
Continue(x) ==
  /\ AppendItem(x)
  /\ pc' = "boundary" /\ toolRounds' = 0
  /\ UNCHANGED <<pending, outcome, calls, respStart, emittedText, sawAnswer,
                 requests, bounds, ids, cut, mark>>

\* After an answer: steering first ...
SteerAfterAnswer ==
  /\ pc = "answered" /\ steering # <<>>
  /\ Continue(Entry("steer", Head(steering)))
  /\ steering' = Tail(steering)
  /\ UNCHANGED autoTurns

\* Mutant: an answered run ends without looking at the steering queue again.
LastLookSkipped ==
  /\ pc = "answered"
  /\ pc' = "ending"
  /\ UNCHANGED <<disk, items, steering, pending, outcome, locals, bounds, ids,
                 skewed, cut, mark>>

\* ... the queue is found empty, which is the run's last look at it: steer()
\* may still be called while the goal is read and the last Step is yielded ...
LastLook ==
  /\ pc = "answered" /\ steering = <<>>
  /\ pc' = "ending"
  /\ UNCHANGED <<disk, items, steering, pending, outcome, locals, bounds, ids,
                 skewed, cut, mark>>

\* Mutant: the limit test admits one continuation too many.
OverLimit == MaxAuto = 0 \/ autoTurns <= MaxAuto

UnderLimit == MaxAuto = 0 \/ autoTurns < MaxAuto

\* ... then a continuation of the active goal or of the autonomous mode ...
ContinueAlone ==
  /\ pc = "ending" /\ UnderLimit
  /\ \E goal \in GoalStatuses :
       goal = "active" \/ (goal \in {"none", "paused"} /\ AutoMode)
  /\ Continue(Entry("auto", 0))
  /\ autoTurns' = autoTurns + 1
  /\ UNCHANGED steering

\* ... and otherwise the run is over.
Return ==
  /\ pc = "ending"
  /\ \E goal \in GoalStatuses :
       \/ goal = "active" /\ ~UnderLimit /\ EndRun("checkpoint")
       \/ goal \in {"complete", "blocked"} /\ EndRun("goal")
       \/ /\ goal \in {"none", "paused"} /\ ~(AutoMode /\ UnderLimit)
          /\ EndRun("done")
  /\ UNCHANGED <<disk, items, steering, pending, bounds, ids, skewed, cut, mark>>

\* _invoke: dispatch (an exception becomes a failed result), then the output.
Invoke ==
  /\ pc = "invoke"
  /\ AppendItem(Entry("output", Head(calls)))
  /\ pending' \in {pending, TRUE}
  /\ pc' = "yielded"
  /\ UNCHANGED <<steering, outcome, locals, bounds, ids, cut, mark>>

\* Mutant: only the first call of a batch is answered.
FirstCallOnly ==
  /\ pc = "yielded"
  /\ calls' = <<>> /\ pc' = "boundary" /\ toolRounds' = toolRounds + 1
  /\ UNCHANGED <<disk, items, steering, pending, outcome, respStart,
                 emittedText, autoTurns, sawAnswer, requests, bounds, ids,
                 skewed, cut, mark>>

\* Mutant: the answered call stays in the batch and is dispatched again.
CallRepeated ==
  /\ pc = "yielded" /\ pc' = "invoke"
  /\ UNCHANGED <<disk, items, steering, pending, outcome, locals, bounds, ids,
                 skewed, cut, mark>>

\* Mutant: the next call is taken without looking whether there is one.
NextCallUnchecked ==
  /\ pc = "yielded" /\ pc' = "invoke" /\ calls' = Tail(calls)
  /\ UNCHANGED <<disk, items, steering, pending, outcome, respStart, toolRounds,
                 emittedText, autoTurns, sawAnswer, requests, bounds, ids,
                 skewed, cut, mark>>

\* After the yield of the result: a pending image becomes a user item, then
\* the next call, the next request, or the end of the tool budget.
AfterResult ==
  /\ pc = "yielded"
  /\ IF pending THEN AppendItem(Entry("vision", 0))
                ELSE UNCHANGED <<disk, items, skewed>>
  /\ pending' = FALSE
  /\ \/ /\ Tail(calls) # <<>>
        /\ pc' = "invoke" /\ calls' = Tail(calls)
        /\ UNCHANGED <<toolRounds, outcome, respStart, emittedText, autoTurns,
                       sawAnswer, requests>>
     \/ /\ Tail(calls) = <<>> /\ toolRounds + 1 < MaxSteps
        /\ pc' = "boundary" /\ calls' = <<>> /\ toolRounds' = toolRounds + 1
        /\ UNCHANGED <<outcome, respStart, emittedText, autoTurns, sawAnswer,
                       requests>>
     \/ /\ Tail(calls) = <<>> /\ toolRounds + 1 >= MaxSteps
        /\ EndRun("exceeded")
  /\ UNCHANGED <<steering, bounds, ids, cut, mark>>

-----------------------------------------------------------------------------
(* The other actors. *)

\* Mutant: the other thread writes the transcript itself.
SteerDirectly ==
  /\ pc # "down" /\ runs > 0 /\ Turmoil < MaxTurmoil
  /\ AppendItem(Entry("steer", nextSteer))
  /\ nextSteer' = nextSteer + 1
  /\ UNCHANGED <<steering, pending, pc, outcome, locals, bounds, nextCall, cut,
                 mark>>

\* Agent.steer from the prompt thread or the HTTP handler.
steer ==
  /\ pc # "down" /\ runs > 0 /\ Turmoil < MaxTurmoil
  /\ Len(steering) < SteerCap
  /\ steering' = Append(steering, nextSteer)
  /\ nextSteer' = nextSteer + 1
  /\ UNCHANGED <<disk, items, pending, pc, outcome, locals, bounds, nextCall,
                 skewed, cut, mark>>

\* The consumer closes the generator or Ctrl+C unwinds it.
Abort ==
  /\ pc \in Running
  /\ EndRun("aborted")
  /\ cut' = cut \cup Unanswered
  /\ UNCHANGED <<disk, items, steering, pending, bounds, ids, skewed, mark>>

\* The process dies; in a run it may die inside a write.
Crash ==
  /\ pc # "down" /\ Turmoil < MaxTurmoil
  /\ pc' = "down" /\ outcome' = "none" /\ ClearLocals
  /\ torn' \in IF pc = "idle" THEN {torn} ELSE {torn, TRUE}
  /\ items' = <<>> /\ steering' = <<>> /\ pending' = FALSE
  /\ cut' = cut \cup Unanswered
  /\ crashes' = crashes + 1
  /\ UNCHANGED <<file, runs, out, forks, ids, skewed, mark>>

\* session.resume, in a new process or by /resume: the same file is opened
\* again and the window rebuilt from its readable lines.
resume ==
  /\ pc \in {"idle", "down"}
  /\ items' = load_items(file)
  /\ skewed' = FALSE
  /\ pc' = "idle"
  /\ UNCHANGED <<disk, steering, pending, outcome, locals, bounds, ids, cut,
                 mark>>

CallIds(s) == {s[i].id : i \in {j \in 1..Len(s) : s[j].kind = "call"}}
OutputIds(s) == {s[i].id : i \in {j \in 1..Len(s) : s[j].kind = "output"}}

\* session.fork_session (/fork, /tree, /new): a fresh file with a prefix of
\* the window loaded from the old file; queue and context state are kept.
fork_session ==
  /\ pc = "idle" /\ Turmoil < MaxTurmoil
  /\ \E n \in 0..Len(load_items(file)) :
       LET branch == SubSeq(load_items(file), 1, n)
       IN  /\ file' = branch /\ items' = branch
           /\ cut' = cut \cup (CallIds(branch) \ OutputIds(branch))
  /\ torn' = FALSE /\ skewed' = FALSE
  /\ forks' = forks + 1
  /\ UNCHANGED <<steering, pending, pc, outcome, locals, runs, out, crashes,
                 ids, mark>>

Next ==
  \/ run \/ MentionError \/ DrainSteering \/ Request \/ TextDelta \/ PlainItem \/ CallItem
  \/ CompactionItem \/ StreamError \/ StreamEnd \/ SteerAfterAnswer
  \/ LastLook \/ ContinueAlone \/ Return \/ Invoke \/ AfterResult
  \/ steer \/ Abort \/ Crash \/ resume \/ fork_session

Spec == Init /\ [][Next]_vars

-----------------------------------------------------------------------------
(* Properties. *)

\* Every variable stays within its type; a batch being invoked is not empty.
SequencesOK ==
  /\ file \in Seq(Item) /\ items \in Seq(Item)
  /\ steering \in Seq(Nat) /\ Len(steering) <= SteerCap
  /\ calls \in Seq(Nat)
FlagsOK ==
  /\ torn \in BOOLEAN /\ pending \in BOOLEAN /\ emittedText \in BOOLEAN
  /\ skewed \in BOOLEAN /\ sawAnswer \in BOOLEAN
CountersOK ==
  /\ respStart \in Nat /\ toolRounds \in 0..MaxSteps /\ autoTurns \in Nat
  /\ runs \in Nat /\ out \in Nat /\ crashes \in Nat /\ forks \in Nat
  /\ nextCall \in Nat \ {0} /\ nextSteer \in Nat \ {0} /\ requests \in Nat
  /\ cut \subseteq Nat /\ mark \in Nat \ {0}
ControlOK ==
  /\ pc \in Running \cup {"idle", "down"} /\ outcome \in Outcomes
  /\ pc \in {"invoke", "yielded"} => calls # <<>>
TypeOK == SequencesOK /\ FlagsOK /\ CountersOK /\ ControlOK

(* Resuming the rollout file at any moment gives exactly the window the    *)
(* process works with, across compactions, crashes, resumes and forks: the *)
(* item numbers /tree shows and the model's view survive a restart.  The   *)
(* one exception is a record glued to the torn line of an earlier crash.   *)
ResumeExact == (pc # "down" /\ ~skewed) => items = load_items(file)

(* Every window sent to the model pairs each function call with an output  *)
(* and each output with a call, except the calls cut off by a stream error,*)
(* an abort, a crash, a branch point or a compaction inside the response,  *)
(* and the one whose line was glued to a torn one: the first item of a run *)
(* without a prompt on a file that a crash left torn.                      *)
RequestPaired ==
  pc \in {"boundary", "answered", "ending"} =>
    /\ CallIds(items) \ OutputIds(items) \subseteq cut
    /\ OutputIds(items) \ CallIds(items) \subseteq cut

(* No call is answered twice and no output precedes its call in the file.  *)
AnsweredOnce ==
  \A i, j \in 1..Len(file) :
    (i < j /\ file[i].kind = "output" /\ file[j].id = file[i].id) =>
      file[j].kind \notin {"call", "output"}

(* docs/server.md: "Guidance is appended at the next model boundary - after*)
(* the current response or tool batch".  No prompt, guidance or            *)
(* continuation separates a call from its output, whichever thread queued  *)
(* it and whenever.  (The image of a tool result is a user item that the   *)
(* loop itself puts between two outputs of a batch, agent.py:408.)         *)
SteeringAtBoundary ==
  \A i, j \in 1..Len(file) :
    (file[i].kind = "call" /\ file[j].kind = "output" /\ file[i].id = file[j].id)
      => \A k \in i..j : file[k].kind \notin {"prompt", "steer", "auto"}

(* Steering is appended in the order it was accepted, at most once, and    *)
(* while no crash or branch intervenes none of it is lost.                 *)
SteerIndexes(s) == {i \in 1..Len(s) : s[i].kind = "steer"}
SteeringFifo ==
  /\ \A i, j \in SteerIndexes(file) : i < j => file[i].id < file[j].id
  /\ \A i \in SteerIndexes(file), q \in SeqSet(steering) : file[i].id < q
  /\ \A i, j \in 1..Len(steering) : i < j => steering[i] < steering[j]
  /\ crashes = 0 /\ forks = 0 =>
       1..(nextSteer - 1) =
         {file[i].id : i \in SteerIndexes(file)} \cup SeqSet(steering)

(* A run that asked the model and then ended by itself, in whatever way,   *)
(* leaves no steering in the queue that was accepted before the model's    *)
(* last answer was complete or, if the run ended without an answer (an     *)
(* error, an empty completion, the tool budget), before its last request   *)
(* was sent.  What is accepted after the run's last look at the queue      *)
(* stays there for the next run (agent.py:235-297).                        *)
EndsByItself == Outcomes \ {"none", "aborted", "refused"}
NoSteeringSkipped ==
  pc = "idle" /\ outcome \in EndsByItself =>
    \A i \in 1..Len(steering) : steering[i] >= mark

(* One run sends at most max_steps requests per user-side item that it     *)
(* started from: the prompt, each autonomous turn (bounded unless          *)
(* unlimited) and each steering message.                                   *)
RunBounded ==
  /\ MaxAuto # 0 => autoTurns <= MaxAuto
  /\ requests <= MaxSteps * (autoTurns + nextSteer)

(* tests/test_agent_loop.py, test_done_message_without_delta_is_still_     *)
(* rendered: a response whose answer arrives only as a completed message   *)
(* is rendered.  No run ends as "model completed without an assistant      *)
(* message" while the window holds an assistant message of the response.   *)
DoneMessageRendered ==
  [][pc = "streaming" /\ outcome' = "empty" => ~sawAnswer]_vars
=============================================================================
