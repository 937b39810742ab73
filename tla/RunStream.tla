------------------------------ MODULE RunStream ------------------------------
(***************************************************************************)
(* One hosted run and its event streams (mjj/server.py: RunState,          *)
(* AgentService._produce and interrupt, AgentRequestHandler._stream).      *)
(*                                                                         *)
(* A producer thread steps the agent and puts every Step into the bounded  *)
(* queue of the controlling stream and then into those of the mirrors that *)
(* are attached at that moment.  Each stream is served by a handler thread;*)
(* its client reads, or goes away at any time.  A third kind of thread     *)
(* serves an interrupt request.  What a Step says is left out: an event is *)
(* its position in `log`, which keeps the kinds of the events in order.    *)
(***************************************************************************)
EXTENDS Integers, Sequences, FiniteSets

CONSTANTS
  Main,           \* the stream of the POST that started the run
  Mirrors,        \* GET requests for the same run
  MaxMirrors,     \* attachment limit (4 in the code)
  QueueSize,      \* config.stream_queue_size, at least 1
  Anonymous,      \* whether the run may belong to no account
  HeadersFail,    \* clients may be gone before the response head is written
  Interrupts,     \* whether an interrupt request may come
  MaxSteps        \* bound: Steps the agent yields

Clients == {Main} \cup Mirrors
END == 0          \* the sentinel _END; events are numbered from 1

ASSUME StreamAssumption ==
  /\ IsFiniteSet(Mirrors) /\ Main \notin Mirrors
  /\ MaxMirrors \in Nat /\ QueueSize \in Nat \ {0} /\ MaxSteps \in Nat
  /\ Anonymous \in BOOLEAN /\ HeadersFail \in BOOLEAN /\ Interrupts \in BOOLEAN

\* RunState and RunManager._runs.
VARIABLES
  queue,        \* state.events (Main) and the mirrors' queues
  mirrors,      \* keys of state.mirrors, in the order they were added
  cancel,       \* the cancel event
  done,         \* the done event
  status,       \* state.status
  registered    \* the manager's table still holds the run

\* The producer thread.
VARIABLES
  ppc,          \* where _produce stands
  emitting,     \* kind of the event being emitted
  targets,      \* queues that still have to receive it, or the sentinel, in order
  snapped,      \* emit has read the mirrors
  inPut,        \* the thread is inside Queue.put
  log,          \* kinds of the events put into Main's queue, in order
  user,         \* the run belongs to an account
  billed,       \* calls of billing.charge, whether they came through or raised
  noted         \* status written to the session, "none" before

\* The handler threads and their clients.
VARIABLES
  hpc,          \* where the handler of a stream stands
  gone,         \* the client closed its connection
  got,          \* events written to the client
  sawEnd,       \* the handler took the sentinel
  ipc           \* the handler of the interrupt request

state == <<queue, mirrors, cancel, done, status, registered>>
bill == <<user, billed>>
producer == <<ppc, emitting, targets, snapped, inPut, log, bill, noted>>
handlers == <<hpc, gone, got, sawEnd, ipc>>
vars == <<state, producer, handlers>>

Statuses == {"running", "interrupted", "completed", "error"}
Kinds == {"step", "final", "error"}

Init ==
  /\ queue = [c \in Clients |-> <<>>]
  /\ mirrors = <<>> /\ cancel = FALSE /\ done = FALSE
  /\ status = "running" /\ registered = TRUE
  /\ user \in {TRUE, ~Anonymous}
  /\ ppc = "setup" /\ emitting = "step" /\ targets = <<>> /\ snapped = FALSE
  /\ inPut = FALSE /\ log = <<>> /\ billed = 0 /\ noted = "none"
  /\ hpc = [c \in Clients |-> "start"] /\ gone = [c \in Clients |-> FALSE]
  /\ got = [c \in Clients |-> <<>>] /\ sawEnd = [c \in Clients |-> FALSE]
  /\ ipc = "idle"

Room(c) == Len(queue[c]) < QueueSize

-----------------------------------------------------------------------------
(* emit: the controlling queue first, then the mirrors attached by then.    *)

Emit(kind) ==
  /\ emitting' = kind /\ targets' = <<Main>> /\ snapped' = FALSE
  /\ ppc' = "emitting"

\* Where _produce goes on when emit returned `sent`.
AfterEmit(sent) ==
  /\ emitting' = "step" /\ snapped' = FALSE
  /\ \/ /\ emitting = "step"
        /\ ppc' = IF sent THEN "stepping" ELSE "billing"
        /\ status' = IF sent THEN status ELSE "interrupted"
     \/ /\ emitting = "final" /\ ppc' = "noting"
        /\ status' \in {"completed", "error"}    \* an error Step was yielded
     \/ /\ emitting = "error" /\ ppc' = "closing" /\ UNCHANGED status

\* _put: the cancel flag is read ...
EnterPut ==
  /\ ppc = "emitting" /\ targets # <<>> /\ ~inPut /\ ~cancel
  /\ inPut' = TRUE
  /\ UNCHANGED <<state, ppc, emitting, targets, snapped, log, bill, noted, handlers>>

\* ... and the put succeeds, whatever the flag is by then ...
Put ==
  /\ ppc = "emitting" /\ inPut /\ Room(Head(targets))
  /\ log' = IF Head(targets) = Main THEN Append(log, emitting) ELSE log
  /\ queue' = [queue EXCEPT ![Head(targets)] = Append(@, Len(log'))]
  /\ targets' = Tail(targets) /\ inPut' = FALSE
  /\ UNCHANGED <<mirrors, cancel, done, status, registered, ppc,
                 emitting, snapped, bill, noted, handlers>>

\* Mutant: a full queue is skipped instead of waited for.
PutSkips ==
  /\ ppc = "emitting" /\ inPut /\ ~Room(Head(targets))
  /\ targets' = Tail(targets) /\ inPut' = FALSE
  /\ UNCHANGED <<state, ppc, emitting, snapped, log, bill, noted,
                 handlers>>

\* ... or times out on a full queue.
PutTimeout ==
  /\ ppc = "emitting" /\ inPut /\ ~Room(Head(targets))
  /\ inPut' = FALSE
  /\ UNCHANGED <<state, ppc, emitting, targets, snapped, log, bill, noted, handlers>>

\* _put gives up once the run is cancelled: emit returns False.
GiveUp ==
  /\ ppc = "emitting" /\ targets # <<>> /\ ~inPut /\ cancel
  /\ targets' = <<>>
  /\ AfterEmit(FALSE)
  /\ UNCHANGED <<queue, mirrors, cancel, done, registered, inPut, log, bill,
                 noted, handlers>>

\* Under attach_lock: the mirrors that follow from this event on.
SnapshotMirrors ==
  /\ ppc = "emitting" /\ targets = <<>> /\ ~snapped
  /\ targets' = mirrors /\ snapped' = TRUE
  /\ UNCHANGED <<state, ppc, emitting, inPut, log, bill, noted,
                 handlers>>

\* Every target has the event: emit returns True.
Emitted ==
  /\ ppc = "emitting" /\ targets = <<>> /\ snapped
  /\ AfterEmit(TRUE)
  /\ UNCHANGED <<queue, mirrors, cancel, done, registered, targets, inPut, log,
                 bill, noted, handlers>>

-----------------------------------------------------------------------------
(* _produce. *)

\* The client and the agent are made, before the try block ...
Setup ==
  /\ ppc = "setup" /\ ppc' = "stepping"
  /\ UNCHANGED <<state, emitting, targets, snapped, inPut, log, bill, noted, handlers>>

\* ... so that nothing finishes or releases a run whose setup raises.
SetupRaises ==
  /\ ppc = "setup" /\ ppc' = "stranded"
  /\ UNCHANGED <<state, emitting, targets, snapped, inPut, log, bill, noted, handlers>>

\* The agent yields a Step; a cancelled run leaves the loop.
Step ==
  /\ ppc = "stepping"
  /\ \/ /\ cancel
        /\ ppc' = "billing" /\ status' = "interrupted"
        /\ UNCHANGED <<emitting, targets, snapped>>
     \/ /\ ~cancel /\ Len(log) < MaxSteps
        /\ Emit("step") /\ UNCHANGED status
  /\ UNCHANGED <<queue, mirrors, cancel, done, registered, inPut,
                 log, bill, noted, handlers>>

\* The generator is exhausted.
AgentEnds ==
  /\ ppc = "stepping" /\ ppc' = "billing"
  /\ UNCHANGED <<state, emitting, targets, snapped, inPut, log, bill, noted, handlers>>

\* The except clause, for the agent or for session.note.
Raise ==
  /\ ppc \in {"stepping", "noting"}
  /\ status' = "error"
  /\ \/ cancel /\ ppc' = "closing" /\ UNCHANGED <<emitting, targets, snapped>>
     \/ ~cancel /\ Emit("error")
  /\ UNCHANGED <<queue, mirrors, cancel, done, registered, inPut,
                 log, bill, noted, handlers>>

\* Mutant: an interrupted run is not settled.
BillCompleted ==
  /\ ppc = "billing" /\ ppc' = "settling"
  /\ billed' = IF user /\ ~cancel THEN billed + 1 ELSE billed
  /\ UNCHANGED <<state, emitting, targets, snapped, inPut, user, log, noted,
                 handlers>>

\* billing.charge for the account, if the run has one; a charge that raises is
\* caught and reported in the final event.
Bill ==
  /\ ppc = "billing" /\ ppc' = "settling"
  /\ billed' = IF user THEN billed + 1 ELSE billed
  /\ UNCHANGED <<state, emitting, targets, snapped, inPut, user, log, noted,
                 handlers>>

\* Mutant: a run that was not interrupted skips the final usage event.
SettleSilently ==
  /\ ppc = "settling" /\ ppc' = "noting"
  /\ status' = IF cancel THEN "interrupted" ELSE "completed"
  /\ UNCHANGED <<queue, mirrors, cancel, done, registered, emitting,
                 targets, snapped, inPut, log, bill, noted, handlers>>

\* The final usage event, unless the run is cancelled by now.
Settle ==
  /\ ppc = "settling"
  /\ \/ ~cancel /\ Emit("final") /\ UNCHANGED status
     \/ /\ cancel /\ ppc' = "noting"
        /\ status' = IF status = "running" THEN "interrupted" ELSE status
        /\ UNCHANGED <<emitting, targets, snapped>>
  /\ UNCHANGED <<queue, mirrors, cancel, done, registered, inPut,
                 log, bill, noted, handlers>>

Note ==
  /\ ppc = "noting" /\ ppc' = "closing"
  /\ noted' = status
  /\ UNCHANGED <<state, emitting, targets, snapped, inPut, log, bill,
                 handlers>>

\* finish: the done event, then (under attach_lock) the queues to end.
SetDone ==
  /\ ppc = "closing" /\ ppc' = "ending"
  /\ done' = TRUE
  /\ UNCHANGED <<queue, mirrors, cancel, status, registered,
                 emitting, targets, snapped, inPut, log, bill, noted,
                 handlers>>

FinishTargets ==
  /\ ppc = "ending" /\ ppc' = "finishing"
  /\ targets' = <<Main>> \o mirrors
  /\ UNCHANGED <<state, emitting, snapped, inPut, log, bill, noted,
                 handlers>>

PutEnd(c) ==
  /\ Room(c)
  /\ queue' = [queue EXCEPT ![c] = Append(@, END)]
  /\ targets' = Tail(targets)

MakeRoom(c) ==
  /\ ~Room(c)
  /\ queue' = [queue EXCEPT ![c] = Tail(@)]
  /\ UNCHANGED targets

\* Mutant: the sentinel makes room for itself in a queue that is still read.
FinishDrops ==
  /\ ppc = "finishing" /\ targets # <<>>
  /\ \/ PutEnd(Head(targets))
     \/ MakeRoom(Head(targets))
  /\ UNCHANGED <<mirrors, cancel, done, status, registered, ppc,
                 emitting, snapped, inPut, log, bill, noted, handlers>>

\* Mutant: a full queue is waited for even when the run is cancelled.
FinishWaits ==
  /\ ppc = "finishing" /\ targets # <<>>
  /\ PutEnd(Head(targets))
  /\ UNCHANGED <<mirrors, cancel, done, status, registered, ppc,
                 emitting, snapped, inPut, log, bill, noted, handlers>>

\* _finish_queue: the sentinel, or room for it once the run is cancelled.
FinishQueue ==
  /\ ppc = "finishing" /\ targets # <<>>
  /\ \/ PutEnd(Head(targets))
     \/ cancel /\ MakeRoom(Head(targets))
  /\ UNCHANGED <<mirrors, cancel, done, status, registered, ppc,
                 emitting, snapped, inPut, log, bill, noted, handlers>>

\* runs.release by the producer, its last step.
ProducerEnds ==
  /\ ppc = "finishing" /\ targets = <<>>
  /\ ppc' = "ended" /\ registered' = FALSE
  /\ UNCHANGED <<queue, mirrors, cancel, done, status, emitting,
                 targets, snapped, inPut, log, bill, noted, handlers>>

-----------------------------------------------------------------------------
(* _stream. *)

Goto(c, where) == hpc' = [hpc EXCEPT ![c] = where]

\* The POST's handler holds the run it created; a GET looks it up.
Find(c) ==
  /\ hpc[c] = "start" /\ (c = Main \/ registered)
  /\ Goto(c, "found")
  /\ UNCHANGED <<state, producer, gone, got, sawEnd, ipc>>

\* Under attach_lock: 410, 429, or the stream is attached.
Attach(c) ==
  /\ hpc[c] = "found"
  /\ IF (done /\ queue[Main] = <<>>) \/ (c # Main /\ Len(mirrors) >= MaxMirrors)
     THEN Goto(c, "refused") /\ UNCHANGED mirrors
     ELSE /\ Goto(c, "headers")
          /\ mirrors' = IF c = Main THEN mirrors ELSE Append(mirrors, c)
  /\ UNCHANGED <<queue, cancel, done, status, registered, producer, gone, got,
                 sawEnd, ipc>>

\* The response head, outside the try block: a failure unwinds the thread.
Headers(c) ==
  /\ hpc[c] = "headers"
  /\ \/ Goto(c, "reading")
     \/ HeadersFail /\ gone[c] /\ Goto(c, "unwound")
  /\ UNCHANGED <<state, producer, gone, got, sawEnd, ipc>>

\* One event is taken and written.
Deliver(c) ==
  /\ hpc[c] = "reading" /\ queue[c] # <<>> /\ Head(queue[c]) # END
  /\ queue' = [queue EXCEPT ![c] = Tail(@)]
  /\ got' = [got EXCEPT ![c] = Append(@, Head(queue[c]))]
  /\ UNCHANGED <<mirrors, cancel, done, status, registered, producer,
                 hpc, gone, sawEnd, ipc>>

TakeEnd(c) ==
  /\ hpc[c] = "reading" /\ queue[c] # <<>> /\ Head(queue[c]) = END
  /\ queue' = [queue EXCEPT ![c] = Tail(@)]
  /\ sawEnd' = [sawEnd EXCEPT ![c] = TRUE]
  /\ Goto(c, "leaving")
  /\ UNCHANGED <<mirrors, cancel, done, status, registered, producer,
                 gone, got, ipc>>

ClientGoes(c) ==
  /\ hpc[c] \in {"found", "headers", "reading"} /\ ~gone[c]
  /\ gone' = [gone EXCEPT ![c] = TRUE]
  /\ UNCHANGED <<state, producer, hpc, got, sawEnd, ipc>>

\* A write (of an event or a keep-alive) fails: interrupt, first assignment.
WriteFails(c) ==
  /\ hpc[c] = "reading" /\ gone[c]
  /\ \/ queue[c] = <<>> /\ UNCHANGED queue
     \/ /\ queue[c] # <<>> /\ Head(queue[c]) # END
        /\ queue' = [queue EXCEPT ![c] = Tail(@)]
  /\ status' = "interrupted"
  /\ Goto(c, "cancelling")
  /\ UNCHANGED <<mirrors, cancel, done, registered, producer, gone,
                 got, sawEnd, ipc>>

\* Mutant: only the status is set when a write fails.
StreamForgets(c) ==
  /\ hpc[c] = "cancelling" /\ Goto(c, "leaving")
  /\ UNCHANGED <<state, producer, gone, got, sawEnd, ipc>>

\* interrupt, second assignment.
StreamCancels(c) ==
  /\ hpc[c] = "cancelling"
  /\ cancel' = TRUE
  /\ Goto(c, "leaving")
  /\ UNCHANGED <<queue, mirrors, done, status, registered, producer,
                 gone, got, sawEnd, ipc>>

\* state.mirrors.pop(mirror_id, None): a key is in the dictionary once.
Popped(c) ==
  \/ mirrors' = mirrors /\ \A i \in 1..Len(mirrors) : mirrors[i] # c
  \/ \E i \in 1..Len(mirrors) :
       /\ mirrors[i] = c
       /\ mirrors' = SubSeq(mirrors, 1, i - 1) \o SubSeq(mirrors, i + 1, Len(mirrors))

\* The finally block: detach, then release the run if it is done by now.
Leave(c) ==
  /\ hpc[c] = "leaving"
  /\ Popped(c)
  /\ registered' = (registered /\ ~done)
  /\ Goto(c, "left")
  /\ UNCHANGED <<queue, cancel, done, status, producer, gone, got, sawEnd, ipc>>

\* POST .../interrupt: the same two assignments by a third thread.
InterruptStatus ==
  /\ ipc = "idle" /\ registered /\ Interrupts
  /\ status' = "interrupted" /\ ipc' = "cancelling"
  /\ UNCHANGED <<queue, mirrors, cancel, done, registered, producer,
                 hpc, gone, got, sawEnd>>

InterruptCancel ==
  /\ ipc = "cancelling"
  /\ cancel' = TRUE /\ ipc' = "answered"
  /\ UNCHANGED <<queue, mirrors, done, status, registered, producer,
                 hpc, gone, got, sawEnd>>

Produce ==
  \/ EnterPut \/ Put \/ PutTimeout \/ GiveUp \/ SnapshotMirrors \/ Emitted
  \/ Setup \/ SetupRaises \/ Step \/ AgentEnds \/ Raise \/ Bill \/ Settle \/ Note
  \/ SetDone \/ FinishTargets \/ FinishQueue \/ ProducerEnds

Serve(c) ==
  \/ Attach(c) \/ Headers(c) \/ Deliver(c) \/ TakeEnd(c) \/ WriteFails(c)
  \/ StreamCancels(c) \/ Leave(c)

Next ==
  \/ Produce
  \/ \E c \in Clients : Serve(c) \/ Find(c) \/ ClientGoes(c)
  \/ InterruptStatus \/ InterruptCancel

Spec == Init /\ [][Next]_vars

(* Threads run.  The agent ends or is closed (its model reads time out, and *)
(* a cancelled read is closed).  A stream that is being read takes the next *)
(* event; a client that is gone is noticed by some later write.  Requests   *)
(* and clients are free.                                                    *)
Fairness ==
  /\ WF_vars(Produce) /\ SF_vars(Put)
  /\ \A c \in Clients : WF_vars(Serve(c)) /\ SF_vars(WriteFails(c))
  /\ WF_vars(Find(Main)) /\ WF_vars(InterruptCancel)

FairSpec == Spec /\ Fairness

-----------------------------------------------------------------------------
(* Properties. *)

\* Types; no queue and no list of mirrors outgrows its limit.
QueuesOK ==
  /\ queue \in [Clients -> Seq(Nat)] /\ got \in [Clients -> Seq(Nat)]
  /\ \A c \in Clients : Len(queue[c]) <= QueueSize
ListsOK ==
  /\ mirrors \in Seq(Mirrors) /\ Len(mirrors) <= MaxMirrors
  /\ targets \in Seq(Clients) /\ log \in Seq(Kinds)
FlagsOK ==
  /\ cancel \in BOOLEAN /\ done \in BOOLEAN /\ registered \in BOOLEAN
  /\ snapped \in BOOLEAN /\ inPut \in BOOLEAN
  /\ gone \in [Clients -> BOOLEAN] /\ sawEnd \in [Clients -> BOOLEAN]
ControlOK ==
  /\ status \in Statuses /\ noted \in Statuses \cup {"none"}
  /\ ppc \in {"setup", "stranded", "stepping", "emitting", "billing", "settling", "noting",
              "closing", "ending", "finishing", "ended"}
  /\ emitting \in Kinds /\ billed \in Nat /\ user \in BOOLEAN
  /\ hpc \in [Clients -> {"start", "found", "refused", "headers", "reading",
                          "unwound", "cancelling", "leaving", "left"}]
  /\ ipc \in {"idle", "cancelling", "answered"}
TypeOK == QueuesOK /\ ListsOK /\ FlagsOK /\ ControlOK

Numbers(n) == [i \in 1..n |-> i]

(* docs/server.md: "Every Step is encoded as its own named SSE event" and  *)
(* "The last usage event has meta.final = true".  A controlling stream that*)
(* ends by itself, with no interrupt, has carried every event in order and *)
(* ended with the final usage, or with the error that replaced it.         *)
CompleteStream ==
  sawEnd[Main] /\ ~cancel =>
    /\ got[Main] = Numbers(Len(log))
    /\ log # <<>> /\ log[Len(log)] \in {"final", "error"}

(* docs/server.md: "The attach endpoint follows future events from a live  *)
(* stream".  Until the run is interrupted a mirror whose client stays gets *)
(* consecutive events, none skipped or repeated whenever it attaches, then *)
(* the end at most, and one that reaches the end has followed the stream to*)
(* its last event.                                                         *)
MirrorFollows ==
  \A m \in Mirrors : ~cancel /\ ~gone[m] =>
    LET seen == got[m] \o queue[m]
    IN  /\ \A i \in 1..(Len(seen) - 1) :
             seen[i] # END /\ seen[i + 1] \in {seen[i] + 1, END}
        /\ sawEnd[m] /\ seen # <<>> => seen[Len(seen)] = Len(log)

(* The usage of an account's run is settled by exactly one call of the     *)
(* billing, however the run ended: completed, failed or interrupted before,*)
(* during or after a write; an anonymous run is never charged, and neither *)
(* is one that raised.  (The call may raise; what is owed then is Billing.)*)
BilledOnce ==
  /\ billed <= IF user THEN 1 ELSE 0
  /\ noted # "none" /\ user => billed = 1

(* The session note: a run noted as completed (or failed) has put its final*)
(* usage event into the stream, unless an interrupt came while that event  *)
(* waited for room, and only an interrupt makes a run noted interrupted.   *)
NoteHonest ==
  /\ noted # "running"
  /\ noted \in {"completed", "error"} /\ ~cancel =>
       log # <<>> /\ log[Len(log)] = "final"
  /\ noted = "interrupted" =>
       cancel \/ ipc = "cancelling" \/ \E c \in Clients : hpc[c] = "cancelling"

(* A run whose setup raised is nobody's: it neither ends nor is released.  *)
Over == ppc \in {"ended", "stranded"}

(* tests/test_server.py, test_disconnecting_client_cancels_instead_of_     *)
(* orphaning: once cancelled, by a disconnect or by request, or left by its*)
(* controlling client, a run that was set up ends even if every queue is   *)
(* full and nobody reads.                                                  *)
CancelEnds == cancel \/ gone[Main] ~> Over

(* docs/server.md: "disconnecting the attached client interrupts the run". *)
(* A run that was set up ends when its controlling client goes away.       *)
DisconnectEnds == gone[Main] ~> Over

(* A stream that is being served ends: a client that keeps reading is told *)
(* that the run, if it was set up, is over.                                *)
StreamEnds ==
  \A c \in Clients : hpc[c] = "reading" ~> hpc[c] = "left" \/ ppc = "stranded"
=============================================================================
