--------------------------- MODULE RunStreamProofs ---------------------------
(***************************************************************************)
(* Proofs about a hosted run and its streams, for any set of mirrors, any  *)
(* queue size and any number of Steps: usage is settled once, the note of  *)
(* the session is honest, and what a stream carries is complete.           *)
(***************************************************************************)
EXTENDS RunStream, SequenceTheorems, TLAPS

-----------------------------------------------------------------------------
(* Types. *)

LEMMA Streams == Main \in Clients /\ Mirrors \subseteq Clients /\ Main \notin Mirrors
  BY StreamAssumption DEF Clients

LEMMA TailOf ==
  ASSUME NEW S, NEW s \in Seq(S), s # <<>>
  PROVE  /\ Head(s) \in S /\ Head(s) = s[1] /\ Tail(s) \in Seq(S)
         /\ Len(s) \in Nat \ {0} /\ Len(Tail(s)) = Len(s) - 1
         /\ \A i \in 1..(Len(s) - 1) : Tail(s)[i] = s[i + 1]
  OBVIOUS

LEMMA AppendOf ==
  ASSUME NEW S, NEW s \in Seq(S), NEW x \in S
  PROVE  /\ Append(s, x) \in Seq(S) /\ Len(s) \in Nat
         /\ Len(Append(s, x)) = Len(s) + 1 /\ Append(s, x)[Len(s) + 1] = x
         /\ \A i \in 1..Len(s) : Append(s, x)[i] = s[i]
  OBVIOUS

\* What is left of a sequence without its i-th element.
LEMMA WithoutOne ==
  ASSUME NEW S, NEW s \in Seq(S), NEW i \in 1..Len(s)
  PROVE  LET t == SubSeq(s, 1, i - 1) \o SubSeq(s, i + 1, Len(s))
         IN  /\ t \in Seq(S) /\ Len(t) = Len(s) - 1
             /\ \A j \in 1..Len(t) : t[j] = IF j < i THEN s[j] ELSE s[j + 1]
  <1> DEFINE a == SubSeq(s, 1, i - 1)
             b == SubSeq(s, i + 1, Len(s))
  <1>1. Len(s) \in Nat /\ i \in Nat /\ 1 <= i /\ i <= Len(s)
    OBVIOUS
  <1>2. \A j \in 1..Len(s) : s[j] \in S
    OBVIOUS
  <1>3. /\ a \in Seq(S) /\ Len(a) = i - 1
        /\ \A j \in 1..(i - 1) : a[j] = s[1 + j - 1]
    BY <1>1, <1>2, SubSeqProperties
  <1>4. /\ b \in Seq(S) /\ Len(b) = Len(s) - i
        /\ \A j \in 1..(Len(s) - i) : b[j] = s[i + 1 + j - 1]
    BY <1>1, <1>2, SubSeqProperties
  <1> HIDE DEF a, b
  <1>5. /\ a \o b \in Seq(S) /\ Len(a \o b) = Len(a) + Len(b)
        /\ \A j \in 1..(Len(a) + Len(b)) :
             (a \o b)[j] = IF j <= Len(a) THEN a[j] ELSE b[j - Len(a)]
    BY <1>3, <1>4, ConcatProperties
  <1>6. Len(a \o b) = Len(s) - 1
    BY <1>1, <1>3, <1>4, <1>5
  <1>7. ASSUME NEW j \in 1..(Len(s) - 1)
        PROVE  (a \o b)[j] = IF j < i THEN s[j] ELSE s[j + 1]
    <2>1. CASE j < i
      BY <1>1, <1>3, <1>4, <1>5, <2>1
    <2>2. CASE ~(j < i)
      <3>1. (a \o b)[j] = b[j - (i - 1)] /\ j - (i - 1) \in 1..(Len(s) - i)
        BY <1>1, <1>3, <1>4, <1>5, <2>2
      <3>2. i + 1 + (j - (i - 1)) - 1 = j + 1
        BY <1>1
      <3>3. QED  BY <1>4, <2>2, <3>1, <3>2
    <2>3. QED  BY <2>1, <2>2
  <1>8. QED  BY <1>5, <1>6, <1>7 DEF a, b

LEMMA PoppedType ==
  ASSUME ListsOK, NEW c, Popped(c)
  PROVE  mirrors' \in Seq(Mirrors) /\ Len(mirrors') <= MaxMirrors
  <1>1. mirrors \in Seq(Mirrors) /\ Len(mirrors) <= MaxMirrors /\ MaxMirrors \in Nat
    BY StreamAssumption DEF ListsOK
  <1>2. ASSUME NEW i \in 1..Len(mirrors),
               mirrors' = SubSeq(mirrors, 1, i - 1) \o SubSeq(mirrors, i + 1, Len(mirrors))
        PROVE  mirrors' \in Seq(Mirrors) /\ Len(mirrors') <= MaxMirrors
    <2>1. mirrors' \in Seq(Mirrors) /\ Len(mirrors') = Len(mirrors) - 1
      BY <1>1, <1>2, WithoutOne, Zenon
    <2>2. Len(mirrors) \in Nat
      BY <1>1
    <2>3. QED  BY <1>1, <2>1, <2>2
  <1>3. QED  BY <1>1, <1>2 DEF Popped

LEMMA ControlNext == ControlOK /\ [Next]_vars => ControlOK'
  <1> SUFFICES ASSUME ControlOK, [Next]_vars PROVE ControlOK'
    OBVIOUS
  <1> USE DEF ControlOK, state, bill, producer, handlers, Statuses, Kinds
  <1>1. CASE EnterPut \/ Put \/ PutTimeout \/ SnapshotMirrors \/ FinishTargets \/ FinishQueue
    BY <1>1 DEF EnterPut, Put, PutTimeout, SnapshotMirrors, FinishTargets, FinishQueue
  <1>2. CASE GiveUp \/ Emitted
    BY <1>2 DEF GiveUp, Emitted, AfterEmit
  <1>3. CASE Step \/ Raise \/ Settle
    BY <1>3 DEF Step, Raise, Settle, Emit
  <1>4. CASE AgentEnds \/ Setup \/ SetupRaises \/ Bill \/ Note \/ SetDone \/ ProducerEnds
    BY <1>4 DEF AgentEnds, Setup, SetupRaises, Bill, Note, SetDone, ProducerEnds
  <1>5. ASSUME NEW c \in Clients, Serve(c) \/ Find(c) \/ ClientGoes(c) PROVE ControlOK'
    <2>1. CASE Find(c) \/ ClientGoes(c) \/ Attach(c) \/ Headers(c) \/ Deliver(c)
      BY <2>1 DEF Find, ClientGoes, Attach, Headers, Deliver, Goto
    <2>2. CASE TakeEnd(c) \/ WriteFails(c) \/ StreamCancels(c) \/ Leave(c)
      BY <2>2 DEF TakeEnd, WriteFails, StreamCancels, Leave, Goto
    <2>3. QED  BY <1>5, <2>1, <2>2 DEF Serve
  <1>6. CASE InterruptStatus \/ InterruptCancel
    BY <1>6 DEF InterruptStatus, InterruptCancel
  <1>7. CASE UNCHANGED vars
    BY <1>7 DEF vars
  <1>8. QED
    BY <1>1, <1>2, <1>3, <1>4, <1>5, <1>6, <1>7 DEF Next, Produce

LEMMA FlagsNext == FlagsOK /\ [Next]_vars => FlagsOK'
  <1> SUFFICES ASSUME FlagsOK, [Next]_vars PROVE FlagsOK'
    OBVIOUS
  <1> USE DEF FlagsOK, state, bill, producer, handlers
  <1>1. CASE EnterPut \/ Put \/ PutTimeout \/ SnapshotMirrors \/ FinishTargets \/ FinishQueue
    BY <1>1 DEF EnterPut, Put, PutTimeout, SnapshotMirrors, FinishTargets, FinishQueue
  <1>2. CASE GiveUp \/ Emitted
    BY <1>2 DEF GiveUp, Emitted, AfterEmit
  <1>3. CASE Step \/ Raise \/ Settle
    BY <1>3 DEF Step, Raise, Settle, Emit
  <1>4. CASE AgentEnds \/ Setup \/ SetupRaises \/ Bill \/ Note \/ SetDone \/ ProducerEnds
    BY <1>4 DEF AgentEnds, Setup, SetupRaises, Bill, Note, SetDone, ProducerEnds
  <1>5. ASSUME NEW c \in Clients, Serve(c) \/ Find(c) \/ ClientGoes(c) PROVE FlagsOK'
    <2>1. CASE Find(c) \/ ClientGoes(c) \/ Attach(c) \/ Headers(c) \/ Deliver(c)
      BY <2>1 DEF Find, ClientGoes, Attach, Headers, Deliver
    <2>2. CASE TakeEnd(c) \/ WriteFails(c) \/ StreamCancels(c) \/ Leave(c)
      BY <2>2 DEF TakeEnd, WriteFails, StreamCancels, Leave
    <2>3. QED  BY <1>5, <2>1, <2>2 DEF Serve
  <1>6. CASE InterruptStatus \/ InterruptCancel
    BY <1>6 DEF InterruptStatus, InterruptCancel
  <1>7. CASE UNCHANGED vars
    BY <1>7 DEF vars
  <1>8. QED
    BY <1>1, <1>2, <1>3, <1>4, <1>5, <1>6, <1>7 DEF Next, Produce

\* The thread is inside Queue.put only with a queue that waits for the event.
PutOK == inPut => ppc = "emitting" /\ targets # <<>>

LEMMA PutNext == PutOK /\ [Next]_vars => PutOK'
  <1> SUFFICES ASSUME PutOK, [Next]_vars PROVE PutOK'
    OBVIOUS
  <1> USE DEF PutOK, state, bill, producer, handlers
  <1>1. CASE EnterPut \/ Put \/ PutTimeout \/ SnapshotMirrors \/ FinishTargets \/ FinishQueue
    BY <1>1 DEF EnterPut, Put, PutTimeout, SnapshotMirrors, FinishTargets, FinishQueue
  <1>2. CASE GiveUp \/ Emitted
    BY <1>2 DEF GiveUp, Emitted, AfterEmit
  <1>3. CASE Step \/ Raise \/ Settle
    BY <1>3 DEF Step, Raise, Settle, Emit
  <1>4. CASE AgentEnds \/ Setup \/ SetupRaises \/ Bill \/ Note \/ SetDone \/ ProducerEnds
    BY <1>4 DEF AgentEnds, Setup, SetupRaises, Bill, Note, SetDone, ProducerEnds
  <1>5. ASSUME NEW c \in Clients, Serve(c) \/ Find(c) \/ ClientGoes(c) PROVE PutOK'
    <2>1. CASE Find(c) \/ ClientGoes(c) \/ Attach(c) \/ Headers(c) \/ Deliver(c)
      BY <2>1 DEF Find, ClientGoes, Attach, Headers, Deliver
    <2>2. CASE TakeEnd(c) \/ WriteFails(c) \/ StreamCancels(c) \/ Leave(c)
      BY <2>2 DEF TakeEnd, WriteFails, StreamCancels, Leave
    <2>3. QED  BY <1>5, <2>1, <2>2 DEF Serve
  <1>6. CASE InterruptStatus \/ InterruptCancel
    BY <1>6 DEF InterruptStatus, InterruptCancel
  <1>7. CASE UNCHANGED vars
    BY <1>7 DEF vars
  <1>8. QED
    BY <1>1, <1>2, <1>3, <1>4, <1>5, <1>6, <1>7 DEF Next, Produce

LEMMA ListsNext == ListsOK /\ ControlOK /\ PutOK /\ [Next]_vars => ListsOK'
  <1> SUFFICES ASSUME ListsOK, ControlOK, PutOK, [Next]_vars PROVE ListsOK'
    OBVIOUS
  <1>1. /\ mirrors \in Seq(Clients) /\ <<>> \in Seq(Clients) /\ <<Main>> \in Seq(Clients)
        /\ <<Main>> \o mirrors \in Seq(Clients)
    BY Streams, SeqMonotonic, EmptySeq, ConcatProperties DEF ListsOK
  <1> USE DEF ListsOK, state, bill, producer, handlers
  <1>2. CASE EnterPut \/ PutTimeout \/ SnapshotMirrors \/ FinishTargets
    BY <1>1, <1>2 DEF EnterPut, PutTimeout, SnapshotMirrors, FinishTargets
  <1>3. CASE Put
    <2>1. Tail(targets) \in Seq(Clients)
      BY <1>3, TailOf DEF Put, PutOK
    <2>2. Append(log, emitting) \in Seq(Kinds)
      BY AppendOf DEF ControlOK
    <2>3. QED  BY <1>3, <2>1, <2>2 DEF Put
  <1>4. CASE FinishQueue
    <2>1. Tail(targets) \in Seq(Clients)
      BY <1>4, TailOf DEF FinishQueue
    <2>2. QED  BY <1>4, <2>1 DEF FinishQueue, PutEnd, MakeRoom
  <1>5. CASE GiveUp \/ Emitted
    BY <1>1, <1>5 DEF GiveUp, Emitted
  <1>6. CASE Step \/ Raise \/ Settle
    BY <1>1, <1>6 DEF Step, Raise, Settle, Emit
  <1>7. CASE AgentEnds \/ Setup \/ SetupRaises \/ Bill \/ Note \/ SetDone \/ ProducerEnds
    BY <1>7 DEF AgentEnds, Setup, SetupRaises, Bill, Note, SetDone, ProducerEnds
  <1>8. ASSUME NEW c \in Clients, Serve(c) \/ Find(c) \/ ClientGoes(c) PROVE ListsOK'
    <2>1. CASE Find(c) \/ ClientGoes(c) \/ Headers(c) \/ Deliver(c)
      BY <2>1 DEF Find, ClientGoes, Headers, Deliver
    <2>2. CASE TakeEnd(c) \/ WriteFails(c) \/ StreamCancels(c)
      BY <2>2 DEF TakeEnd, WriteFails, StreamCancels
    <2>3. CASE Leave(c)
      BY <2>3, PoppedType DEF Leave
    <2>4. CASE Attach(c)
      <3>1. c # Main /\ Len(mirrors) < MaxMirrors =>
              Append(mirrors, c) \in Seq(Mirrors) /\ Len(Append(mirrors, c)) <= MaxMirrors
        BY AppendOf, StreamAssumption DEF Clients
      <3>2. Len(mirrors) \in Nat /\ MaxMirrors \in Nat
        BY StreamAssumption
      <3>3. \/ mirrors' = mirrors
            \/ c # Main /\ ~(Len(mirrors) >= MaxMirrors) /\ mirrors' = Append(mirrors, c)
        BY <2>4 DEF Attach
      <3>4. mirrors' \in Seq(Mirrors) /\ Len(mirrors') <= MaxMirrors
        <4>1. ASSUME c # Main, ~(Len(mirrors) >= MaxMirrors), mirrors' = Append(mirrors, c)
              PROVE  mirrors' \in Seq(Mirrors) /\ Len(mirrors') <= MaxMirrors
          <5>1. Len(mirrors) < MaxMirrors
            BY <3>2, <4>1
          <5>2. QED  BY <3>1, <4>1, <5>1
        <4>2. QED  BY <3>3, <4>1
      <3>5. QED  BY <2>4, <3>4 DEF Attach
    <2>5. QED  BY <1>8, <2>1, <2>2, <2>3, <2>4 DEF Serve
  <1>9. CASE InterruptStatus \/ InterruptCancel
    BY <1>9 DEF InterruptStatus, InterruptCancel
  <1>10. CASE UNCHANGED vars
    BY <1>10 DEF vars
  <1>11. QED
    BY <1>2, <1>3, <1>4, <1>5, <1>6, <1>7, <1>8, <1>9, <1>10 DEF Next, Produce

LEMMA QueuesNext == QueuesOK /\ ListsOK /\ ControlOK /\ PutOK /\ [Next]_vars => QueuesOK'
  <1> SUFFICES ASSUME QueuesOK, ListsOK, ControlOK, PutOK, [Next]_vars PROVE QueuesOK'
    OBVIOUS
  <1>1. QueueSize \in Nat /\ \A c \in Clients : queue[c] \in Seq(Nat) /\ got[c] \in Seq(Nat)
    BY StreamAssumption DEF QueuesOK
  <1>2. targets # <<>> => Head(targets) \in Clients
    BY TailOf DEF ListsOK
  <1>3. ASSUME NEW c \in Clients, queue[c] # <<>>
        PROVE  /\ Tail(queue[c]) \in Seq(Nat) /\ Len(Tail(queue[c])) <= QueueSize
               /\ Append(got[c], Head(queue[c])) \in Seq(Nat)
    BY <1>1, <1>3, TailOf, AppendOf DEF QueuesOK
  <1>4. ASSUME NEW c \in Clients, NEW n \in Nat, Room(c)
        PROVE  Append(queue[c], n) \in Seq(Nat) /\ Len(Append(queue[c], n)) <= QueueSize
    BY <1>1, <1>4, AppendOf DEF QueuesOK, Room
  <1>5. ASSUME NEW c \in Clients, ~Room(c) PROVE queue[c] # <<>>
    BY <1>1, <1>5, StreamAssumption DEF Room
  <1> USE DEF QueuesOK, state, bill, producer, handlers
  <1>6. CASE EnterPut \/ PutTimeout \/ SnapshotMirrors \/ FinishTargets
    BY <1>6 DEF EnterPut, PutTimeout, SnapshotMirrors, FinishTargets
  <1>7. CASE Put
    <2>1. Len(log') \in Nat
      BY <1>7, ListsNext DEF Put, ListsOK, Next, Produce
    <2>2. QED  BY <1>2, <1>4, <1>7, <2>1 DEF Put
  <1>8. CASE FinishQueue
    <2>1. END \in Nat
      BY DEF END
    <2>2. QED
      BY <1>2, <1>3, <1>4, <1>5, <1>8, <2>1 DEF FinishQueue, PutEnd, MakeRoom
  <1>9. CASE GiveUp \/ Emitted
    BY <1>9 DEF GiveUp, Emitted
  <1>10. CASE Step \/ Raise \/ Settle
    BY <1>10 DEF Step, Raise, Settle
  <1>11. CASE AgentEnds \/ Setup \/ SetupRaises \/ Bill \/ Note \/ SetDone \/ ProducerEnds
    BY <1>11 DEF AgentEnds, Setup, SetupRaises, Bill, Note, SetDone, ProducerEnds
  <1>12. ASSUME NEW c \in Clients, Serve(c) \/ Find(c) \/ ClientGoes(c) PROVE QueuesOK'
    <2>1. CASE Find(c) \/ ClientGoes(c) \/ Attach(c) \/ Headers(c) \/ StreamCancels(c) \/ Leave(c)
      BY <2>1 DEF Find, ClientGoes, Attach, Headers, StreamCancels, Leave
    <2>2. CASE Deliver(c)
      BY <1>3, <2>2 DEF Deliver
    <2>3. CASE TakeEnd(c) \/ WriteFails(c)
      BY <1>3, <2>3 DEF TakeEnd, WriteFails
    <2>4. QED  BY <1>12, <2>1, <2>2, <2>3 DEF Serve
  <1>13. CASE InterruptStatus \/ InterruptCancel
    BY <1>13 DEF InterruptStatus, InterruptCancel
  <1>14. CASE UNCHANGED vars
    BY <1>14 DEF vars
  <1>15. QED
    BY <1>6, <1>7, <1>8, <1>9, <1>10, <1>11, <1>12, <1>13, <1>14 DEF Next, Produce

LEMMA TypeInit == Init => TypeOK /\ PutOK
  <1> SUFFICES ASSUME Init PROVE TypeOK /\ PutOK
    OBVIOUS
  <1> USE StreamAssumption, Streams, EmptySeq DEF Init
  <1>1. QueuesOK
    BY DEF QueuesOK
  <1>2. ListsOK
    BY DEF ListsOK
  <1>3. FlagsOK /\ ControlOK
    BY DEF FlagsOK, ControlOK, Statuses, Kinds
  <1>4. QED  BY <1>1, <1>2, <1>3 DEF TypeOK, PutOK

LEMMA TypeNext == TypeOK /\ PutOK /\ [Next]_vars => TypeOK' /\ PutOK'
  BY PutNext, ControlNext, FlagsNext, ListsNext, QueuesNext DEF TypeOK

(* Every variable of a run and its streams keeps its type, and no queue and *)
(* no list of mirrors outgrows its limit (server.py: RunState).             *)
THEOREM TypeCorrect == Spec => []TypeOK
  BY TypeInit, TypeNext, PTL DEF Spec

-----------------------------------------------------------------------------
(* The inductive invariant.  Each part is about one agreement between the   *)
(* producer, the handlers and the queues.                                   *)

Last(s) == s[Len(s)]
Cancelling == cancel \/ ipc = "cancelling" \/ \E c \in Clients : hpc[c] = "cancelling"

\* The calls of the billing that a settled run has made.
Share == IF user THEN 1 ELSE 0

\* Usage is settled on the way from the agent's end to the note, and not before.
BillInv ==
  /\ billed <= Share
  /\ ppc \in {"setup", "stranded", "stepping", "billing"} => billed = 0
  /\ ppc = "emitting" /\ emitting = "step" => billed = 0
  /\ ppc \in {"settling", "noting"} => billed = Share
  /\ ppc = "emitting" /\ emitting = "final" => billed = Share
  /\ noted # "none" => billed = Share /\ ppc \in {"closing", "ending", "finishing", "ended"}

\* What the last event is, and what the status says, when the note is written.
NoteInv ==
  /\ ppc = "emitting" /\ (snapped \/ targets = <<>>) => log # <<>> /\ Last(log) = emitting
  /\ ppc = "noting" => status # "running" /\ (~cancel => log # <<>> /\ Last(log) = "final")
  /\ noted # "running"
  /\ noted \in {"completed", "error"} /\ ~cancel => log # <<>> /\ Last(log) = "final"
  /\ status = "interrupted" \/ noted = "interrupted" => Cancelling
  /\ ppc \in {"noting", "closing", "ending", "finishing", "ended"} /\ ~cancel =>
       log # <<>> /\ Last(log) \in {"final", "error"}

Distinct(s) == \A i, j \in 1..Len(s) : s[i] = s[j] => i = j
Elements(s) == {s[i] : i \in 1..Len(s)}
Unattached == {"start", "found", "refused"}

\* The mirrors are the attached streams; whoever still gets an event, or the
\* end, is one of them or the controlling stream.
AttachInv ==
  /\ Distinct(mirrors)
  /\ \A m \in Mirrors :
       m \in Elements(mirrors) <=>
         hpc[m] \in {"headers", "reading", "unwound", "cancelling", "leaving"}
TargetInv ==
  /\ Distinct(targets)
  /\ \A m \in Mirrors : m \in Elements(targets) => hpc[m] \notin Unattached
  /\ ppc = "emitting" => IF snapped THEN Main \notin Elements(targets)
                                    ELSE targets \in {<<>>, <<Main>>}
  /\ ppc \notin {"emitting", "finishing"} => targets = <<>>

\* The sentinel closes a queue, once, and only after the queue's turn came.
EndInv ==
  \A c \in Clients :
    /\ (sawEnd[c] \/ END \in Elements(queue[c])) =>
         ppc \in {"finishing", "ended"} /\ c \notin Elements(targets)
    /\ \A i \in 1..Len(queue[c]) : queue[c][i] = END => i = Len(queue[c])
    /\ \A i \in 1..Len(got[c]) : got[c][i] # END
    /\ sawEnd[c] => queue[c] = <<>> /\ hpc[c] \in {"leaving", "left"}

\* Why a handler stands where it stands.
HandlerInv ==
  \A c \in Clients :
    /\ hpc[c] \in {"cancelling", "unwound"} => gone[c]
    /\ hpc[c] \in {"leaving", "left"} => cancel \/ sawEnd[c]
    /\ c # Main /\ hpc[c] \in Unattached => queue[c] = <<>> /\ got[c] = <<>>

\* Events a queue holds, the sentinel apart; events its stream should have been
\* put by now; and how many the run had put before those the stream followed.
Held(c) == IF END \in Elements(queue[c]) THEN Len(queue[c]) - 1 ELSE Len(queue[c])
Awaits(c) ==
  /\ ppc = "emitting"
  /\ \/ snapped /\ c \in Elements(targets)
     \/ ~snapped /\ c # Main /\ targets = <<>>
Due(c) == IF Awaits(c) THEN Len(log) - 1 ELSE Len(log)
Missed(c) == Due(c) - Held(c) - Len(got[c])

\* What was written, then what is queued: consecutive events, up to the last one
\* that was the stream's due.  It holds of every stream until it is cancelled.
Consecutive(c) ==
  /\ \A i \in 1..Len(got[c]) : got[c][i] = Missed(c) + i
  /\ \A i \in 1..Held(c) : queue[c][i] = Missed(c) + Len(got[c]) + i
  /\ c = Main => Missed(c) = 0
FlowInv == \A c \in Clients : ~cancel /\ hpc[c] # "cancelling" => Consecutive(c)

IInv == BillInv /\ NoteInv /\ AttachInv /\ TargetInv /\ EndInv /\ HandlerInv /\ FlowInv

-----------------------------------------------------------------------------
(* Sequences by their elements. *)

LEMMA AppendElements ==
  ASSUME NEW S, NEW s \in Seq(S), NEW x \in S
  PROVE  /\ Elements(Append(s, x)) = Elements(s) \cup {x}
         /\ Distinct(s) /\ x \notin Elements(s) => Distinct(Append(s, x))
  <1> DEFINE t == Append(s, x)
  <1>1. /\ Len(s) \in Nat /\ Len(t) = Len(s) + 1 /\ t[Len(s) + 1] = x
        /\ \A i \in 1..Len(s) : t[i] = s[i]
    BY AppendOf
  <1> HIDE DEF t
  <1>2. Elements(t) \subseteq Elements(s) \cup {x}
    <2>1. ASSUME NEW i \in 1..Len(t) PROVE t[i] \in Elements(s) \cup {x}
      <3>1. i \in 1..Len(s) \/ i = Len(s) + 1
        BY <1>1
      <3>2. QED  BY <1>1, <3>1 DEF Elements
    <2>2. QED  BY <2>1 DEF Elements
  <1>3. Elements(s) \cup {x} \subseteq Elements(t)
    <2>1. (Len(s) + 1) \in 1..Len(t) /\ \A i \in 1..Len(s) : i \in 1..Len(t)
      BY <1>1
    <2>2. QED  BY <1>1, <2>1 DEF Elements
  <1>4. ASSUME Distinct(s), x \notin Elements(s), NEW i \in 1..Len(t), NEW j \in 1..Len(t),
               t[i] = t[j]
        PROVE  i = j
    <2>1. /\ i \in 1..Len(s) \/ i = Len(s) + 1
          /\ j \in 1..Len(s) \/ j = Len(s) + 1
      BY <1>1
    <2>2. QED  BY <1>1, <1>4, <2>1 DEF Elements, Distinct
  <1>5. QED  BY <1>2, <1>3, <1>4 DEF t, Distinct

LEMMA TailElements ==
  ASSUME NEW S, NEW s \in Seq(S), s # <<>>
  PROVE  /\ Elements(s) = Elements(Tail(s)) \cup {Head(s)}
         /\ Distinct(s) => Distinct(Tail(s)) /\ Head(s) \notin Elements(Tail(s))
  <1> DEFINE t == Tail(s)
  <1>1. /\ Len(s) \in Nat \ {0} /\ Len(t) = Len(s) - 1 /\ Head(s) = s[1]
        /\ \A i \in 1..Len(t) : t[i] = s[i + 1]
    BY TailOf
  <1> HIDE DEF t
  <1>2. /\ 1 \in 1..Len(s) /\ \A i \in 1..Len(t) : i + 1 \in 1..Len(s) /\ i + 1 # 1
        /\ \A i \in 1..Len(s) : i = 1 \/ (i - 1 \in 1..Len(t) /\ (i - 1) + 1 = i)
    BY <1>1
  <1>3. Elements(s) \subseteq Elements(t) \cup {s[1]}
    <2>1. ASSUME NEW i \in 1..Len(s), i # 1 PROVE s[i] \in Elements(t)
      <3>1. i - 1 \in 1..Len(t) /\ t[i - 1] = s[i]
        BY <1>1, <1>2, <2>1
      <3>2. QED  BY <3>1 DEF Elements
    <2>2. QED  BY <2>1 DEF Elements
  <1>4. Elements(t) \cup {s[1]} \subseteq Elements(s)
    BY <1>1, <1>2 DEF Elements
  <1>5. ASSUME Distinct(s) PROVE Distinct(t) /\ s[1] \notin Elements(t)
    <2>1. ASSUME NEW i \in 1..Len(t), NEW j \in 1..Len(t), t[i] = t[j] PROVE i = j
      <3>1. i + 1 = j + 1
        BY <1>1, <1>2, <1>5, <2>1 DEF Distinct
      <3>2. QED  BY <3>1
    <2>2. \A i \in 1..Len(t) : t[i] # s[1]
      BY <1>1, <1>2, <1>5 DEF Distinct
    <2>3. QED  BY <2>1, <2>2 DEF Distinct, Elements
  <1>6. QED  BY <1>1, <1>3, <1>4, <1>5 DEF t

LEMMA PoppedElements ==
  ASSUME ListsOK, Distinct(mirrors), NEW c, Popped(c)
  PROVE  /\ Distinct(mirrors')
         /\ \A m : m \in Elements(mirrors') <=> m \in Elements(mirrors) /\ m # c
  <1>1. CASE mirrors' = mirrors /\ \A i \in 1..Len(mirrors) : mirrors[i] # c
    BY <1>1 DEF Elements, Distinct
  <1>2. ASSUME NEW k \in 1..Len(mirrors), mirrors[k] = c,
               mirrors' = SubSeq(mirrors, 1, k - 1) \o SubSeq(mirrors, k + 1, Len(mirrors))
        PROVE  /\ Distinct(mirrors')
               /\ \A m : m \in Elements(mirrors') <=> m \in Elements(mirrors) /\ m # c
    <2> DEFINE s == mirrors
               t == mirrors'
    <2>1. /\ s \in Seq(Mirrors) /\ Len(s) \in Nat /\ k \in Nat /\ 1 <= k /\ k <= Len(s)
      BY DEF ListsOK
    <2>2. /\ Len(t) = Len(s) - 1
          /\ \A j \in 1..Len(t) : t[j] = IF j < k THEN s[j] ELSE s[j + 1]
      BY <1>2, <2>1, WithoutOne
    <2> HIDE DEF t
    <2>3. ASSUME NEW m PROVE m \in Elements(t) <=> m \in Elements(s) /\ m # c
      <3>1. ASSUME NEW j \in 1..Len(t) PROVE t[j] \in Elements(s) /\ t[j] # c
        <4>1. /\ j \in 1..Len(s) /\ j + 1 \in 1..Len(s)
              /\ j < k => j # k
              /\ ~(j < k) => j + 1 # k
          BY <2>1, <2>2
        <4>2. QED  BY <1>2, <2>2, <4>1 DEF Elements, Distinct
      <3>2. ASSUME NEW i \in 1..Len(s), s[i] # c PROVE s[i] \in Elements(t)
        <4>1. i # k
          BY <1>2, <3>2
        <4>2. CASE i < k
          <5>1. i \in 1..Len(t)
            BY <2>1, <2>2, <4>2
          <5>2. QED  BY <2>2, <4>2, <5>1 DEF Elements
        <4>3. CASE i > k
          <5>1. i - 1 \in 1..Len(t) /\ ~(i - 1 < k) /\ (i - 1) + 1 = i
            BY <2>1, <2>2, <4>3
          <5>2. QED  BY <2>2, <5>1 DEF Elements
        <4>4. QED  BY <2>1, <4>1, <4>2, <4>3
      <3>3. QED  BY <3>1, <3>2 DEF Elements
    <2>4. ASSUME NEW i \in 1..Len(t), NEW j \in 1..Len(t), t[i] = t[j] PROVE i = j
      <3>1. /\ i \in 1..Len(s) /\ i + 1 \in 1..Len(s)
            /\ j \in 1..Len(s) /\ j + 1 \in 1..Len(s)
        BY <2>1, <2>2
      <3>2. t[i] = IF i < k THEN s[i] ELSE s[i + 1]
        BY <2>2
      <3>3. t[j] = IF j < k THEN s[j] ELSE s[j + 1]
        BY <2>2
      <3>4. (IF i < k THEN i ELSE i + 1) = (IF j < k THEN j ELSE j + 1)
        BY <2>4, <3>1, <3>2, <3>3 DEF Distinct
      <3>5. QED  BY <2>1, <3>1, <3>4
    <2>5. QED  BY <2>3, <2>4 DEF t, Distinct
  <1>3. QED  BY <1>1, <1>2 DEF Popped

-----------------------------------------------------------------------------
(* Usage and the note. *)

LEMMA BillNext == BillInv /\ ControlOK /\ [Next]_vars => BillInv'
  <1> SUFFICES ASSUME BillInv, ControlOK, [Next]_vars PROVE BillInv'
    OBVIOUS
  <1>1. billed \in Nat
    BY DEF ControlOK
  <1> USE DEF BillInv, Share, state, bill, producer, handlers
  <1>2. CASE EnterPut \/ Put \/ PutTimeout \/ SnapshotMirrors \/ FinishTargets \/ FinishQueue
    BY <1>2 DEF EnterPut, Put, PutTimeout, SnapshotMirrors, FinishTargets, FinishQueue
  <1>3. CASE GiveUp \/ Emitted
    BY <1>3 DEF GiveUp, Emitted, AfterEmit
  <1>4. CASE Step \/ Raise \/ Settle
    BY <1>4 DEF Step, Raise, Settle, Emit
  <1>5. CASE AgentEnds \/ Setup \/ SetupRaises \/ Bill \/ Note \/ SetDone \/ ProducerEnds
    BY <1>1, <1>5 DEF AgentEnds, Setup, SetupRaises, Bill, Note, SetDone, ProducerEnds
  <1>6. ASSUME NEW c \in Clients, Serve(c) \/ Find(c) \/ ClientGoes(c) PROVE BillInv'
    <2>1. CASE Find(c) \/ ClientGoes(c) \/ Attach(c) \/ Headers(c) \/ Deliver(c)
      BY <2>1 DEF Find, ClientGoes, Attach, Headers, Deliver
    <2>2. CASE TakeEnd(c) \/ WriteFails(c) \/ StreamCancels(c) \/ Leave(c)
      BY <2>2 DEF TakeEnd, WriteFails, StreamCancels, Leave
    <2>3. QED  BY <1>6, <2>1, <2>2 DEF Serve
  <1>7. CASE InterruptStatus \/ InterruptCancel
    BY <1>7 DEF InterruptStatus, InterruptCancel
  <1>8. CASE UNCHANGED vars
    BY <1>8 DEF vars
  <1>9. QED
    BY <1>2, <1>3, <1>4, <1>5, <1>6, <1>7, <1>8 DEF Next, Produce

\* Once an interrupt is on its way the run is cancelled or will be.
LEMMA CancellingKept == ControlOK /\ Cancelling /\ [Next]_vars => Cancelling'
  <1> SUFFICES ASSUME ControlOK, Cancelling, [Next]_vars PROVE Cancelling'
    OBVIOUS
  <1> USE DEF Cancelling, ControlOK, state, bill, producer, handlers
  <1>1. CASE EnterPut \/ Put \/ PutTimeout \/ SnapshotMirrors \/ FinishTargets \/ FinishQueue
    BY <1>1 DEF EnterPut, Put, PutTimeout, SnapshotMirrors, FinishTargets, FinishQueue
  <1>2. CASE GiveUp \/ Emitted \/ Step \/ Raise \/ Settle
    BY <1>2 DEF GiveUp, Emitted, Step, Raise, Settle
  <1>3. CASE AgentEnds \/ Setup \/ SetupRaises \/ Bill \/ Note \/ SetDone \/ ProducerEnds
    BY <1>3 DEF AgentEnds, Setup, SetupRaises, Bill, Note, SetDone, ProducerEnds
  <1>4. ASSUME NEW c \in Clients, Serve(c) \/ Find(c) \/ ClientGoes(c) PROVE Cancelling'
    <2>1. CASE StreamCancels(c)
      BY <2>1 DEF StreamCancels
    <2>2. CASE Find(c) \/ ClientGoes(c) \/ Attach(c) \/ Headers(c) \/ Deliver(c)
      BY <2>2 DEF Find, ClientGoes, Attach, Headers, Deliver, Goto
    <2>3. CASE TakeEnd(c) \/ WriteFails(c) \/ Leave(c)
      BY <2>3 DEF TakeEnd, WriteFails, Leave, Goto
    <2>4. QED  BY <1>4, <2>1, <2>2, <2>3 DEF Serve
  <1>5. CASE InterruptStatus \/ InterruptCancel
    BY <1>5 DEF InterruptStatus, InterruptCancel
  <1>6. CASE UNCHANGED vars
    BY <1>6 DEF vars
  <1>7. QED
    BY <1>1, <1>2, <1>3, <1>4, <1>5, <1>6 DEF Next, Produce

LEMMA NoteNext ==
  NoteInv /\ BillInv /\ TargetInv /\ PutOK /\ TypeOK /\ [Next]_vars => NoteInv'
  <1> SUFFICES ASSUME NoteInv, BillInv, TargetInv, PutOK, TypeOK, [Next]_vars PROVE NoteInv'
    OBVIOUS
  <1>1. Cancelling => Cancelling'
    BY CancellingKept DEF TypeOK
  <1>2. log \in Seq(Kinds) /\ emitting \in Kinds
    BY DEF TypeOK, ListsOK, ControlOK
  <1>3. emitting \in {"step", "final", "error"} /\ status \in Statuses
    BY DEF TypeOK, ControlOK, Kinds
  <1> USE DEF NoteInv, state, bill, producer, handlers
  <1>4. CASE EnterPut \/ PutTimeout \/ SnapshotMirrors \/ FinishTargets \/ FinishQueue
    BY <1>1, <1>4 DEF EnterPut, PutTimeout, SnapshotMirrors, FinishTargets, FinishQueue
  <1>5. CASE Put
    <2>1. /\ ppc = "emitting" /\ ppc' = ppc /\ emitting' = emitting /\ snapped' = snapped
          /\ status' = status /\ noted' = noted /\ noted = "none"
      BY <1>5 DEF Put, BillInv
    <2>2. CASE Head(targets) = Main
      <3>1. log' = Append(log, emitting)
        BY <1>5, <2>2 DEF Put
      <3>2. log' # <<>> /\ Last(log') = emitting
        BY <1>2, <3>1, AppendOf, EmptySeq DEF Last
      <3>3. QED  BY <1>1, <2>1, <3>2
    <2>3. CASE Head(targets) # Main
      <3>1. snapped /\ log' = log
        BY <1>5, <2>3 DEF Put, PutOK, TargetInv
      <3>2. QED  BY <1>1, <2>1, <3>1
    <2>4. QED  BY <2>2, <2>3
  <1>6. CASE GiveUp \/ Emitted
    BY <1>1, <1>3, <1>6 DEF GiveUp, Emitted, AfterEmit, BillInv, Statuses, Cancelling
  <1>7. CASE Step \/ Raise \/ Settle
    <2>1. CASE Step
      BY <1>1, <2>1 DEF Step, Emit, BillInv, Cancelling
    <2>2. CASE Raise
      BY <1>1, <2>2 DEF Raise, Emit, BillInv, Cancelling
    <2>3. CASE Settle
      BY <1>1, <1>3, <2>3 DEF Settle, Emit, BillInv, Cancelling
    <2>4. QED  BY <1>7, <2>1, <2>2, <2>3
  <1>8. CASE AgentEnds \/ Setup \/ SetupRaises \/ Bill \/ Note \/ SetDone \/ ProducerEnds
    BY <1>1, <1>8 DEF AgentEnds, Setup, SetupRaises, Bill, Note, SetDone, ProducerEnds
  <1>9. ASSUME NEW c \in Clients, Serve(c) \/ Find(c) \/ ClientGoes(c) PROVE NoteInv'
    <2>1. CASE Find(c) \/ ClientGoes(c) \/ Attach(c) \/ Headers(c) \/ Deliver(c)
      BY <1>1, <2>1 DEF Find, ClientGoes, Attach, Headers, Deliver
    <2>2. CASE TakeEnd(c) \/ StreamCancels(c) \/ Leave(c)
      BY <1>1, <2>2 DEF TakeEnd, StreamCancels, Leave
    <2>3. CASE WriteFails(c)
      <3>1. Cancelling'
        BY <2>3 DEF WriteFails, Goto, Cancelling, TypeOK, ControlOK
      <3>2. QED  BY <2>3, <3>1 DEF WriteFails
    <2>4. QED  BY <1>9, <2>1, <2>2, <2>3 DEF Serve
  <1>10. CASE InterruptStatus \/ InterruptCancel
    BY <1>1, <1>10 DEF InterruptStatus, InterruptCancel, Cancelling
  <1>11. CASE UNCHANGED vars
    BY <1>1, <1>11 DEF vars
  <1>12. QED
    BY <1>4, <1>5, <1>6, <1>7, <1>8, <1>9, <1>10, <1>11 DEF Next, Produce

-----------------------------------------------------------------------------
(* Who is attached, and who still gets an event. *)

LEMMA OneElement ==
  /\ Elements(<<>>) = {} /\ Distinct(<<>>)
  /\ \A x : Elements(<<x>>) = {x} /\ Distinct(<<x>>)
  BY DEF Elements, Distinct

LEMMA PrependElements ==
  ASSUME NEW S, NEW s \in Seq(S), NEW x \in S
  PROVE  /\ Elements(<<x>> \o s) = Elements(s) \cup {x}
         /\ Distinct(s) /\ x \notin Elements(s) => Distinct(<<x>> \o s)
  <1> DEFINE t == <<x>> \o s
  <1>1. <<x>> \in Seq(S) /\ Len(<<x>>) = 1 /\ <<x>>[1] = x /\ Len(s) \in Nat
    OBVIOUS
  <1>2. /\ Len(t) = 1 + Len(s)
        /\ \A i \in 1..Len(t) : t[i] = IF i <= 1 THEN <<x>>[i] ELSE s[i - 1]
    BY <1>1, ConcatProperties
  <1> HIDE DEF t
  <1>3. /\ 1 \in 1..Len(t) /\ t[1] = x
        /\ \A i \in 1..Len(t) : i # 1 => i - 1 \in 1..Len(s) /\ t[i] = s[i - 1]
        /\ \A i \in 1..Len(s) : i + 1 \in 1..Len(t) /\ t[i + 1] = s[i]
    BY <1>1, <1>2
  <1>4. Elements(t) = Elements(s) \cup {x}
    <2>1. \A i \in 1..Len(t) : t[i] \in Elements(s) \cup {x}
      BY <1>3 DEF Elements
    <2>2. \A i \in 1..Len(s) : s[i] \in Elements(t)
      <3>1. ASSUME NEW i \in 1..Len(s) PROVE s[i] \in Elements(t)
        <4>1. i + 1 \in 1..Len(t) /\ t[i + 1] = s[i]
          BY <1>3
        <4>2. QED  BY <4>1 DEF Elements
      <3>2. QED  BY <3>1
    <2>3. x \in Elements(t)
      BY <1>3 DEF Elements
    <2>4. QED  BY <2>1, <2>2, <2>3 DEF Elements
  <1>5. ASSUME Distinct(s), x \notin Elements(s), NEW i \in 1..Len(t), NEW j \in 1..Len(t),
               t[i] = t[j]
        PROVE  i = j
    <2>1. CASE i = 1 \/ j = 1
      BY <1>3, <1>5, <2>1 DEF Elements
    <2>2. CASE i # 1 /\ j # 1
      <3>1. i - 1 \in 1..Len(s) /\ j - 1 \in 1..Len(s) /\ s[i - 1] = s[j - 1]
        BY <1>3, <1>5, <2>2
      <3>2. i - 1 = j - 1
        BY <1>5, <3>1 DEF Distinct
      <3>3. QED  BY <1>2, <3>2
    <2>3. QED  BY <2>1, <2>2
  <1>6. QED  BY <1>4, <1>5 DEF t, Distinct

LEMMA HandlerMoves ==
  ASSUME ControlOK, NEW c \in Clients, NEW w, Goto(c, w)
  PROVE  \A d \in Clients : hpc'[d] = IF d = c THEN w ELSE hpc[d]
  BY DEF ControlOK, Goto

LEMMA AttachNext == AttachInv /\ ListsOK /\ ControlOK /\ [Next]_vars => AttachInv'
  <1> SUFFICES ASSUME AttachInv, ListsOK, ControlOK, [Next]_vars PROVE AttachInv'
    OBVIOUS
  <1>1. CASE UNCHANGED <<mirrors, hpc>>
    BY <1>1 DEF AttachInv
  <1>2. CASE Produce \/ InterruptStatus \/ InterruptCancel \/ UNCHANGED vars
    <2>1. UNCHANGED <<mirrors, hpc>>
      <3> USE DEF state, handlers
      <3>1. CASE EnterPut \/ Put \/ PutTimeout \/ SnapshotMirrors \/ FinishTargets \/ FinishQueue
        BY <3>1 DEF EnterPut, Put, PutTimeout, SnapshotMirrors, FinishTargets, FinishQueue
      <3>2. CASE GiveUp \/ Emitted \/ Step \/ Raise \/ Settle
        BY <3>2 DEF GiveUp, Emitted, Step, Raise, Settle
      <3>3. CASE AgentEnds \/ Setup \/ SetupRaises \/ Bill \/ Note \/ SetDone \/ ProducerEnds
        BY <3>3 DEF AgentEnds, Setup, SetupRaises, Bill, Note, SetDone, ProducerEnds
      <3>4. CASE InterruptStatus \/ InterruptCancel \/ UNCHANGED vars
        BY <3>4 DEF InterruptStatus, InterruptCancel, vars
      <3>5. QED  BY <1>2, <3>1, <3>2, <3>3, <3>4 DEF Produce
    <2>2. QED  BY <1>1, <2>1
  <1>3. ASSUME NEW c \in Clients, Serve(c) \/ Find(c) \/ ClientGoes(c) PROVE AttachInv'
    <2> USE DEF state, handlers
    <2>1. CASE ClientGoes(c) \/ Deliver(c)
      BY <1>1, <2>1 DEF ClientGoes, Deliver
    <2>2. CASE Find(c) \/ Headers(c)
      BY <2>2, HandlerMoves, Streams DEF Find, Headers, AttachInv
    <2>3. CASE TakeEnd(c) \/ WriteFails(c) \/ StreamCancels(c)
      BY <2>3, HandlerMoves, Streams DEF TakeEnd, WriteFails, StreamCancels, AttachInv
    <2>4. CASE Attach(c)
      <3>1. CASE mirrors' = mirrors
        <4>1. c = Main \/ Goto(c, "refused")
          <5>1. c # Main => Append(mirrors, c) # mirrors
            BY AppendOf DEF ListsOK, Clients
          <5>2. QED  BY <2>4, <3>1, <5>1 DEF Attach
        <4>2. hpc[c] = "found" /\ (Goto(c, "refused") \/ Goto(c, "headers"))
          BY <2>4 DEF Attach
        <4>3. QED  BY <3>1, <4>1, <4>2, HandlerMoves, Streams DEF AttachInv
      <3>2. CASE mirrors' # mirrors
        <4>1. c \in Mirrors /\ mirrors' = Append(mirrors, c) /\ c \notin Elements(mirrors)
          BY <2>4, <3>2 DEF Attach, Clients, AttachInv
        <4>2. Distinct(mirrors') /\ Elements(mirrors') = Elements(mirrors) \cup {c}
          BY <4>1, AppendElements DEF AttachInv, ListsOK
        <4>3. hpc' = [hpc EXCEPT ![c] = "headers"]
          BY <2>4, <3>2 DEF Attach, Goto
        <4>4. QED  BY <4>1, <4>2, <4>3, Streams DEF AttachInv, ControlOK
      <3>3. QED  BY <3>1, <3>2
    <2>5. CASE Leave(c)
      <3>1. /\ Distinct(mirrors')
            /\ \A m : m \in Elements(mirrors') <=> m \in Elements(mirrors) /\ m # c
        BY <2>5, PoppedElements DEF Leave, AttachInv
      <3>2. QED  BY <2>5, <3>1, Streams DEF Leave, Goto, AttachInv, ControlOK
    <2>6. QED  BY <1>3, <2>1, <2>2, <2>3, <2>4, <2>5 DEF Serve
  <1>4. QED  BY <1>2, <1>3 DEF Next

\* The mirrors are other streams than the controlling one.
LEMMA MainApart ==
  ASSUME ListsOK
  PROVE  Elements(mirrors) \subseteq Mirrors /\ Main \notin Elements(mirrors)
  BY Streams DEF ListsOK, Elements

LEMMA TargetNext ==
  TargetInv /\ AttachInv /\ PutOK /\ ListsOK /\ ControlOK /\ [Next]_vars => TargetInv'
  <1> SUFFICES ASSUME TargetInv, AttachInv, PutOK, ListsOK, ControlOK, [Next]_vars
               PROVE  TargetInv'
    OBVIOUS
  <1>1. targets # <<>> =>
          /\ Elements(targets) = Elements(Tail(targets)) \cup {Head(targets)}
          /\ Distinct(Tail(targets))
    BY TailElements DEF ListsOK, TargetInv
  <1>2. Tail(<<Main>>) = <<>>
    OBVIOUS
  <1> USE DEF TargetInv, state, bill, producer, handlers
  <1>3. CASE EnterPut \/ PutTimeout
    BY <1>3 DEF EnterPut, PutTimeout
  <1>4. CASE Put
    <2>1. targets # <<>> /\ targets' = Tail(targets) /\ ppc = "emitting"
      BY <1>4 DEF Put, PutOK
    <2>2. CASE snapped
      BY <1>1, <1>4, <2>1, <2>2 DEF Put
    <2>3. CASE ~snapped
      <3>1. targets' = <<>>
        BY <1>2, <2>1, <2>3
      <3>2. QED  BY <1>1, <1>4, <2>1, <2>3, <3>1 DEF Put
    <2>4. QED  BY <2>2, <2>3
  <1>5. CASE SnapshotMirrors
    <2>1. \A m \in Mirrors : m \in Elements(mirrors) => hpc[m] \notin Unattached
      BY DEF AttachInv, Unattached
    <2>2. QED  BY <1>5, <2>1, MainApart DEF SnapshotMirrors, AttachInv
  <1>6. CASE FinishTargets
    <2>1. mirrors \in Seq(Clients)
      BY Streams, SeqMonotonic DEF ListsOK
    <2>2. /\ Elements(<<Main>> \o mirrors) = Elements(mirrors) \cup {Main}
          /\ Distinct(<<Main>> \o mirrors)
      BY <2>1, Streams, MainApart, PrependElements DEF AttachInv
    <2>3. \A m \in Mirrors : m \in Elements(mirrors) \cup {Main} => hpc[m] \notin Unattached
      BY Streams DEF AttachInv, Unattached
    <2>4. QED  BY <1>6, <2>2, <2>3 DEF FinishTargets
  <1>7. CASE FinishQueue
    <2>1. targets' = targets \/ targets' = Tail(targets)
      BY <1>7 DEF FinishQueue, PutEnd, MakeRoom
    <2>2. QED  BY <1>1, <1>7, <2>1 DEF FinishQueue
  <1>8. CASE GiveUp \/ Emitted
    BY <1>8, OneElement DEF GiveUp, Emitted, AfterEmit
  <1>9. CASE Step \/ Raise \/ Settle
    BY <1>9, OneElement, Streams DEF Step, Raise, Settle, Emit
  <1>10. CASE AgentEnds \/ Setup \/ SetupRaises \/ Bill \/ Note \/ SetDone \/ ProducerEnds
    BY <1>10 DEF AgentEnds, Setup, SetupRaises, Bill, Note, SetDone, ProducerEnds
  <1>11. ASSUME NEW c \in Clients, Serve(c) \/ Find(c) \/ ClientGoes(c) PROVE TargetInv'
    <2> USE DEF Unattached
    <2>1. CASE ClientGoes(c) \/ Deliver(c)
      BY <2>1 DEF ClientGoes, Deliver
    <2>2. CASE Find(c) \/ Headers(c)
      BY <2>2, HandlerMoves, Streams DEF Find, Headers
    <2>3. CASE Attach(c)
      BY <2>3, HandlerMoves, Streams DEF Attach
    <2>4. CASE TakeEnd(c) \/ WriteFails(c)
      BY <2>4, HandlerMoves, Streams DEF TakeEnd, WriteFails
    <2>5. CASE StreamCancels(c) \/ Leave(c)
      BY <2>5, HandlerMoves, Streams DEF StreamCancels, Leave
    <2>6. QED  BY <1>11, <2>1, <2>2, <2>3, <2>4, <2>5 DEF Serve
  <1>12. CASE InterruptStatus \/ InterruptCancel
    BY <1>12 DEF InterruptStatus, InterruptCancel
  <1>13. CASE UNCHANGED vars
    BY <1>13 DEF vars
  <1>14. QED
    BY <1>3, <1>4, <1>5, <1>6, <1>7, <1>8, <1>9, <1>10, <1>11, <1>12, <1>13
    DEF Next, Produce

-----------------------------------------------------------------------------
(* The sentinel, and why a handler stands where it stands. *)

\* What EndInv says of one stream.
Ended(c) ==
  /\ (sawEnd[c] \/ END \in Elements(queue[c])) =>
       ppc \in {"finishing", "ended"} /\ c \notin Elements(targets)
  /\ \A i \in 1..Len(queue[c]) : queue[c][i] = END => i = Len(queue[c])
  /\ \A i \in 1..Len(got[c]) : got[c][i] # END
  /\ sawEnd[c] => queue[c] = <<>> /\ hpc[c] \in {"leaving", "left"}

LEMMA EndIsEach == EndInv <=> \A c \in Clients : Ended(c)
  BY DEF EndInv, Ended

\* A queue whose last element is taken away has no other sentinel.
LEMMA TakeFirst ==
  ASSUME NEW q \in Seq(Nat), q # <<>>,
         \A i \in 1..Len(q) : q[i] = END => i = Len(q)
  PROVE  /\ \A i \in 1..Len(Tail(q)) : Tail(q)[i] = END => i = Len(Tail(q))
         /\ END \in Elements(Tail(q)) => END \in Elements(q)
         /\ Head(q) # END => (END \in Elements(Tail(q)) <=> END \in Elements(q))
         /\ Head(q) = END => Tail(q) = <<>> /\ Elements(q) = {END} /\ Len(q) = 1
  <1> DEFINE t == Tail(q)
             h == Head(q)
  <1>1. /\ Len(q) \in Nat \ {0} /\ Len(t) = Len(q) - 1 /\ h = q[1] /\ t \in Seq(Nat)
        /\ \A i \in 1..(Len(q) - 1) : t[i] = q[i + 1]
    BY TailOf
  <1>2. Elements(q) = Elements(t) \cup {h}
    BY TailElements
  <1> HIDE DEF t, h
  <1>3. ASSUME NEW i \in 1..Len(t), t[i] = END PROVE i = Len(t)
    <2>1. i \in Nat /\ i + 1 \in 1..Len(q) /\ q[i + 1] = END
      BY <1>1, <1>3
    <2>2. i + 1 = Len(q)
      BY <2>1
    <2>3. QED  BY <1>1, <2>1, <2>2
  <1>4. ASSUME h = END PROVE t = <<>> /\ Elements(q) = {END} /\ Len(q) = 1
    <2>1. 1 \in 1..Len(q) /\ q[1] = END
      BY <1>1, <1>4
    <2>2. Len(q) = 1
      BY <2>1
    <2>3. t = <<>>
      BY <1>1, <2>2, EmptySeq
    <2>4. QED  BY <1>2, <1>4, <2>2, <2>3, OneElement
  <1>5. QED  BY <1>2, <1>3, <1>4 DEF t, h

\* The sentinel, or an event, at the end of a queue that has no sentinel.
LEMMA AddLast ==
  ASSUME NEW q \in Seq(Nat), NEW n \in Nat, END \notin Elements(q)
  PROVE  /\ END \in Elements(Append(q, n)) <=> n = END
         /\ \A i \in 1..Len(Append(q, n)) :
              Append(q, n)[i] = END => i = Len(Append(q, n))
  <1>1. Elements(Append(q, n)) = Elements(q) \cup {n}
    BY AppendElements
  <1>2. /\ Len(q) \in Nat /\ Len(Append(q, n)) = Len(q) + 1
        /\ \A i \in 1..Len(q) : Append(q, n)[i] = q[i] /\ q[i] # END
    BY AppendOf DEF Elements
  <1>3. ASSUME NEW i \in 1..Len(Append(q, n)), Append(q, n)[i] = END
        PROVE  i = Len(Append(q, n))
    <2>1. i \in 1..Len(q) \/ i = Len(Append(q, n))
      BY <1>2
    <2>2. QED  BY <1>2, <1>3, <2>1
  <1>4. QED  BY <1>1, <1>3

LEMMA EndNext ==
  EndInv /\ TargetInv /\ NoteInv /\ PutOK /\ TypeOK /\ [Next]_vars => EndInv'
  <1> SUFFICES ASSUME EndInv, TargetInv, NoteInv, PutOK, TypeOK, [Next]_vars,
                      NEW d \in Clients
               PROVE  Ended(d)'
    BY DEF EndInv, Ended
  <1>1. Ended(d)
    BY EndIsEach
  <1>2. /\ queue[d] \in Seq(Nat) /\ got[d] \in Seq(Nat) /\ log \in Seq(Kinds)
        /\ queue \in [Clients -> Seq(Nat)] /\ got \in [Clients -> Seq(Nat)]
        /\ sawEnd \in [Clients -> BOOLEAN] /\ emitting \in Kinds /\ ControlOK
    BY DEF TypeOK, QueuesOK, ListsOK, ControlOK, FlagsOK
  <1>0. ControlOK
    BY DEF TypeOK
  <1>3. targets # <<>> =>
          /\ Elements(targets) = Elements(Tail(targets)) \cup {Head(targets)}
          /\ Head(targets) \notin Elements(Tail(targets))
          /\ Head(targets) \in Clients
    BY TailElements, TailOf DEF TypeOK, ListsOK, TargetInv
  <1>4. CASE Put
    <2> DEFINE h == Head(targets)
    <2>1. targets # <<>> /\ ppc = "emitting"
      BY <1>4 DEF Put, PutOK
    <2>2. ~sawEnd[d] /\ END \notin Elements(queue[d])
      BY <1>1, <2>1 DEF Ended
    <2>3. Len(log') \in Nat \ {END}
      <3>1. CASE h = Main
        BY <1>2, <1>4, <3>1, AppendOf DEF Put, END
      <3>2. CASE h # Main
        <4>1. snapped /\ log' = log /\ ppc = "emitting"
          BY <1>4, <2>1, <3>2 DEF Put, TargetInv
        <4>2. log # <<>>
          BY <4>1 DEF NoteInv
        <4>3. QED  BY <1>2, <4>1, <4>2, EmptySeq DEF END
      <3>3. QED  BY <3>1, <3>2
    <2>4. QED
      <3>1. queue'[d] = IF d = h THEN Append(queue[d], Len(log')) ELSE queue[d]
        BY <1>2, <1>4 DEF Put
      <3>2. /\ END \notin Elements(queue'[d])
            /\ \A i \in 1..Len(queue'[d]) : queue'[d][i] = END => i = Len(queue'[d])
        <4>1. CASE d = h
          <5>1. /\ END \notin Elements(Append(queue[d], Len(log')))
                /\ \A i \in 1..Len(Append(queue[d], Len(log'))) :
                     Append(queue[d], Len(log'))[i] = END
                       => i = Len(Append(queue[d], Len(log')))
            BY <1>2, <2>2, <2>3, AddLast
          <5>2. QED  BY <3>1, <4>1, <5>1
        <4>2. CASE d # h
          BY <1>1, <2>2, <3>1, <4>2 DEF Ended
        <4>3. QED  BY <4>1, <4>2
      <3>3. QED  BY <1>1, <1>4, <2>2, <3>2 DEF Put, Ended, handlers
  <1> USE DEF state, bill, producer, handlers
  <1>5. CASE FinishQueue
    <2> DEFINE h == Head(targets)
    <2>1. targets # <<>> /\ h \in Clients
      BY <1>3, <1>5 DEF FinishQueue
    <2>2. UNCHANGED <<got, sawEnd, hpc, ppc>> /\ ppc = "finishing"
      BY <1>5 DEF FinishQueue
    <2>3. CASE d # h
      <3>1. queue'[d] = queue[d] /\ (targets' = targets \/ targets' = Tail(targets))
        BY <1>2, <1>5, <2>3 DEF FinishQueue, PutEnd, MakeRoom
      <3>2. QED  BY <1>1, <1>3, <2>1, <2>2, <3>1 DEF Ended
    <2>4. CASE d = h
      <3>1. ~sawEnd[d] /\ END \notin Elements(queue[d])
        BY <1>1, <1>3, <2>1, <2>4 DEF Ended
      <3>2. CASE PutEnd(h)
        <4>1. queue'[d] = Append(queue[d], END) /\ targets' = Tail(targets) /\ END \in Nat
          BY <1>2, <2>4, <3>2 DEF PutEnd, END
        <4>2. \A i \in 1..Len(queue'[d]) : queue'[d][i] = END => i = Len(queue'[d])
          BY <1>2, <3>1, <4>1, AddLast
        <4>3. QED  BY <1>1, <1>3, <2>1, <2>2, <2>4, <3>1, <4>1, <4>2 DEF Ended
      <3>3. CASE MakeRoom(h)
        <4>1. queue[d] # <<>>
          BY <1>2, <2>4, <3>3, StreamAssumption DEF MakeRoom, Room
        <4>2. queue'[d] = Tail(queue[d]) /\ targets' = targets
          BY <1>2, <2>4, <3>3 DEF MakeRoom
        <4>3. /\ END \notin Elements(queue'[d])
              /\ \A i \in 1..Len(queue'[d]) : queue'[d][i] = END => i = Len(queue'[d])
          <5>1. /\ END \notin Elements(Tail(queue[d]))
                /\ \A i \in 1..Len(Tail(queue[d])) :
                     Tail(queue[d])[i] = END => i = Len(Tail(queue[d]))
            BY <1>1, <1>2, <3>1, <4>1, TakeFirst DEF Ended
          <5>2. QED  BY <4>2, <5>1
        <4>4. QED  BY <1>1, <2>2, <3>1, <4>2, <4>3 DEF Ended
      <3>4. QED  BY <1>5, <3>2, <3>3 DEF FinishQueue
    <2>5. QED  BY <2>3, <2>4
  <1>6. CASE UNCHANGED <<queue, got, sawEnd, hpc>> /\ ppc \notin {"finishing", "ended"}
    BY <1>1, <1>6 DEF Ended
  <1>7. CASE EnterPut \/ PutTimeout \/ SnapshotMirrors \/ FinishTargets \/ GiveUp \/ Emitted
    BY <1>6, <1>7 DEF EnterPut, PutTimeout, SnapshotMirrors, FinishTargets, GiveUp, Emitted
  <1>8. CASE Step \/ Raise \/ Settle \/ AgentEnds \/ Setup \/ SetupRaises \/ Bill \/ Note \/ SetDone
    BY <1>6, <1>8 DEF Step, Raise, Settle, AgentEnds, Setup, SetupRaises, Bill, Note, SetDone
  <1>9. CASE ProducerEnds
    BY <1>1, <1>9 DEF ProducerEnds, Ended
  <1>10. ASSUME NEW c \in Clients, Serve(c) \/ Find(c) \/ ClientGoes(c) PROVE Ended(d)'
    <2>1. CASE ClientGoes(c)
      BY <1>1, <2>1 DEF ClientGoes, Ended
    <2>2. CASE Find(c) \/ Headers(c)
      <3>1. sawEnd[d] => d # c
        BY <1>1, <2>2 DEF Find, Headers, Ended
      <3>2. d # c => hpc'[d] = hpc[d]
        BY <2>2, <1>0, HandlerMoves DEF Find, Headers
      <3>3. QED  BY <1>1, <2>2, <3>1, <3>2 DEF Find, Headers, Ended
    <2>3. CASE Attach(c)
      <3>1. sawEnd[d] => d # c
        BY <1>1, <2>3 DEF Attach, Ended
      <3>2. d # c => hpc'[d] = hpc[d]
        BY <2>3, <1>0, HandlerMoves DEF Attach
      <3>3. QED  BY <1>1, <2>3, <3>1, <3>2 DEF Attach, Ended
    <2>4. CASE Deliver(c)
      <3>1. CASE d # c
        BY <1>1, <1>2, <2>4, <3>1 DEF Deliver, Ended
      <3>2. CASE d = c
        <4>1. queue[d] # <<>> /\ Head(queue[d]) # END /\ ~sawEnd[d]
          BY <1>1, <2>4, <3>2 DEF Deliver, Ended
        <4>2. queue'[d] = Tail(queue[d]) /\ got'[d] = Append(got[d], Head(queue[d]))
          BY <1>2, <2>4, <3>2 DEF Deliver
        <4>3. \A i \in 1..Len(got'[d]) : got'[d][i] # END
          <5>1. /\ Len(got[d]) \in Nat /\ Len(got'[d]) = Len(got[d]) + 1
                /\ got'[d][Len(got[d]) + 1] = Head(queue[d])
                /\ \A i \in 1..Len(got[d]) : got'[d][i] = got[d][i]
            BY <1>2, <4>1, <4>2, AppendOf, TailOf
          <5>2. \A i \in 1..Len(got'[d]) : i \in 1..Len(got[d]) \/ i = Len(got[d]) + 1
            BY <5>1
          <5>3. QED  BY <1>1, <4>1, <5>1, <5>2 DEF Ended
        <4>4. /\ \A i \in 1..Len(queue'[d]) : queue'[d][i] = END => i = Len(queue'[d])
              /\ END \in Elements(queue'[d]) => END \in Elements(queue[d])
          BY <1>1, <1>2, <4>1, <4>2, TakeFirst DEF Ended
        <4>5. QED  BY <1>1, <2>4, <4>1, <4>3, <4>4 DEF Deliver, Ended
      <3>3. QED  BY <3>1, <3>2
    <2>5. CASE TakeEnd(c)
      <3>1. CASE d # c
        BY <1>1, <1>2, <2>5, <3>1, HandlerMoves DEF TakeEnd, Ended
      <3>2. CASE d = c
        <4>1. queue[d] # <<>> /\ Head(queue[d]) = END
          BY <2>5, <3>2 DEF TakeEnd
        <4>2. Tail(queue[d]) = <<>> /\ END \in Elements(queue[d])
          BY <1>1, <1>2, <4>1, TakeFirst DEF Ended
        <4>3. queue'[d] = <<>> /\ sawEnd'[d] /\ hpc'[d] = "leaving"
          BY <1>2, <2>5, <3>2, <4>2, HandlerMoves DEF TakeEnd
        <4>4. QED  BY <1>1, <2>5, <4>2, <4>3, OneElement DEF TakeEnd, Ended
      <3>3. QED  BY <3>1, <3>2
    <2>6. CASE WriteFails(c)
      <3>1. CASE d # c
        BY <1>1, <1>2, <2>6, <3>1, HandlerMoves DEF WriteFails, Ended
      <3>2. CASE d = c
        <4>1. ~sawEnd[d]
          BY <1>1, <2>6, <3>2 DEF WriteFails, Ended
        <4>2. queue'[d] = queue[d] \/ (queue[d] # <<>> /\ queue'[d] = Tail(queue[d]))
          BY <1>2, <2>6, <3>2 DEF WriteFails
        <4>3. /\ \A i \in 1..Len(queue'[d]) : queue'[d][i] = END => i = Len(queue'[d])
              /\ END \in Elements(queue'[d]) => END \in Elements(queue[d])
          BY <1>1, <1>2, <4>2, TakeFirst DEF Ended
        <4>4. QED  BY <1>1, <2>6, <4>1, <4>3 DEF WriteFails, Ended
      <3>3. QED  BY <3>1, <3>2
    <2>7. CASE StreamCancels(c) \/ Leave(c)
      BY <1>1, <1>2, <2>7, HandlerMoves DEF StreamCancels, Leave, Ended
    <2>8. QED
      BY <1>10, <2>1, <2>2, <2>3, <2>4, <2>5, <2>6, <2>7 DEF Serve
  <1>11. CASE InterruptStatus \/ InterruptCancel
    BY <1>1, <1>11 DEF InterruptStatus, InterruptCancel, Ended
  <1>12. CASE UNCHANGED vars
    BY <1>1, <1>12 DEF vars, Ended
  <1>13. QED
    BY <1>4, <1>5, <1>7, <1>8, <1>9, <1>10, <1>11, <1>12 DEF Next, Produce

\* What HandlerInv says of one stream.
Placed(c) ==
  /\ hpc[c] \in {"cancelling", "unwound"} => gone[c]
  /\ hpc[c] \in {"leaving", "left"} => cancel \/ sawEnd[c]
  /\ c # Main /\ hpc[c] \in Unattached => queue[c] = <<>> /\ got[c] = <<>>

LEMMA HandlerNext ==
  HandlerInv /\ TargetInv /\ PutOK /\ TypeOK /\ [Next]_vars => HandlerInv'
  <1> SUFFICES ASSUME HandlerInv, TargetInv, PutOK, TypeOK, [Next]_vars,
                      NEW d \in Clients
               PROVE  Placed(d)'
    BY DEF HandlerInv, Placed
  <1>1. Placed(d)
    BY DEF HandlerInv, Placed
  <1>2. ControlOK
    BY DEF TypeOK
  <1>3. /\ queue \in [Clients -> Seq(Nat)] /\ got \in [Clients -> Seq(Nat)]
        /\ sawEnd \in [Clients -> BOOLEAN] /\ gone \in [Clients -> BOOLEAN]
    BY DEF TypeOK, QueuesOK, FlagsOK
  <1>4. /\ targets # <<>> => Head(targets) \in Elements(targets)
        /\ d # Main => d \in Mirrors
    BY TailElements DEF TypeOK, ListsOK, Clients
  <1>5. targets # <<>> /\ d = Head(targets) /\ d # Main => hpc[d] \notin Unattached
    BY <1>4 DEF TargetInv
  <1> USE DEF state, bill, producer, handlers
  <1>6. CASE Put
    <2>1. targets # <<>> /\ (d # Head(targets) => queue'[d] = queue[d])
      BY <1>3, <1>6 DEF Put, PutOK
    <2>2. QED  BY <1>1, <1>5, <1>6, <2>1 DEF Put, Placed
  <1>7. CASE FinishQueue
    <2>1. targets # <<>> /\ (d # Head(targets) => queue'[d] = queue[d])
      BY <1>3, <1>7 DEF FinishQueue, PutEnd, MakeRoom
    <2>2. QED  BY <1>1, <1>5, <1>7, <2>1 DEF FinishQueue, Placed
  <1>8. CASE UNCHANGED <<queue, got, cancel, sawEnd, hpc, gone>>
    BY <1>1, <1>8 DEF Placed
  <1>9. CASE EnterPut \/ PutTimeout \/ SnapshotMirrors \/ FinishTargets \/ GiveUp \/ Emitted
    BY <1>8, <1>9 DEF EnterPut, PutTimeout, SnapshotMirrors, FinishTargets, GiveUp, Emitted
  <1>10. CASE Step \/ Raise \/ Settle \/ AgentEnds \/ Setup \/ SetupRaises \/ Bill \/ Note \/ SetDone \/ ProducerEnds
    BY <1>8, <1>10 DEF Step, Raise, Settle, AgentEnds, Setup, SetupRaises, Bill, Note, SetDone, ProducerEnds
  <1>11. ASSUME NEW c \in Clients, Serve(c) \/ Find(c) \/ ClientGoes(c) PROVE Placed(d)'
    <2> USE DEF Unattached
    <2>1. CASE ClientGoes(c)
      BY <1>1, <1>3, <2>1 DEF ClientGoes, Placed
    <2>2. CASE Find(c)
      <3>1. hpc'[d] = hpc[d] \/ (hpc[d] = "start" /\ hpc'[d] = "found")
        BY <1>2, <2>2, HandlerMoves DEF Find
      <3>2. QED  BY <1>1, <2>2, <3>1 DEF Find, Placed
    <2>3. CASE Attach(c)
      <3>1. hpc'[d] = hpc[d] \/ (hpc[d] = "found" /\ hpc'[d] \in {"refused", "headers"})
        BY <1>2, <2>3, HandlerMoves DEF Attach
      <3>2. QED  BY <1>1, <2>3, <3>1 DEF Attach, Placed
    <2>4. CASE Headers(c)
      <3>1. hpc'[d] = hpc[d] \/ hpc'[d] = "reading" \/ (hpc'[d] = "unwound" /\ gone[d])
        BY <1>2, <2>4, HandlerMoves DEF Headers
      <3>2. QED  BY <1>1, <2>4, <3>1 DEF Headers, Placed
    <2>5. CASE Deliver(c)
      <3>1. (queue'[d] = queue[d] /\ got'[d] = got[d]) \/ hpc[d] = "reading"
        BY <1>3, <2>5 DEF Deliver
      <3>2. QED  BY <1>1, <2>5, <3>1 DEF Deliver, Placed
    <2>6. CASE TakeEnd(c)
      <3>1. \/ queue'[d] = queue[d] /\ sawEnd'[d] = sawEnd[d] /\ hpc'[d] = hpc[d]
            \/ hpc'[d] = "leaving" /\ sawEnd'[d]
        BY <1>2, <1>3, <2>6, HandlerMoves DEF TakeEnd
      <3>2. QED  BY <1>1, <2>6, <3>1 DEF TakeEnd, Placed
    <2>7. CASE WriteFails(c)
      <3>1. \/ queue'[d] = queue[d] /\ hpc'[d] = hpc[d]
            \/ hpc'[d] = "cancelling" /\ gone[d]
        BY <1>2, <1>3, <2>7, HandlerMoves DEF WriteFails
      <3>2. QED  BY <1>1, <2>7, <3>1 DEF WriteFails, Placed
    <2>8. CASE StreamCancels(c)
      <3>1. hpc'[d] = hpc[d] \/ hpc'[d] = "leaving"
        BY <1>2, <2>8, HandlerMoves DEF StreamCancels
      <3>2. QED  BY <1>1, <2>8, <3>1 DEF StreamCancels, Placed
    <2>9. CASE Leave(c)
      <3>1. hpc'[d] = hpc[d] \/ (hpc[d] = "leaving" /\ hpc'[d] = "left")
        BY <1>2, <2>9, HandlerMoves DEF Leave
      <3>2. QED  BY <1>1, <2>9, <3>1 DEF Leave, Placed
    <2>10. QED
      BY <1>11, <2>1, <2>2, <2>3, <2>4, <2>5, <2>6, <2>7, <2>8, <2>9 DEF Serve
  <1>12. CASE InterruptStatus \/ InterruptCancel
    BY <1>1, <1>12 DEF InterruptStatus, InterruptCancel, Placed
  <1>13. CASE UNCHANGED vars
    BY <1>1, <1>13 DEF vars, Placed
  <1>14. QED
    BY <1>6, <1>7, <1>9, <1>10, <1>11, <1>12, <1>13 DEF Next, Produce

-----------------------------------------------------------------------------
(* Streams are consecutive. *)

LEMMA Counts ==
  ASSUME QueuesOK, ListsOK, NEW d \in Clients
  PROVE  /\ Len(log) \in Nat /\ Len(queue[d]) \in Nat /\ Len(got[d]) \in Nat
         /\ Held(d) \in Int /\ Held(d) <= Len(queue[d]) /\ Due(d) \in Int
  BY DEF QueuesOK, ListsOK, Held, Due

\* A step that leaves a stream, and its due, alone.
LEMMA SameStream ==
  ASSUME NEW d, Consecutive(d), queue'[d] = queue[d], got'[d] = got[d], Due(d)' = Due(d)
  PROVE  Consecutive(d)'
  <1>1. Held(d)' = Held(d)
    BY DEF Held
  <1>2. Missed(d)' = Missed(d)
    BY <1>1 DEF Missed
  <1>3. QED  BY <1>1, <1>2 DEF Consecutive

LEMMA EmptyStream ==
  ASSUME NEW d, d # Main, queue'[d] = <<>>, got'[d] = <<>>
  PROVE  Consecutive(d)'
  <1>1. END \notin Elements(queue'[d])
    BY OneElement
  <1>2. Held(d)' = 0 /\ Len(got'[d]) = 0
    BY <1>1 DEF Held
  <1>3. QED  BY <1>2 DEF Consecutive

\* The stream's due grows by the event its queue receives.
LEMMA PutStream ==
  ASSUME QueuesOK, ListsOK, NEW d \in Clients, Consecutive(d), NEW n \in Nat,
         END \notin Elements(queue[d]), n # END,
         queue'[d] = Append(queue[d], n), got'[d] = got[d],
         Due(d)' = Due(d) + 1, n = Due(d) + 1
  PROVE  Consecutive(d)'
  <1> DEFINE q == queue[d]
             r == queue'[d]
             k == Len(got[d])
             x == Missed(d)
             y == Due(d)
  <1>1. q \in Seq(Nat) /\ Len(q) \in Nat /\ k \in Nat /\ y \in Int /\ n = y + 1
    BY Counts DEF QueuesOK
  <1>2. /\ Len(r) = Len(q) + 1 /\ r[Len(q) + 1] = n
        /\ \A i \in 1..Len(q) : r[i] = q[i]
    BY <1>1, AppendOf
  <1>3. Held(d) = Len(q) /\ Held(d)' = Len(r)
    <2>1. END \notin Elements(r)
      BY <1>1, AddLast
    <2>2. QED  BY <2>1 DEF Held
  <1>4. x = y - Len(q) - k
    BY <1>3 DEF Missed
  <1>5. Missed(d)' = (y + 1) - Len(r) - k
    BY <1>3 DEF Missed
  <1> HIDE DEF q, r, k, x, y
  <1>6. Missed(d)' = x /\ x \in Int
    BY <1>1, <1>2, <1>4, <1>5
  <1>7. ASSUME NEW i \in 1..Len(r) PROVE r[i] = x + k + i
    <2>1. i \in 1..Len(q) \/ i = Len(q) + 1
      BY <1>1, <1>2
    <2>2. CASE i \in 1..Len(q)
      BY <1>2, <1>3, <2>2 DEF Consecutive, q, k, x
    <2>3. CASE i = Len(q) + 1
      BY <1>1, <1>2, <1>4, <2>3
    <2>4. QED  BY <2>1, <2>2, <2>3
  <1>8. QED  BY <1>3, <1>6, <1>7 DEF Consecutive, q, r, k, x

LEMMA DeliverStream ==
  ASSUME QueuesOK, ListsOK, NEW d \in Clients, Consecutive(d), Ended(d),
         queue[d] # <<>>, Head(queue[d]) # END,
         queue'[d] = Tail(queue[d]), got'[d] = Append(got[d], Head(queue[d])),
         Due(d)' = Due(d)
  PROVE  Consecutive(d)'
  <1> DEFINE q == queue[d]
             r == queue'[d]
             g == got[d]
             f == got'[d]
             x == Missed(d)
             e == Held(d)
             y == Due(d)
  <1>1. /\ q \in Seq(Nat) /\ g \in Seq(Nat) /\ Len(q) \in Nat \ {0} /\ Len(g) \in Nat
        /\ y \in Int
    BY Counts, TailOf DEF QueuesOK
  <1>2. /\ Len(r) = Len(q) - 1
        /\ \A i \in 1..(Len(q) - 1) : r[i] = q[i + 1]
        /\ Head(q) = q[1] /\ Head(q) \in Nat
    BY <1>1, TailOf
  <1>3. /\ Len(f) = Len(g) + 1 /\ f[Len(g) + 1] = q[1]
        /\ \A i \in 1..Len(g) : f[i] = g[i]
    BY <1>1, <1>2, AppendOf
  <1>4. Held(d)' = e - 1 /\ e \in Int /\ e >= 1 /\ e <= Len(q)
    <2>1. END \in Elements(r) <=> END \in Elements(q)
      BY <1>1, TakeFirst DEF Ended
    <2>2. END \in Elements(q) => Len(q) > 1
      <3>1. ASSUME NEW i \in 1..Len(q), q[i] = END PROVE i # 1
        BY <1>2, <3>1
      <3>2. QED  BY <1>1, <3>1 DEF Elements
    <2>3. QED  BY <1>1, <1>2, <2>1, <2>2 DEF Held
  <1>5. x = y - e - Len(g)
    BY DEF Missed
  <1>6. Missed(d)' = y - (e - 1) - Len(f)
    BY <1>4 DEF Missed
  <1>7. /\ \A i \in 1..Len(g) : g[i] = x + i
        /\ \A i \in 1..e : q[i] = x + Len(g) + i
        /\ d = Main => x = 0
    BY DEF Consecutive
  <1> HIDE DEF q, r, g, f, x, e, y
  <1>8. Missed(d)' = x /\ x \in Int
    <2>1. y - (e - 1) - Len(f) = y - e - Len(g) /\ y - e - Len(g) \in Int
      BY <1>1, <1>3, <1>4
    <2>2. QED  BY <1>5, <1>6, <2>1, Zenon
  <1>9. ASSUME NEW i \in 1..Len(f) PROVE f[i] = x + i
    <2>1. i \in 1..Len(g) \/ i = Len(g) + 1
      BY <1>1, <1>3
    <2>2. CASE i \in 1..Len(g)
      BY <1>3, <1>7, <2>2
    <2>3. CASE i = Len(g) + 1
      <3>1. 1 \in 1..e
        BY <1>4
      <3>2. q[1] = x + Len(g) + 1
        BY <1>7, <3>1
      <3>3. QED  BY <1>1, <1>3, <1>8, <2>3, <3>2
    <2>4. QED  BY <2>1, <2>2, <2>3
  <1>10. ASSUME NEW i \in 1..(e - 1) PROVE r[i] = x + Len(f) + i
    <2>1. i + 1 \in 1..e /\ i \in 1..(Len(q) - 1) /\ i \in Int
      BY <1>1, <1>4
    <2>2. r[i] = x + Len(g) + (i + 1)
      BY <1>2, <1>7, <2>1
    <2>3. QED  BY <1>1, <1>3, <1>8, <2>1, <2>2
  <1>11. QED
    BY <1>4, <1>7, <1>8, <1>9, <1>10 DEF Consecutive, q, r, g, f, x, e

\* The sentinel is put, or taken: it is not one of the events that are held.
LEMMA EndStream ==
  ASSUME QueuesOK, ListsOK, NEW d \in Clients, Consecutive(d), Ended(d),
         \/ END \notin Elements(queue[d]) /\ queue'[d] = Append(queue[d], END)
         \/ queue[d] # <<>> /\ Head(queue[d]) = END /\ queue'[d] = Tail(queue[d]),
         got'[d] = got[d], Due(d)' = Due(d)
  PROVE  Consecutive(d)'
  <1>1. queue[d] \in Seq(Nat) /\ END \in Nat /\ Len(queue[d]) \in Nat
    BY DEF QueuesOK, END
  <1>2. Held(d)' = Held(d) /\ \A i \in 1..Held(d) : queue'[d][i] = queue[d][i]
    <2>1. CASE END \notin Elements(queue[d]) /\ queue'[d] = Append(queue[d], END)
      <3>1. /\ Len(queue'[d]) = Len(queue[d]) + 1
            /\ \A i \in 1..Len(queue[d]) : queue'[d][i] = queue[d][i]
        BY <1>1, <2>1, AppendOf
      <3>2. END \in Elements(queue'[d])
        BY <1>1, <2>1, AddLast
      <3>3. QED  BY <1>1, <2>1, <3>1, <3>2 DEF Held
    <2>2. CASE queue[d] # <<>> /\ Head(queue[d]) = END /\ queue'[d] = Tail(queue[d])
      <3>1. queue'[d] = <<>> /\ END \in Elements(queue[d]) /\ Len(queue[d]) = 1
        BY <1>1, <2>2, TakeFirst DEF Ended
      <3>2. Held(d) = 0 /\ Held(d)' = 0
        BY <3>1, OneElement DEF Held
      <3>3. QED  BY <3>2
    <2>3. QED  BY <2>1, <2>2
  <1>3. Missed(d)' = Missed(d)
    BY <1>2 DEF Missed
  <1>4. QED  BY <1>2, <1>3 DEF Consecutive

LEMMA FlowNext == TypeOK /\ PutOK /\ IInv /\ [Next]_vars => FlowInv'
  <1> SUFFICES ASSUME TypeOK, PutOK, IInv, [Next]_vars,
                      NEW d \in Clients, ~cancel', hpc'[d] # "cancelling"
               PROVE  Consecutive(d)'
    BY DEF FlowInv
  <1>1. /\ QueuesOK /\ ListsOK /\ ControlOK /\ TargetInv /\ AttachInv /\ Ended(d)
        /\ queue \in [Clients -> Seq(Nat)] /\ got \in [Clients -> Seq(Nat)]
    BY EndIsEach DEF TypeOK, IInv, QueuesOK
  <1>2. ~cancel /\ hpc[d] # "cancelling" => Consecutive(d)
    BY DEF IInv, FlowInv
  <1>3. targets # <<>> =>
          /\ Elements(targets) = Elements(Tail(targets)) \cup {Head(targets)}
          /\ Head(targets) \notin Elements(Tail(targets))
    BY <1>1, TailElements DEF ListsOK, TargetInv
  <1>4. Len(log) \in Nat
    BY <1>1, Counts
  <1> USE DEF state, bill, producer, handlers
  <1>5. CASE Put
    <2> DEFINE h == Head(targets)
    <2>1. /\ targets # <<>> /\ ppc = "emitting" /\ ppc' = ppc /\ snapped' = snapped
          /\ targets' = Tail(targets) /\ Consecutive(d)
      BY <1>2, <1>5 DEF Put, PutOK
    <2>2. /\ got'[d] = got[d]
          /\ queue'[d] = IF d = h THEN Append(queue[d], Len(log')) ELSE queue[d]
      BY <1>1, <1>5 DEF Put
    <2>3. END \notin Elements(queue[d])
      BY <1>1, <2>1 DEF Ended
    <2>4. IF h = Main THEN Len(log') = Len(log) + 1 ELSE Len(log') = Len(log)
      BY <1>1, <1>5, AppendOf DEF Put, ListsOK, ControlOK
    <2>5. CASE ~snapped
      <3>1. targets = <<Main>> /\ h = Main /\ targets' = <<>>
        <4>1. targets = <<Main>>
          BY <1>1, <2>1, <2>5 DEF TargetInv
        <4>2. Head(<<Main>>) = Main /\ Tail(<<Main>>) = <<>>
          OBVIOUS
        <4>3. QED  BY <2>1, <4>1, <4>2
      <3>2. ~Awaits(d) /\ (Awaits(d)' <=> d # Main)
        BY <2>1, <2>5, <3>1 DEF Awaits
      <3>3. CASE d = Main
        <4>1. Due(d) = Len(log) /\ Due(d)' = Len(log')
          BY <3>2, <3>3 DEF Due
        <4>2. Due(d)' = Due(d) + 1 /\ Len(log') = Due(d) + 1 /\ Len(log') \in Nat
              /\ Len(log') # END
          BY <1>4, <2>4, <3>1, <4>1 DEF END
        <4>3. QED  BY <1>1, <2>1, <2>2, <2>3, <3>1, <3>3, <4>2, PutStream
      <3>4. CASE d # Main
        <4>1. Due(d) = Len(log) /\ Due(d)' = Len(log') - 1
          BY <3>2, <3>4 DEF Due
        <4>2. Due(d)' = Due(d)
          BY <1>4, <2>4, <3>1, <4>1
        <4>3. QED  BY <2>1, <2>2, <3>1, <3>4, <4>2, SameStream
      <3>5. QED  BY <3>3, <3>4
    <2>6. CASE snapped
      <3>1. h # Main /\ Main \notin Elements(targets)
        BY <1>1, <1>3, <2>1, <2>6 DEF TargetInv
      <3>2. /\ Awaits(d) <=> d \in Elements(targets)
            /\ Awaits(d)' <=> d \in Elements(Tail(targets))
        BY <2>1, <2>6 DEF Awaits
      <3>3. log # <<>> /\ Len(log') = Len(log) /\ Len(log) >= 1
        BY <1>1, <2>1, <2>4, <2>6, <3>1, EmptySeq DEF IInv, NoteInv, ListsOK
      <3>4. CASE d = h
        <4>1. Due(d) = Len(log) - 1 /\ Due(d)' = Len(log')
          BY <1>3, <2>1, <3>2, <3>4 DEF Due
        <4>2. Due(d)' = Due(d) + 1 /\ Len(log') = Due(d) + 1 /\ Len(log') \in Nat
              /\ Len(log') # END
          BY <1>4, <3>3, <4>1 DEF END
        <4>3. QED  BY <1>1, <2>1, <2>2, <2>3, <3>4, <4>2, PutStream
      <3>5. CASE d # h
        <4>1. Awaits(d)' <=> Awaits(d)
          BY <1>3, <2>1, <3>2, <3>5
        <4>2. Due(d)' = Due(d)
          BY <3>3, <4>1 DEF Due
        <4>3. QED  BY <2>1, <2>2, <3>5, <4>2, SameStream
      <3>6. QED  BY <3>4, <3>5
    <2>7. QED  BY <2>5, <2>6
  <1>6. CASE FinishQueue
    <2> DEFINE h == Head(targets)
    <2>1. /\ targets # <<>> /\ PutEnd(h) /\ ppc = "finishing" /\ ppc' = ppc
          /\ UNCHANGED <<got, log>> /\ Consecutive(d)
      BY <1>2, <1>6 DEF FinishQueue
    <2>2. Due(d)' = Due(d)
      BY <2>1 DEF Due, Awaits
    <2>3. queue'[d] = IF d = h THEN Append(queue[d], END) ELSE queue[d]
      BY <1>1, <2>1 DEF PutEnd
    <2>4. CASE d = h
      <3>1. END \notin Elements(queue[d])
        BY <1>1, <1>3, <2>1, <2>4 DEF Ended
      <3>2. QED  BY <1>1, <2>1, <2>2, <2>3, <2>4, <3>1, EndStream
    <2>5. CASE d # h
      BY <2>1, <2>2, <2>3, <2>5, SameStream
    <2>6. QED  BY <2>4, <2>5
  <1>7. CASE SnapshotMirrors
    <2>1. /\ ppc = "emitting" /\ ~snapped /\ targets = <<>> /\ snapped' /\ ppc' = ppc
          /\ targets' = mirrors /\ UNCHANGED <<queue, got, log>> /\ Consecutive(d)
      BY <1>2, <1>7 DEF SnapshotMirrors
    <2>2. CASE d # Main /\ d \notin Elements(mirrors)
      <3>1. hpc[d] \in Unattached \cup {"left"} /\ ~sawEnd[d]
        BY <1>1, <2>1, <2>2 DEF AttachInv, Ended, Clients, ControlOK, Unattached
      <3>2. queue[d] = <<>> /\ got[d] = <<>>
        BY <1>7, <2>2, <3>1 DEF IInv, HandlerInv, SnapshotMirrors
      <3>3. QED  BY <2>1, <2>2, <3>2, EmptyStream
    <2>3. CASE d = Main \/ d \in Elements(mirrors)
      <3>1. Awaits(d)' <=> Awaits(d)
        BY <1>1, <2>1, <2>3, MainApart, Streams DEF Awaits
      <3>2. Due(d)' = Due(d)
        BY <2>1, <3>1 DEF Due
      <3>3. QED  BY <2>1, <3>2, SameStream
    <2>4. QED  BY <2>2, <2>3
  <1>8. CASE EnterPut \/ PutTimeout
    <2>1. UNCHANGED <<queue, got, hpc, cancel, ppc, snapped, targets, log>>
      BY <1>8 DEF EnterPut, PutTimeout
    <2>2. Due(d)' = Due(d)
      BY <2>1 DEF Due, Awaits
    <2>3. QED  BY <1>2, <2>1, <2>2, SameStream
  <1>9. ASSUME UNCHANGED <<queue, got, hpc, cancel, log>>, ~Awaits(d), ~Awaits(d)'
        PROVE  Consecutive(d)'
    BY <1>2, <1>9, SameStream DEF Due
  <1>10. CASE GiveUp
    BY <1>10 DEF GiveUp
  <1>11. CASE Emitted
    <2>1. ~Awaits(d) /\ ~Awaits(d)'
      BY <1>11, OneElement DEF Emitted, AfterEmit, Awaits
    <2>2. QED  BY <1>9, <1>11, <2>1 DEF Emitted
  <1>12. CASE Step \/ Raise \/ Settle
    <2>1. ~Awaits(d) /\ ~Awaits(d)'
      BY <1>12 DEF Step, Raise, Settle, Emit, Awaits
    <2>2. QED  BY <1>9, <1>12, <2>1 DEF Step, Raise, Settle
  <1>13. CASE AgentEnds \/ Setup \/ SetupRaises \/ Bill \/ Note \/ SetDone \/ FinishTargets \/ ProducerEnds
    <2>1. ~Awaits(d) /\ ~Awaits(d)'
      BY <1>13 DEF AgentEnds, Setup, SetupRaises, Bill, Note, SetDone, FinishTargets, ProducerEnds, Awaits
    <2>2. QED
      BY <1>9, <1>13, <2>1 DEF AgentEnds, Setup, SetupRaises, Bill, Note, SetDone, FinishTargets, ProducerEnds
  <1>14. ASSUME NEW c \in Clients, Serve(c) \/ Find(c) \/ ClientGoes(c)
         PROVE  Consecutive(d)'
    <2>1. CASE UNCHANGED <<cancel, producer>>
      <3>1. Due(d)' = Due(d)
        BY <2>1 DEF Due, Awaits
      <3>2. ASSUME queue'[d] = queue[d], got'[d] = got[d],
                   hpc[d] = "cancelling" => hpc'[d] = "cancelling"
            PROVE  Consecutive(d)'
        BY <1>2, <2>1, <3>1, <3>2, SameStream
      <3>3. CASE ClientGoes(c) \/ Find(c) \/ Headers(c)
        BY <1>1, <3>2, <3>3, HandlerMoves DEF ClientGoes, Find, Headers
      <3>4. CASE Attach(c)
        BY <1>1, <3>2, <3>4, HandlerMoves DEF Attach
      <3>5. CASE Leave(c)
        BY <1>1, <3>2, <3>5, HandlerMoves DEF Leave
      <3>6. CASE Deliver(c)
        <4>1. CASE d # c
          BY <1>1, <3>2, <3>6, <4>1 DEF Deliver
        <4>2. CASE d = c
          <5>1. /\ queue[d] # <<>> /\ Head(queue[d]) # END
                /\ queue'[d] = Tail(queue[d]) /\ got'[d] = Append(got[d], Head(queue[d]))
                /\ hpc[d] = "reading"
            BY <1>1, <3>6, <4>2 DEF Deliver
          <5>2. QED  BY <1>1, <1>2, <2>1, <3>1, <5>1, DeliverStream
        <4>3. QED  BY <4>1, <4>2
      <3>7. CASE TakeEnd(c)
        <4>1. CASE d # c
          BY <1>1, <3>2, <3>7, <4>1, HandlerMoves DEF TakeEnd
        <4>2. CASE d = c
          <5>1. /\ queue[d] # <<>> /\ Head(queue[d]) = END
                /\ queue'[d] = Tail(queue[d]) /\ got'[d] = got[d] /\ hpc[d] = "reading"
            BY <1>1, <3>7, <4>2 DEF TakeEnd
          <5>2. QED  BY <1>1, <1>2, <2>1, <3>1, <5>1, EndStream
        <4>3. QED  BY <4>1, <4>2
      <3>8. CASE WriteFails(c)
        <4>1. d # c
          BY <1>1, <3>8, HandlerMoves DEF WriteFails
        <4>2. QED  BY <1>1, <3>2, <3>8, <4>1, HandlerMoves DEF WriteFails
      <3>9. CASE StreamCancels(c)
        BY <3>9 DEF StreamCancels
      <3>10. QED
        BY <1>14, <3>3, <3>4, <3>5, <3>6, <3>7, <3>8, <3>9 DEF Serve
    <2>2. CASE StreamCancels(c)
      BY <2>2 DEF StreamCancels
    <2>3. ~StreamCancels(c) => UNCHANGED <<cancel, producer>>
      BY <1>14 DEF Serve, Find, ClientGoes, Attach, Headers, Deliver, TakeEnd, WriteFails, Leave
    <2>4. QED  BY <2>1, <2>2, <2>3
  <1>15. CASE InterruptStatus \/ InterruptCancel \/ UNCHANGED vars
    <2>1. UNCHANGED <<queue, got, hpc, cancel, ppc, snapped, targets, log>>
      BY <1>15 DEF InterruptStatus, InterruptCancel, vars
    <2>2. Due(d)' = Due(d)
      BY <2>1 DEF Due, Awaits
    <2>3. QED  BY <1>2, <2>1, <2>2, SameStream
  <1>16. QED
    BY <1>5, <1>6, <1>7, <1>8, <1>10, <1>11, <1>12, <1>13, <1>14, <1>15 DEF Next, Produce

-----------------------------------------------------------------------------
(* The theorems. *)

LEMMA InvInit == Init => TypeOK /\ PutOK /\ IInv
  <1> SUFFICES ASSUME Init PROVE TypeOK /\ PutOK /\ IInv
    OBVIOUS
  <1>1. TypeOK /\ PutOK
    BY TypeInit
  <1>2. BillInv /\ NoteInv
    BY DEF Init, BillInv, Share, NoteInv
  <1>3. AttachInv /\ TargetInv
    BY OneElement, Streams DEF Init, AttachInv, TargetInv
  <1>4. EndInv /\ HandlerInv
    BY OneElement DEF Init, EndInv, HandlerInv
  <1>5. FlowInv
    <2>1. ASSUME NEW c \in Clients PROVE Consecutive(c)
      <3>1. queue[c] = <<>> /\ got[c] = <<>> /\ log = <<>> /\ ppc = "setup"
        BY DEF Init
      <3>2. Held(c) = 0 /\ Due(c) = 0 /\ Len(got[c]) = 0
        BY <3>1, OneElement DEF Held, Due, Awaits
      <3>3. QED  BY <3>2 DEF Consecutive, Missed
    <2>2. QED  BY <2>1 DEF FlowInv
  <1>6. QED  BY <1>1, <1>2, <1>3, <1>4, <1>5 DEF IInv

LEMMA InvCorrect == Spec => [](TypeOK /\ PutOK /\ IInv)
  <1>1. TypeOK /\ PutOK /\ IInv /\ [Next]_vars => (TypeOK /\ PutOK /\ IInv)'
    <2> SUFFICES ASSUME TypeOK, PutOK, IInv, [Next]_vars
                 PROVE  TypeOK' /\ PutOK' /\ IInv'
      OBVIOUS
    <2>1. QueuesOK /\ ListsOK /\ FlagsOK /\ ControlOK
      BY DEF TypeOK
    <2>2. TypeOK' /\ PutOK'
      BY TypeNext
    <2>3. BillInv' /\ NoteInv' /\ AttachInv'
      BY <2>1, BillNext, NoteNext, AttachNext DEF IInv
    <2>4. TargetInv' /\ EndInv' /\ HandlerInv'
      BY <2>1, TargetNext, EndNext, HandlerNext DEF IInv
    <2>5. FlowInv'
      BY FlowNext
    <2>6. QED  BY <2>2, <2>3, <2>4, <2>5 DEF IInv
  <1>2. QED  BY InvInit, <1>1, PTL DEF Spec

(* The billing is called exactly once for the run of an account that was    *)
(* noted, never twice, and never for an anonymous run, whatever interrupts, *)
(* failing writes and errors come (_produce).                               *)
THEOREM UsageSettledOnce == Spec => []BilledOnce
  <1>1. IInv => BilledOnce
    BY DEF IInv, BillInv, Share, BilledOnce
  <1>2. QED  BY InvCorrect, <1>1, PTL

(* A run noted as completed or failed has put its final usage event into    *)
(* the stream, unless it was cancelled while that event waited for room,    *)
(* and only an interrupt notes it interrupted (_produce).                   *)
THEOREM NoteIsHonest == Spec => []NoteHonest
  <1>1. IInv => NoteHonest
    BY DEF IInv, NoteInv, NoteHonest, Last, Cancelling
  <1>2. QED  BY InvCorrect, <1>1, PTL

(* A controlling stream that ends by itself carried every event, in order,  *)
(* up to the final usage or the error, whatever the queue's size and how    *)
(* many mirrors came and went (_stream and RunState.finish).                *)
THEOREM StreamIsComplete == Spec => []CompleteStream
  <1>1. TypeOK /\ IInv => CompleteStream
    <2> SUFFICES ASSUME TypeOK, IInv, sawEnd[Main], ~cancel
                 PROVE  /\ got[Main] = Numbers(Len(log))
                        /\ log # <<>> /\ log[Len(log)] \in {"final", "error"}
      BY DEF CompleteStream
    <2>1. Main \in Clients /\ QueuesOK /\ ListsOK
      BY Streams DEF TypeOK
    <2>2. /\ ppc \in {"finishing", "ended"} /\ queue[Main] = <<>>
          /\ hpc[Main] # "cancelling"
      BY <2>1 DEF IInv, EndInv
    <2>3. log # <<>> /\ log[Len(log)] \in {"final", "error"}
      BY <2>2 DEF IInv, NoteInv, Last
    <2>4. Held(Main) = 0 /\ Due(Main) = Len(log)
      BY <2>2, OneElement DEF Held, Due, Awaits
    <2>5. Consecutive(Main)
      BY <2>1, <2>2 DEF IInv, FlowInv
    <2>6. Missed(Main) = Len(log) - 0 - Len(got[Main]) /\ Missed(Main) = 0
      BY <2>4, <2>5 DEF Missed, Consecutive
    <2>7. got[Main] \in Seq(Nat) /\ Len(got[Main]) \in Nat /\ Len(log) \in Nat
      BY <2>1, Counts DEF QueuesOK
    <2>8. Len(got[Main]) = Len(log)
      BY <2>6, <2>7
    <2>9. \A i \in 1..Len(log) : got[Main][i] = i
      BY <2>5, <2>6, <2>7, <2>8 DEF Consecutive
    <2>10. got[Main] = [i \in 1..Len(log) |-> got[Main][i]]
      BY <2>7, <2>8
    <2>11. QED  BY <2>3, <2>9, <2>10 DEF Numbers
  <1>2. QED  BY InvCorrect, <1>1, PTL

(* Until the run is interrupted, a mirror whose client stays gets           *)
(* consecutive events from the moment it attaches, whenever that is, then   *)
(* the end, which comes after the run's last event (_stream, attach_lock).  *)
THEOREM MirrorsFollow == Spec => []MirrorFollows
  <1>1. TypeOK /\ IInv => MirrorFollows
    <2> SUFFICES ASSUME TypeOK, IInv, NEW m \in Mirrors, ~cancel, ~gone[m]
                 PROVE  LET seen == got[m] \o queue[m]
                        IN  /\ \A i \in 1..(Len(seen) - 1) :
                                 seen[i] # END /\ seen[i + 1] \in {seen[i] + 1, END}
                            /\ sawEnd[m] /\ seen # <<>> => seen[Len(seen)] = Len(log)
      BY DEF MirrorFollows
    <2> DEFINE g == got[m]
               q == queue[m]
               s == g \o q
               x == Missed(m)
    <2>1. m \in Clients /\ hpc[m] # "cancelling" /\ Consecutive(m) /\ Ended(m)
      BY Streams, EndIsEach DEF IInv, HandlerInv, FlowInv
    <2>2. /\ g \in Seq(Nat) /\ q \in Seq(Nat) /\ Len(g) \in Nat /\ Len(q) \in Nat
          /\ x \in Int /\ Len(log) \in Nat
      BY <2>1, Counts DEF TypeOK, QueuesOK, Missed
    <2>3. /\ Len(s) = Len(g) + Len(q)
          /\ \A i \in 1..Len(s) : s[i] = IF i <= Len(g) THEN g[i] ELSE q[i - Len(g)]
      <3> HIDE DEF g, q, x
      <3>1. QED  BY <2>2, ConcatProperties
    <2>4. \A i \in 1..Len(g) : g[i] = x + i /\ g[i] # END
      BY <2>1 DEF Consecutive, Ended
    <2>5. \A i \in 1..Len(q) : q[i] = x + Len(g) + i \/ (q[i] = END /\ i = Len(q))
      <3>1. CASE END \notin Elements(q)
        BY <2>1, <3>1 DEF Consecutive, Held
      <3>2. CASE END \in Elements(q)
        <4>1. PICK k \in 1..Len(q) : q[k] = END
          BY <3>2 DEF Elements
        <4>2. k = Len(q)
          BY <2>1, <4>1 DEF Ended
        <4>3. Held(m) = Len(q) - 1
          BY <3>2 DEF Held
        <4>4. \A i \in 1..Len(q) : i \in 1..(Len(q) - 1) \/ i = k
          BY <2>2, <4>2
        <4>5. QED  BY <2>1, <4>1, <4>2, <4>3, <4>4 DEF Consecutive
      <3>3. QED  BY <3>1, <3>2
    <2>6. \A i \in 1..(Len(q) - 1) : q[i] # END
      <3>1. ASSUME NEW i \in 1..(Len(q) - 1), q[i] = END PROVE FALSE
        <4>1. i \in 1..Len(q) /\ i # Len(q)
          BY <2>2
        <4>2. QED  BY <2>1, <3>1, <4>1 DEF Ended
      <3>2. QED  BY <3>1
    <2>7. sawEnd[m] => q = <<>> /\ Len(g) + x = Len(log)
      <3>1. ASSUME sawEnd[m] PROVE q = <<>> /\ Len(g) + x = Len(log)
        <4>1. q = <<>> /\ ppc \in {"finishing", "ended"}
          BY <2>1, <3>1 DEF Ended
        <4>2. Held(m) = 0 /\ Due(m) = Len(log)
          BY <4>1, OneElement DEF Held, Due, Awaits
        <4>3. x = Len(log) - 0 - Len(g)
          BY <4>2 DEF Missed
        <4> HIDE DEF x, g
        <4>4. QED  BY <2>2, <4>1, <4>3
      <3>2. QED  BY <3>1
    <2> HIDE DEF g, q, s, x
    <2>8. ASSUME NEW i \in 1..(Len(s) - 1)
          PROVE  s[i] # END /\ s[i + 1] \in {s[i] + 1, END}
      <3>1. i \in 1..Len(s) /\ i + 1 \in 1..Len(s) /\ i \in Nat
        BY <2>2, <2>3
      <3>2. CASE i + 1 <= Len(g)
        <4>1. i \in 1..Len(g) /\ i + 1 \in 1..Len(g) /\ i <= Len(g)
          BY <2>2, <3>1, <3>2
        <4>2. s[i] = x + i /\ s[i + 1] = x + (i + 1) /\ s[i] # END
          BY <2>3, <2>4, <3>1, <3>2, <4>1
        <4>3. QED  BY <2>2, <3>1, <4>2
      <3>3. CASE i = Len(g)
        <4>1. i \in 1..Len(g) /\ 1 \in 1..Len(q) /\ (i + 1) - Len(g) = 1
          BY <2>2, <2>3, <3>1, <3>3
        <4>2. s[i] = x + i /\ s[i] # END /\ s[i + 1] = q[1]
          <5>1. i <= Len(g) /\ ~(i + 1 <= Len(g))
            BY <2>2, <3>1, <3>3
          <5>2. s[i] = g[i] /\ s[i + 1] = q[(i + 1) - Len(g)]
            BY <2>3, <3>1, <5>1
          <5>3. QED  BY <2>4, <4>1, <5>2
        <4>3. q[1] = x + Len(g) + 1 \/ q[1] = END
          BY <2>5, <4>1
        <4>4. QED  BY <2>2, <3>1, <3>3, <4>2, <4>3
      <3>4. CASE i > Len(g)
        <4> DEFINE j == i - Len(g)
        <4>1. /\ j \in 1..(Len(q) - 1) /\ j \in 1..Len(q) /\ j + 1 \in 1..Len(q)
              /\ (i + 1) - Len(g) = j + 1
          BY <2>2, <2>3, <3>1, <3>4
        <4>2. s[i] = q[j] /\ s[i + 1] = q[j + 1]
          BY <2>2, <2>3, <3>1, <3>4, <4>1
        <4>3. q[j] = x + Len(g) + j /\ q[j] # END
          BY <2>5, <2>6, <4>1
        <4>4. q[j + 1] = x + Len(g) + (j + 1) \/ q[j + 1] = END
          BY <2>5, <4>1
        <4>5. j \in Int
          BY <2>2, <3>1
        <4> HIDE DEF j
        <4>6. QED  BY <2>2, <4>2, <4>3, <4>4, <4>5
      <3>5. QED  BY <2>2, <3>1, <3>2, <3>3, <3>4
    <2>9. ASSUME sawEnd[m], s # <<>> PROVE s[Len(s)] = Len(log)
      <3>1. Len(q) = 0 /\ Len(g) + x = Len(log)
        BY <2>7, <2>9
      <3>2. Len(s) = Len(g) /\ Len(s) # 0
        <4>1. s \in Seq(Nat)
          BY <2>2, ConcatProperties DEF s
        <4>2. QED  BY <2>2, <2>3, <2>9, <3>1, <4>1, EmptySeq
      <3>3. Len(s) \in 1..Len(s) /\ Len(s) \in 1..Len(g) /\ Len(s) <= Len(g)
        BY <2>2, <3>2
      <3>4. s[Len(s)] = x + Len(g)
        BY <2>3, <2>4, <3>2, <3>3
      <3>5. QED  BY <2>2, <3>1, <3>4
    <2>10. QED  BY <2>8, <2>9 DEF s, g, q
  <1>2. QED  BY InvCorrect, <1>1, PTL

=============================================================================
