--------------------------- MODULE WorkbenchProofs ---------------------------
(***************************************************************************)
(* Proofs about the parts of the workbench that run beside a session: tool *)
(* servers, language servers, shell jobs, Python, the terminal and the     *)
(* headless command; for every value of their constants.  First each part  *)
(* by itself, then the workbench, of which a step is a step of one part.   *)
(***************************************************************************)
EXTENDS Workbench, FiniteSetTheorems, WellFoundedInduction, TLAPS

-----------------------------------------------------------------------------
(* The client of a tool server (mjj/mcp.py). *)

\* The client numbers its requests from one.
Numbers == Nat \ {0}

\* What the queue holds: a request of the server has one of its numbers.
McpMessage ==
  {m \in [kind : {"answer", "ask", "broken"}, id : Int \cup ServerIds] :
     /\ m.kind = "ask" => m.id \in ServerIds
     /\ m.kind = "broken" => m.id = 0}

\* A request that waits has a number of the client's own.
McpInv ==
  /\ _next_id \in Numbers /\ unanswered \subseteq Numbers
  /\ mcp \in Mcp!Waiting => awaited \in Numbers
  /\ _messages \in Seq(McpMessage)
  /\ Mcp!AnswerIsMine

LEMMA McpRequest ==
  ASSUME McpInv, NEW method, Mcp!request(method)
  PROVE  /\ _next_id' \in Numbers
         /\ mcp' \in Mcp!Waiting => awaited' \in Numbers
         /\ unanswered' \subseteq Numbers
  <1>1. _next_id \in Numbers /\ unanswered \subseteq Numbers
    BY DEF McpInv
  <1>2. _next_id + 1 \in Numbers
    BY <1>1 DEF Numbers
  <1>3. QED  BY <1>1, <1>2 DEF Mcp!request, Mcp!Waiting

LEMMA McpAccept ==
  ASSUME McpInv, NEW m \in McpMessage, m.kind # "broken", m.id = awaited,
         Mcp!Accept(m)
  PROVE  /\ _next_id' \in Numbers /\ unanswered' \subseteq Numbers
         /\ mcp' \in Mcp!Waiting => awaited' \in Numbers
         /\ Mcp!AnswerIsMine'
  <1>1. Mcp!AnswerIsMine'
    BY DEF Mcp!Accept, Mcp!AnswerIsMine, McpMessage
  <1>2. \/ Mcp!request("list")
        \/ mcp' \in {"ready", "broken"} /\ UNCHANGED <<_next_id, unanswered>>
    BY DEF Mcp!Accept
  <1>3. QED  BY <1>1, <1>2, McpRequest DEF McpInv, Mcp!Waiting

(* MCPClient.request: what a request to a tool server returns bears its     *)
(* number, and is the server's answer unless the server numbered a request  *)
(* of its own like it (the number is compared before the kind).             *)
THEOREM ToolAnswersAreMine == Mcp!McpSpec => []Mcp!AnswerIsMine
  <1>1. Mcp!McpInit => McpInv
    BY DEF Mcp!McpInit, McpInv, Numbers, Mcp!Waiting, Mcp!AnswerIsMine, Mcp!None
  <1>2. McpInv /\ [Mcp!McpNext]_(Mcp!mcpVars) => McpInv'
    <2> SUFFICES ASSUME McpInv, [Mcp!McpNext]_(Mcp!mcpVars) PROVE McpInv'
      OBVIOUS
    <2>1. CASE Mcp!start
      <3>1. _next_id \in Numbers /\ _next_id + 1 \in Numbers
        BY DEF McpInv, Numbers
      <3>2. QED
        BY <2>1, <3>1 DEF Mcp!start, McpInv, Mcp!AnswerIsMine, Mcp!Waiting
    <2>2. CASE Mcp!call_tool
      BY <2>2, McpRequest DEF Mcp!call_tool, McpInv, Mcp!AnswerIsMine
    <2>3. CASE Mcp!Receive
      <3> DEFINE m == Head(_messages)
      <3>1. m \in McpMessage /\ _messages' \in Seq(McpMessage) /\ awaited \in Numbers
        BY <2>3 DEF Mcp!Receive, McpInv
      <3>0. \/ Mcp!Accept(m) /\ m.kind # "broken" /\ m.id = awaited
            \/ Mcp!Raise
            \/ UNCHANGED <<mcp, _next_id, awaited, unanswered, returned>>
        <4>1. CASE m.kind = "broken"
          <5>1. m.id # awaited
            BY <3>1, <4>1 DEF McpMessage, Numbers
          <5>2. QED  BY <2>3, <4>1, <5>1 DEF Mcp!Receive
        <4>2. CASE m.kind # "broken" /\ m.id = awaited
          BY <2>3, <4>2 DEF Mcp!Receive
        <4>3. CASE m.kind # "broken" /\ m.id # awaited /\ m.kind = "ask" /\ ~alive
          BY <2>3, <4>3 DEF Mcp!Receive
        <4>4. CASE m.kind # "broken" /\ m.id # awaited /\ ~(m.kind = "ask" /\ ~alive)
          BY <2>3, <4>4 DEF Mcp!Receive
        <4>5. QED  BY <4>1, <4>2, <4>3, <4>4
      <3> HIDE DEF m
      <3>2. CASE Mcp!Accept(m) /\ m.kind # "broken" /\ m.id = awaited
        BY <3>1, <3>2, McpAccept DEF McpInv
      <3>3. CASE Mcp!Raise
        BY <3>1, <3>3 DEF Mcp!Raise, McpInv, Mcp!AnswerIsMine, Mcp!Waiting
      <3>4. CASE UNCHANGED <<mcp, _next_id, awaited, unanswered, returned>>
        BY <3>1, <3>4 DEF McpInv, Mcp!AnswerIsMine
      <3>5. QED
        BY <3>0, <3>2, <3>3, <3>4
    <2>4. CASE Mcp!Timeout
      BY <2>4 DEF Mcp!Timeout, Mcp!Raise, McpInv, Mcp!AnswerIsMine, Mcp!Waiting
    <2>5. CASE Mcp!Abandon \/ Mcp!Close
      BY <2>5 DEF Mcp!Abandon, Mcp!Close, Mcp!close, McpInv, Mcp!AnswerIsMine, Mcp!Waiting
    <2>6. CASE Mcp!_read_stdout
      <3>1. unanswered' \subseteq unanswered
        BY <2>6 DEF Mcp!_read_stdout
      <3>2. _messages' \in Seq(McpMessage)
        <4>1. PICK kind \in {"answer", "ask", "broken"}, id \in Int \cup ServerIds :
                /\ Mcp!Put(kind, id)
                /\ kind = "ask" => id \in ServerIds
                /\ kind = "broken" => id = 0
          <5>1. CASE \E id \in unanswered : Mcp!Put("answer", id)
            BY <5>1 DEF McpInv, Numbers
          <5>2. CASE Mcp!Put("broken", 0)
            <6>1. 0 \in Int \cup ServerIds
              OBVIOUS
            <6>2. QED  BY <5>2, <6>1
          <5>3. CASE \E id \in ServerIds : Mcp!Put("ask", id)
            BY <5>3
          <5>4. QED  BY <2>6, <5>1, <5>2, <5>3 DEF Mcp!_read_stdout
        <4>2. [kind |-> kind, id |-> id] \in McpMessage
          BY <4>1 DEF McpMessage
        <4>3. QED  BY <4>1, <4>2 DEF Mcp!Put, McpInv
      <3>3. QED
        BY <2>6, <3>1, <3>2 DEF Mcp!_read_stdout, McpInv, Mcp!AnswerIsMine
    <2>7. CASE UNCHANGED Mcp!mcpVars
      BY <2>7 DEF Mcp!mcpVars, McpInv, Mcp!AnswerIsMine
    <2>8. QED
      BY <2>1, <2>2, <2>3, <2>4, <2>5, <2>6, <2>7 DEF Mcp!McpNext
  <1>3. McpInv => Mcp!AnswerIsMine
    BY DEF McpInv
  <1>4. QED  BY <1>1, <1>2, <1>3, PTL DEF Mcp!McpSpec

-----------------------------------------------------------------------------
(* The client of a language server (mjj/lsp.py). *)


\* What the thread that reads a language server puts into the queue.
LspMessage ==
  [kind : {"answer", "error", "publish", "ask", "end"}, id : Int \cup Asks,
   list : Lists \cup {Empty}]

LspInv ==
  /\ sequence \in Nat /\ owed \subseteq Nat
  /\ inbox \in Seq(LspMessage)
  /\ Lsp!LspAnswerIsMine

LEMMA LspRequest ==
  ASSUME LspInv, NEW method, NEW else, Lsp!request(method, else)
  PROVE  sequence' \in Nat /\ owed' \subseteq Nat
  <1>1. sequence' \in Nat
    BY DEF LspInv, Lsp!request
  <1>2. owed' = owed \cup {sequence'} \/ owed' = owed
    BY DEF Lsp!request
  <1>3. QED  BY <1>1, <1>2 DEF LspInv

LEMMA LspAccept ==
  ASSUME LspInv, NEW m \in LspMessage, m.kind = "answer", m.id = sequence,
         Lsp!Answered(m)
  PROVE  sequence' \in Nat /\ owed' \subseteq Nat /\ Lsp!LspAnswerIsMine'
  <1>1. Lsp!LspAnswerIsMine'
    BY DEF Lsp!Answered, Lsp!LspAnswerIsMine
  <1>2. Lsp!request("second", "closing") \/ UNCHANGED <<sequence, owed>>
    <2>1. CASE lsp = "initialize"
      BY <2>1 DEF Lsp!Answered
    <2>2. CASE lsp = "first" /\ purpose = "hierarchy"
      BY <2>2 DEF Lsp!Answered
    <2>3. CASE lsp = "pull"
      BY <2>3 DEF Lsp!Answered
    <2>4. CASE /\ lsp \notin {"initialize", "pull"}
               /\ ~(lsp = "first" /\ purpose = "hierarchy")
      BY <2>4 DEF Lsp!Answered
    <2>5. QED  BY <2>1, <2>2, <2>3, <2>4
  <1>3. QED  BY <1>1, <1>2, LspRequest DEF LspInv

LEMMA LspReads ==
  ASSUME LspInv, Lsp!Next_message
  PROVE  LspInv'
  <1> DEFINE m == Head(inbox)
  <1>1. m \in LspMessage /\ inbox' \in Seq(LspMessage)
    BY DEF Lsp!Next_message, LspInv
  <1>2. \/ UNCHANGED <<sequence, owed, answer>>
        \/ Lsp!Answered(m) /\ m.kind = "answer" /\ m.id = sequence
    <2>1. CASE m.kind = "end"
      BY <2>1 DEF Lsp!Next_message
    <2>2. CASE m.kind = "publish"
      BY <2>2 DEF Lsp!Next_message
    <2>3. CASE m.kind = "ask"
      BY <2>3 DEF Lsp!Next_message
    <2>4. CASE m.kind = "error"
      <3>1. CASE m.id = sequence
        BY <2>4, <3>1 DEF Lsp!Next_message
      <3>2. CASE m.id # sequence
        BY <2>4, <3>2 DEF Lsp!Next_message
      <3>3. QED  BY <3>1, <3>2
    <2>5. CASE m.kind = "answer" /\ m.id # sequence
      BY <2>5 DEF Lsp!Next_message
    <2>6. CASE m.kind = "answer" /\ m.id = sequence
      BY <2>6 DEF Lsp!Next_message
    <2>7. QED  BY <1>1, <2>1, <2>2, <2>3, <2>4, <2>5, <2>6 DEF LspMessage
  <1> HIDE DEF m
  <1>3. CASE UNCHANGED <<sequence, owed, answer>>
    BY <1>1, <1>3 DEF LspInv, Lsp!LspAnswerIsMine
  <1>4. CASE Lsp!Answered(m) /\ m.kind = "answer" /\ m.id = sequence
    BY <1>1, <1>4, LspAccept DEF LspInv
  <1>5. QED  BY <1>2, <1>3, <1>4

LEMMA LspQueues ==
  ASSUME LspInv, Lsp!_read_messages
  PROVE  inbox' \in Seq(LspMessage) /\ owed' \subseteq Nat
  <1>1. owed' \subseteq Nat
    BY DEF Lsp!_read_messages, LspInv
  <1>2. PICK m \in LspMessage : inbox' = Append(inbox, m)
    <2>1. CASE \E id \in owed, list \in Lists, kind \in {"answer", "error"} :
                 Lsp!Put(Lsp!Message(kind, id, list))
      BY <2>1 DEF Lsp!Put, Lsp!Message, LspMessage, LspInv
    <2>2. CASE \E list \in Lists : Lsp!Put(Lsp!Message("publish", 0, list))
      BY <2>2 DEF Lsp!Put, Lsp!Message, LspMessage
    <2>3. CASE \E id \in Asks : Lsp!Put(Lsp!Message("ask", id, Empty))
      BY <2>3 DEF Lsp!Put, Lsp!Message, LspMessage
    <2>4. CASE Lsp!Put(Lsp!Message("end", 0, Empty))
      BY <2>4 DEF Lsp!Put, Lsp!Message, LspMessage
    <2>5. QED  BY <2>1, <2>2, <2>3, <2>4 DEF Lsp!_read_messages
  <1>3. QED  BY <1>1, <1>2 DEF LspInv

(* _Client.request: what a request to a language server returns is the      *)
(* server's answer to it, whatever else arrives, late answers and requests  *)
(* of the server under the same number included.                            *)
THEOREM LspAnswersAreMine == Lsp!LspSpec => []Lsp!LspAnswerIsMine
  <1>1. Lsp!LspInit => LspInv
    BY DEF Lsp!LspInit, LspInv, Lsp!LspAnswerIsMine, Lsp!Unasked, Lsp!Message
  <1>2. LspInv /\ [Lsp!LspNext]_(Lsp!lspVars) => LspInv'
    <2> SUFFICES ASSUME LspInv, [Lsp!LspNext]_(Lsp!lspVars) PROVE LspInv'
      OBVIOUS
    <2>1. CASE Lsp!start
      <3>1. \/ sequence' = 1 /\ owed' = {1}
            \/ UNCHANGED <<sequence, owed>>
        BY <2>1 DEF Lsp!start
      <3>2. UNCHANGED <<inbox, answer>>
        BY <2>1 DEF Lsp!start
      <3>3. sequence' \in Nat /\ owed' \subseteq Nat
        <4>1. CASE sequence' = 1 /\ owed' = {1}
          BY <4>1
        <4>2. CASE UNCHANGED <<sequence, owed>>
          BY <4>2 DEF LspInv
        <4>3. QED  BY <3>1, <4>1, <4>2
      <3>4. QED  BY <3>2, <3>3 DEF LspInv, Lsp!LspAnswerIsMine
    <2>2. CASE Lsp!open
      <3>1. PICK method \in {"pull", "first"}, else \in {"closing", "collecting"} :
              Lsp!request(method, else)
        BY <2>2 DEF Lsp!open
      <3>2. inbox' = inbox /\ answer' = answer
        BY <2>2 DEF Lsp!open
      <3>3. QED  BY <3>1, <3>2, LspRequest DEF LspInv, Lsp!LspAnswerIsMine
    <2>3. CASE Lsp!Next_message
      BY <2>3, LspReads
    <2>4. CASE Lsp!Timeout
      BY <2>4 DEF Lsp!Timeout, LspInv, Lsp!LspAnswerIsMine
    <2>5. CASE Lsp!wait_diagnostics
      <3>1. inbox' \in Seq(LspMessage)
        <4>1. CASE inbox' = inbox
          BY <4>1 DEF LspInv
        <4>2. CASE inbox # << >> /\ inbox' = Tail(inbox)
          BY <4>2 DEF LspInv
        <4>3. QED  BY <2>5, <4>1, <4>2 DEF Lsp!wait_diagnostics
      <3>2. UNCHANGED <<sequence, owed, answer>>
        BY <2>5 DEF Lsp!wait_diagnostics
      <3>3. QED  BY <3>1, <3>2 DEF LspInv, Lsp!LspAnswerIsMine
    <2>6. CASE Lsp!close
      BY <2>6 DEF Lsp!close, Lsp!Asked, LspInv, Lsp!LspAnswerIsMine
    <2>7. CASE Lsp!_read_messages
      BY <2>7, LspQueues DEF Lsp!_read_messages, LspInv, Lsp!LspAnswerIsMine
    <2>8. CASE UNCHANGED Lsp!lspVars
      BY <2>8 DEF Lsp!lspVars, LspInv, Lsp!LspAnswerIsMine
    <2>9. QED
      BY <2>1, <2>2, <2>3, <2>4, <2>5, <2>6, <2>7, <2>8 DEF Lsp!LspNext
  <1>3. LspInv => Lsp!LspAnswerIsMine
    BY DEF LspInv
  <1>4. QED  BY <1>1, <1>2, <1>3, PTL DEF Lsp!LspSpec

-----------------------------------------------------------------------------
(* Background commands of the shell (mjj/tools/shell.py). *)

\* A job not made yet has no thread, and jobs are made in order.
MadeInv ==
  /\ started \in Nat
  /\ \A j \in Jobs!Job : j > started => thread[j] = "none"

\* A process runs only between Popen and the return of its thread's wait,
\* and it is published before the thread waits.
ProcessInv ==
  /\ thread = [j \in Jobs!Job |-> thread[j]]
  /\ running \subseteq Jobs!Job
  /\ \A j \in running : thread[j] \in {"spawned", "published", "waiting"}
  /\ \A j \in Jobs!Job : thread[j] \in {"published", "waiting"} => j \in process

JobsInv == MadeInv /\ ProcessInv /\ Jobs!StopReaches

\* A step of one thread changes that thread alone.
LEMMA ThreadMoves ==
  ASSUME JobsInv, NEW j \in Jobs!Job, NEW from, NEW to, Jobs!At(j, from, to)
  PROVE  /\ thread[j] = from /\ thread'[j] = to
         /\ \A k \in Jobs!Job : k # j => thread'[k] = thread[k]
         /\ thread' = [k \in Jobs!Job |-> thread'[k]]
  BY DEF JobsInv, ProcessInv, Jobs!At

LEMMA MadeKept ==
  ASSUME JobsInv, NEW j \in Jobs!Job, thread[j] # "none", UNCHANGED started,
         \A k \in Jobs!Job : k # j => thread'[k] = thread[k]
  PROVE  MadeInv'
  BY DEF JobsInv, MadeInv

LEMMA StartsJob ==
  ASSUME MaxJobs \in Nat, JobsInv, Jobs!_start_shell_job PROVE JobsInv'
  <1>1. CASE UNCHANGED <<started, thread>>
    BY <1>1 DEF Jobs!_start_shell_job, JobsInv, MadeInv, ProcessInv, Jobs!StopReaches
  <1>2. CASE started' = started + 1 /\ thread' = [thread EXCEPT ![started + 1] = "starting"]
    <2> DEFINE n == started + 1
    <2>1. n \in Jobs!Job /\ n > started /\ started \in Nat /\ started' = n
      BY <1>2 DEF Jobs!_start_shell_job, Jobs!Job, JobsInv, MadeInv
    <2>2. /\ thread' = [j \in Jobs!Job |-> thread'[j]]
          /\ thread'[n] = "starting"
          /\ \A j \in Jobs!Job : j # n => thread'[j] = thread[j]
      BY <1>2, <2>1 DEF JobsInv, ProcessInv
    <2>3. n \notin running
      BY <2>1 DEF JobsInv, MadeInv, ProcessInv
    <2>4. UNCHANGED <<process, running, stopped, signalled, marked>>
      BY DEF Jobs!_start_shell_job
    <2>5. MadeInv'
      <3>1. \A j \in Jobs!Job : j > n => j > started /\ j # n
        BY <2>1 DEF Jobs!Job
      <3>2. n \in Nat
        BY <2>1
      <3> HIDE DEF n
      <3>3. QED  BY <2>1, <2>2, <3>1, <3>2 DEF JobsInv, MadeInv
    <2> HIDE DEF n
    <2>6. ProcessInv'
      BY <2>2, <2>3, <2>4 DEF JobsInv, ProcessInv
    <2>7. Jobs!StopReaches'
      BY <2>2, <2>3, <2>4 DEF JobsInv, ProcessInv, Jobs!StopReaches
    <2>8. QED  BY <2>5, <2>6, <2>7 DEF JobsInv
  <1>3. QED  BY <1>1, <1>2 DEF Jobs!_start_shell_job

LEMMA JobMoves ==
  ASSUME JobsInv, NEW j \in Jobs!Job, Jobs!JobStep(j) \/ Jobs!Exit(j)
  PROVE  JobsInv'
  <1>1. CASE Jobs!Popen(j)
    <2>1. PICK to \in {"spawned", "returned", "killed"} :
            /\ Jobs!At(j, "starting", to)
            /\ running' = IF to = "spawned" THEN running \cup {j} ELSE running
      BY <1>1 DEF Jobs!Popen
    <2>2. UNCHANGED <<started, process, stopped, signalled, marked>>
      BY <1>1 DEF Jobs!Popen, Jobs!JobRest
    <2>3. j \notin running
      BY <2>1, ThreadMoves DEF JobsInv, ProcessInv
    <2>4. MadeInv'
      BY <2>1, <2>2, ThreadMoves, MadeKept
    <2>5. ProcessInv'
      BY <2>1, <2>2, <2>3, ThreadMoves DEF JobsInv, ProcessInv
    <2>6. Jobs!StopReaches'
      BY <2>1, <2>2, <2>3, ThreadMoves DEF JobsInv, ProcessInv, Jobs!StopReaches
    <2>7. QED  BY <2>4, <2>5, <2>6 DEF JobsInv
  <1>2. CASE Jobs!Publish(j)
    <2>1. /\ Jobs!At(j, "spawned", "published") /\ process' = process \cup {j}
          /\ UNCHANGED <<started, running, stopped, signalled, marked>>
      BY <1>2 DEF Jobs!Publish, Jobs!JobRest
    <2>2. MadeInv'
      BY <2>1, ThreadMoves, MadeKept
    <2>3. ProcessInv'
      BY <2>1, ThreadMoves DEF JobsInv, ProcessInv
    <2>4. Jobs!StopReaches'
      BY <2>1, ThreadMoves DEF JobsInv, ProcessInv, Jobs!StopReaches
    <2>5. QED  BY <2>2, <2>3, <2>4 DEF JobsInv
  <1>3. CASE Jobs!CheckStopped(j)
    <2>1. /\ Jobs!At(j, "published", "waiting")
          /\ UNCHANGED <<started, process, running, stopped, marked>>
      BY <1>3 DEF Jobs!CheckStopped, Jobs!JobRest
    <2>2. signalled \subseteq signalled' /\ (j \in stopped \cap running => j \in signalled')
      BY <1>3 DEF Jobs!CheckStopped, Jobs!Terminate
    <2>3. MadeInv'
      BY <2>1, ThreadMoves, MadeKept
    <2>4. ProcessInv'
      BY <2>1, ThreadMoves DEF JobsInv, ProcessInv
    <2>5. Jobs!StopReaches'
      BY <2>1, <2>2, ThreadMoves DEF JobsInv, ProcessInv, Jobs!StopReaches
    <2>6. QED  BY <2>3, <2>4, <2>5 DEF JobsInv
  <1>4. CASE Jobs!communicate(j) \/ Jobs!TimeoutExpired(j)
    <2>1. /\ Jobs!At(j, "waiting", "returned") /\ j \notin running'
          /\ running' \subseteq running /\ process' = process \ {j}
          /\ UNCHANGED <<started, stopped, signalled, marked>>
      BY <1>4 DEF Jobs!communicate, Jobs!TimeoutExpired, Jobs!JobRest
    <2>2. MadeInv'
      BY <2>1, ThreadMoves, MadeKept
    <2>3. ProcessInv'
      BY <2>1, ThreadMoves DEF JobsInv, ProcessInv
    <2>4. Jobs!StopReaches'
      BY <2>1, ThreadMoves DEF JobsInv, ProcessInv, Jobs!StopReaches
    <2>5. QED  BY <2>2, <2>3, <2>4 DEF JobsInv
  <1>5. CASE Jobs!End(j)
    <2>1. /\ Jobs!At(j, "returned", "ended")
          /\ UNCHANGED <<started, process, running, stopped, signalled, marked>>
      BY <1>5 DEF Jobs!End, Jobs!JobRest
    <2>2. MadeInv'
      BY <2>1, ThreadMoves, MadeKept
    <2>3. ProcessInv'
      BY <2>1, ThreadMoves DEF JobsInv, ProcessInv
    <2>4. Jobs!StopReaches'
      BY <2>1, ThreadMoves DEF JobsInv, ProcessInv, Jobs!StopReaches
    <2>5. QED  BY <2>2, <2>3, <2>4 DEF JobsInv
  <1>6. CASE Jobs!Exit(j)
    BY <1>6 DEF Jobs!Exit, Jobs!JobRest, JobsInv, MadeInv, ProcessInv, Jobs!StopReaches
  <1>7. QED  BY <1>1, <1>2, <1>3, <1>4, <1>5, <1>6 DEF Jobs!JobStep

LEMMA JobsKept ==
  ASSUME MaxJobs \in Nat, JobsInv, [Jobs!JobNext]_(Jobs!jobVars)
  PROVE  JobsInv'
  <1>1. CASE Jobs!_start_shell_job
    BY <1>1, StartsJob
  <1>2. CASE Jobs!stop_jobs
    BY <1>2 DEF Jobs!stop_jobs, JobsInv, MadeInv, ProcessInv, Jobs!StopReaches
  <1>3. CASE Jobs!Mark
    <2>1. UNCHANGED <<started, thread, process, running, signalled>> /\ marked = 0
      BY <1>3 DEF Jobs!Mark
    <2>2. \A k \in stopped' : k \in stopped \/ k = marked'
      BY <1>3 DEF Jobs!Mark
    <2>3. \A k \in running : marked # k
      BY <2>1 DEF JobsInv, ProcessInv, Jobs!Job
    <2>4. QED
      BY <2>1, <2>2, <2>3 DEF JobsInv, MadeInv, ProcessInv, Jobs!StopReaches
  <1>4. CASE Jobs!Signal
    <2>1. /\ UNCHANGED <<started, thread, process, running, stopped>>
          /\ signalled \subseteq signalled'
          /\ marked \in process \cap running => marked \in signalled'
      BY <1>4 DEF Jobs!Signal, Jobs!Terminate
    <2>2. QED
      BY <2>1 DEF JobsInv, MadeInv, ProcessInv, Jobs!StopReaches
  <1>5. CASE \E j \in Jobs!Job : Jobs!JobStep(j) \/ Jobs!Exit(j)
    BY <1>5, JobMoves
  <1>6. CASE UNCHANGED Jobs!jobVars
    BY <1>6 DEF Jobs!jobVars, JobsInv, MadeInv, ProcessInv, Jobs!StopReaches
  <1>7. QED
    BY <1>1, <1>2, <1>3, <1>4, <1>5, <1>6 DEF Jobs!JobNext

(* stop_jobs and _execute_job: a job that stop_jobs has marked, and whose   *)
(* thread waits for its process, has been asked to terminate, at whatever   *)
(* step of the thread the mark was made.                                    *)
THEOREM StopsReachProcesses ==
  ASSUME MaxJobs \in Nat
  PROVE  Jobs!JobInit /\ [][Jobs!JobNext]_(Jobs!jobVars) => []Jobs!StopReaches
  <1>1. Jobs!JobInit => JobsInv
    BY DEF Jobs!JobInit, JobsInv, MadeInv, ProcessInv, Jobs!StopReaches
  <1>2. JobsInv /\ [Jobs!JobNext]_(Jobs!jobVars) => JobsInv'
    BY JobsKept
  <1>3. JobsInv => Jobs!StopReaches
    BY DEF JobsInv
  <1>4. QED  BY <1>1, <1>2, <1>3, PTL

\* The table has every job whose thread lives, under a key of its own.
ListedInv ==
  /\ jobs = [j \in Jobs!Listed |-> jobs[j]]
  /\ Jobs!Listed \subseteq 1..started
  /\ \A j \in Jobs!Job : Jobs!is_alive(j) => j \in Jobs!Listed
  /\ \A i, j \in Jobs!Listed : jobs[i] = jobs[j] => i = j

LEMMA Least ==
  ASSUME NEW C, C \subseteq Nat, C # {}
  PROVE  \E m \in C : \A j \in C : m <= j
  <1> DEFINE Less == {ss \in Nat \X Nat : ss[1] < ss[2]}
  <1>1. IsWellFoundedOn(Less, Nat)
    BY NatLessThanWellFounded, Zenon DEF OpToRel
  <1> HIDE DEF Less
  <1>2. \E m \in C : \A j \in C : ~(<<j, m>> \in Less)
    BY <1>1, WFMin
  <1>3. PICK m \in C : \A j \in C : ~(j < m)
    BY <1>2 DEF Less
  <1>4. QED  BY <1>3

\* There are more numbers up to the size of the table and one than keys.
LEMMA KeyIsFree ==
  ASSUME NEW table, IsFiniteSet(DOMAIN table), table = [j \in DOMAIN table |-> table[j]]
  PROVE  Jobs!LowestFree(table) \notin Jobs!Keys(table)
  <1> DEFINE n == Cardinality(DOMAIN table)
             K == Jobs!Keys(table)
             C == {k \in 1..(n + 1) : k \notin K}
  <1>1. n \in Nat
    BY FS_CardinalityType
  <1>2. table \in Surjection(DOMAIN table, K)
    BY DEF Surjection, Jobs!Keys
  <1>3. IsFiniteSet(K) /\ Cardinality(K) <= n
    BY <1>2, FS_Surjection
  <1>4. Cardinality(1..(n + 1)) = n + 1 /\ Cardinality(K) \in Nat
    <2>1. 1 \in Int /\ n + 1 \in Int /\ ~(1 > n + 1) /\ (n + 1) - 1 + 1 = n + 1
      BY <1>1
    <2> HIDE DEF n
    <2>2. Cardinality(1..(n + 1)) = n + 1
      BY <2>1, FS_Interval
    <2>3. QED  BY <1>3, <2>2, FS_CardinalityType
  <1>5. \E k \in 1..(n + 1) : k \notin K
    <2>1. SUFFICES ASSUME 1..(n + 1) \subseteq K PROVE FALSE
      OBVIOUS
    <2>2. Cardinality(1..(n + 1)) <= Cardinality(K)
      BY <1>3, <2>1, FS_Subset
    <2> HIDE DEF n, K
    <2>3. QED  BY <1>1, <1>3, <1>4, <2>2
  <1>6. PICK m \in C : \A j \in C : m <= j
    <2>1. C \subseteq Nat /\ C # {}
      BY <1>1, <1>5
    <2> HIDE DEF C
    <2>2. QED  BY <2>1, Least
  <1>7. m \in 1..(n + 1) /\ m \notin K
    BY <1>6
  <1>8. 1..(m - 1) \subseteq K
    <2>1. ASSUME NEW l \in 1..(m - 1), l \notin K PROVE FALSE
      <3>1. l \in 1..(n + 1) /\ ~(m <= l)
        BY <1>1, <1>7
      <3>2. l \in C
        BY <2>1, <3>1
      <3>3. QED  BY <1>6, <3>1, <3>2
    <2>2. QED  BY <2>1
  <1>9. Jobs!Cardinality(DOMAIN table) = n
    BY DEF Jobs!Cardinality, Cardinality
  <1> HIDE DEF n, K, C
  <1>10. Jobs!LowestFree(table) = CHOOSE k \in 1..(n + 1) : k \notin K /\ 1..(k - 1) \subseteq K
    BY <1>9 DEF Jobs!LowestFree, K
  <1>11. Jobs!LowestFree(table) \notin K
    BY <1>7, <1>8, <1>10
  <1>12. QED  BY <1>11 DEF K

\* What gives way to a new job has ended.
LEMMA EvictsEnded ==
  ASSUME ListedInv, NEW table, table = Jobs!Evict(jobs)
  PROVE  /\ table = [j \in DOMAIN table |-> table[j]]
         /\ DOMAIN table \subseteq Jobs!Listed
         /\ \A j \in DOMAIN table : table[j] = jobs[j]
         /\ \A j \in Jobs!Listed : Jobs!is_alive(j) => j \in DOMAIN table
  <1> DEFINE completed == {j \in Jobs!Listed : ~Jobs!is_alive(j)}
             excess == 1 + Jobs!Cardinality(Jobs!Listed) - MaxTable
             gone == {j \in completed : Jobs!Cardinality({i \in completed : i < j}) < excess}
  <1>1. table = [j \in Jobs!Listed \ gone |-> jobs[j]]
    BY DEF Jobs!Evict, Jobs!Listed
  <1>2. \A j \in gone : ~Jobs!is_alive(j)
    OBVIOUS
  <1> HIDE DEF gone
  <1>3. QED  BY <1>1, <1>2

LEMMA TableStarts ==
  ASSUME MaxJobs \in Nat, JobsInv, ListedInv, Jobs!_start_shell_job
  PROVE  ListedInv'
  <1> DEFINE table == Jobs!Evict(jobs)
             n == started + 1
  <1>1. started \in Nat /\ thread = [j \in Jobs!Job |-> thread[j]]
    BY DEF JobsInv, MadeInv, ProcessInv
  <1>2. /\ table = [j \in DOMAIN table |-> table[j]]
        /\ DOMAIN table \subseteq Jobs!Listed
        /\ \A j \in DOMAIN table : table[j] = jobs[j]
        /\ \A j \in Jobs!Listed : Jobs!is_alive(j) => j \in DOMAIN table
    BY EvictsEnded
  <1>3. \/ jobs' = table /\ UNCHANGED <<started, thread>>
        \/ /\ jobs' = [i \in DOMAIN table \cup {n} |->
                        IF i = n THEN Jobs!LowestFree(table) ELSE table[i]]
           /\ started' = n /\ thread' = [thread EXCEPT ![n] = "starting"]
    BY DEF Jobs!_start_shell_job
  <1>4. IsFiniteSet(DOMAIN table)
    <2>1. IsFiniteSet(1..started)
      BY <1>1, FS_Interval
    <2>2. DOMAIN table \in SUBSET (1..started)
      BY <1>2 DEF ListedInv
    <2> HIDE DEF table
    <2>3. QED  BY <2>1, <2>2, FS_Subset
  <1>5. Jobs!LowestFree(table) \notin Jobs!Keys(table)
    <2> HIDE DEF table
    <2>1. QED  BY <1>2, <1>4, KeyIsFree
  <1> HIDE DEF table
  <1>6. CASE jobs' = table /\ UNCHANGED <<started, thread>>
    <2>1. Jobs!Listed' = DOMAIN table
      BY <1>6 DEF Jobs!Listed
    <2>2. \A j \in Jobs!Job : Jobs!is_alive(j)' => Jobs!is_alive(j)
      BY <1>6 DEF Jobs!is_alive
    <2>3. QED  BY <1>2, <1>6, <2>1, <2>2 DEF ListedInv
  <1>7. CASE /\ jobs' = [i \in DOMAIN table \cup {n} |->
                        IF i = n THEN Jobs!LowestFree(table) ELSE table[i]]
             /\ started' = n /\ thread' = [thread EXCEPT ![n] = "starting"]
    <2>1. Jobs!Listed' = DOMAIN table \cup {n}
      BY <1>7 DEF Jobs!Listed
    <2>2. \A j \in Jobs!Job : Jobs!is_alive(j)' => Jobs!is_alive(j) \/ j = n
      BY <1>1, <1>7 DEF Jobs!is_alive
    <2>3. \A j \in DOMAIN table : j \in 1..started /\ j # n /\ j \in 1..n
      BY <1>1, <1>2 DEF ListedInv
    <2>4. jobs'[n] \notin Jobs!Keys(table) /\ \A j \in DOMAIN table : jobs'[j] = table[j]
      BY <1>5, <1>7, <2>3
    <2>5. n \in 1..n /\ started' = n
      BY <1>1, <1>7
    <2>6. jobs' = [j \in DOMAIN jobs' |-> jobs'[j]]
      BY <1>7
    <2> HIDE DEF n
    <2>7. \A i, j \in Jobs!Listed' : jobs'[i] = jobs'[j] => i = j
      <3>1. \A i, j \in DOMAIN table : table[i] = table[j] => i = j
        BY <1>2 DEF ListedInv
      <3>2. \A i \in DOMAIN table : jobs'[i] # jobs'[n]
        BY <2>4 DEF Jobs!Keys
      <3>3. QED  BY <2>1, <2>4, <3>1, <3>2
    <2>8. \A j \in Jobs!Job : Jobs!is_alive(j)' => j \in Jobs!Listed'
      BY <1>2, <2>1, <2>2 DEF ListedInv
    <2>9. Jobs!Listed' \subseteq 1..started'
      BY <2>1, <2>3, <2>5
    <2>10. QED  BY <2>6, <2>7, <2>8, <2>9 DEF ListedInv, Jobs!Listed
  <1>8. QED  BY <1>3, <1>6, <1>7

\* No step of a thread begins one, and none changes the table.
LEMMA TableKept ==
  ASSUME ListedInv, UNCHANGED <<jobs, started>>,
         \A j \in Jobs!Job : Jobs!is_alive(j)' => Jobs!is_alive(j)
  PROVE  ListedInv'
  BY DEF ListedInv, Jobs!Listed

LEMMA ThreadLives ==
  ASSUME JobsInv, NEW j \in Jobs!Job, NEW from, NEW to, Jobs!At(j, from, to),
         from \notin Jobs!Ended
  PROVE  \A k \in Jobs!Job : Jobs!is_alive(k)' => Jobs!is_alive(k)
  BY ThreadMoves DEF Jobs!is_alive

LEMMA TableMoves ==
  ASSUME JobsInv, ListedInv, NEW j \in Jobs!Job, Jobs!JobStep(j) \/ Jobs!Exit(j)
  PROVE  ListedInv'
  <1>1. UNCHANGED <<jobs, started>>
    BY DEF Jobs!JobStep, Jobs!Exit, Jobs!Popen, Jobs!Publish, Jobs!CheckStopped,
           Jobs!communicate, Jobs!TimeoutExpired, Jobs!End, Jobs!JobRest
  <1>2. \/ thread' = thread
        \/ \E from \in {"starting", "spawned", "published", "waiting", "returned"} :
             \E to \in {"spawned", "returned", "killed", "published", "waiting", "ended"} :
               Jobs!At(j, from, to)
    <2>1. CASE Jobs!JobStep(j)
      BY <2>1
      DEF Jobs!JobStep, Jobs!Popen, Jobs!Publish, Jobs!CheckStopped, Jobs!communicate,
          Jobs!TimeoutExpired, Jobs!End
    <2>2. CASE Jobs!Exit(j)
      BY <2>2 DEF Jobs!Exit
    <2>3. QED  BY <2>1, <2>2
  <1>3. CASE thread' = thread
    BY <1>1, <1>3, TableKept DEF Jobs!is_alive
  <1>4. ASSUME NEW from \in {"starting", "spawned", "published", "waiting", "returned"},
               NEW to, Jobs!At(j, from, to)
        PROVE  ListedInv'
    <2>1. from \notin Jobs!Ended
      BY DEF Jobs!Ended
    <2>2. \A k \in Jobs!Job : Jobs!is_alive(k)' => Jobs!is_alive(k)
      BY <1>4, <2>1, ThreadLives
    <2>3. QED  BY <1>1, <2>2, TableKept
  <1>5. QED  BY <1>2, <1>3, <1>4

(* _start_shell_job and _poll: whatever the table gives up for a new job    *)
(* has ended, no two jobs have one key, and a poll of a job whose thread    *)
(* lives says that it runs.                                                 *)
THEOREM LiveJobsAreListed ==
  ASSUME MaxJobs \in Nat
  PROVE  Jobs!JobInit /\ [][Jobs!JobNext]_(Jobs!jobVars) => []Jobs!LiveListed
  <1>1. Jobs!JobInit => JobsInv /\ ListedInv
    BY DEF Jobs!JobInit, JobsInv, MadeInv, ProcessInv, Jobs!StopReaches, ListedInv,
           Jobs!Listed, Jobs!is_alive, Jobs!Ended
  <1>2. JobsInv /\ ListedInv /\ [Jobs!JobNext]_(Jobs!jobVars) => JobsInv' /\ ListedInv'
    <2> SUFFICES ASSUME JobsInv, ListedInv, [Jobs!JobNext]_(Jobs!jobVars)
                 PROVE  ListedInv'
      BY JobsKept
    <2>1. CASE Jobs!_start_shell_job
      BY <2>1, TableStarts
    <2>2. CASE Jobs!stop_jobs \/ Jobs!Mark \/ Jobs!Signal \/ UNCHANGED Jobs!jobVars
      <3>1. UNCHANGED <<jobs, started, thread>>
        BY <2>2 DEF Jobs!stop_jobs, Jobs!Mark, Jobs!Signal, Jobs!jobVars
      <3>2. QED  BY <3>1, TableKept DEF Jobs!is_alive
    <2>3. CASE \E j \in Jobs!Job : Jobs!JobStep(j) \/ Jobs!Exit(j)
      BY <2>3, TableMoves
    <2>4. QED  BY <2>1, <2>2, <2>3 DEF Jobs!JobNext
  <1>3. JobsInv /\ ListedInv => Jobs!LiveListed
    <2> SUFFICES ASSUME JobsInv, ListedInv PROVE Jobs!LiveListed
      OBVIOUS
    <2>1. \A j \in Jobs!Job : j \in running => Jobs!is_alive(j)
      BY DEF JobsInv, ProcessInv, Jobs!is_alive, Jobs!Ended
    <2>2. ASSUME NEW j \in Jobs!Listed, Jobs!is_alive(j)
          PROVE  Jobs!_poll(jobs[j]) = "running"
      <3>1. (CHOOSE i \in Jobs!Listed : jobs[i] = jobs[j]) = j
        BY <2>2 DEF ListedInv
      <3>2. jobs[j] \in Jobs!Keys(jobs)
        BY <2>2 DEF Jobs!Keys, Jobs!Listed
      <3>3. QED  BY <2>2, <3>1, <3>2 DEF Jobs!_poll
    <2>3. QED  BY <2>1, <2>2 DEF ListedInv, Jobs!LiveListed
  <1>4. QED  BY <1>1, <1>2, <1>3, PTL
-----------------------------------------------------------------------------
(* Snippets of Python (mjj/tools/py_exec.py, mjj/exec). *)

\* A snippet that ran in the process is on its way out, or has its answer.
PlacedInv ==
  /\ py = [r \in Runner |-> py[r]] /\ selected = [r \in Runner |-> selected[r]]
  /\ executed = [r \in Runner |-> executed[r]] /\ reply = [r \in Runner |-> reply[r]]
  /\ \A r \in Runner :
       /\ "process" \in executed[r] => py[r] \in {"restore", "idle"}
       /\ py[r] = "idle" /\ "process" \in executed[r]
            /\ selected[r] \in {"sandbox", "remote"}
            => reply[r].requested = selected[r] /\ reply[r].why

\* A snippet alone in the process knows what to put back.
AloneInv ==
  /\ previous_cwd = [r \in Runner |-> previous_cwd[r]]
  /\ previous_out = [r \in Runner |-> previous_out[r]]
  /\ ~overlapped =>
       /\ \A q, r \in Py!Inside : q = r
       /\ Py!Inside = {} => cwd = "home" /\ stdout = "terminal"
       /\ \A r \in Py!Inside :
            /\ previous_cwd[r] = "home"
            /\ py[r] \in {"redirect", "restore"} => stdout = "terminal"
            /\ py[r] = "running" => previous_out[r] = "terminal"

PyInv == PlacedInv /\ AloneInv

LEMMA PyMoves ==
  ASSUME PyInv, NEW r \in Runner, NEW from, NEW to, Py!Goto(r, from, to)
  PROVE  /\ py[r] = from /\ py'[r] = to
         /\ \A q \in Runner : q # r => py'[q] = py[q]
         /\ py' = [q \in Runner |-> py'[q]]
  BY DEF PyInv, PlacedInv, Py!Goto

\* What a caller does not place, and what could reach the host, is sandboxed.
LEMMA UnsafeIsSandboxed ==
  ASSUME NEW packages \in BOOLEAN
  PROVE  Py!choose_path("unsafe", packages, "none") = "sandbox"
  BY DEF Py!choose_path

LEMMA PyBegins == ASSUME PyInv, NEW r \in Runner, Py!execute(r) PROVE PyInv'
  <1>1. PICK path, to :
          /\ py[r] = "idle" /\ selected' = [selected EXCEPT ![r] = path]
          /\ py' = [py EXCEPT ![r] = to]
          /\ to \in {"worker", "jail", "remote", "enter"}
    <2>1. PICK packages, path :
            /\ selected' = [selected EXCEPT ![r] = path]
            /\ py' = [py EXCEPT ![r] =
                 IF path = "sandbox" THEN IF packages THEN "worker" ELSE "jail"
                 ELSE IF path = "remote" THEN "remote" ELSE "enter"]
      BY DEF Py!execute
    <2>2. PICK to : to = IF path = "sandbox" THEN IF packages THEN "worker" ELSE "jail"
                         ELSE IF path = "remote" THEN "remote" ELSE "enter"
      OBVIOUS
    <2>3. to \in {"worker", "jail", "remote", "enter"}
      BY <2>2
    <2>4. py' = [py EXCEPT ![r] = to]
      BY <2>1, <2>2
    <2>5. QED  BY <2>1, <2>3, <2>4 DEF Py!execute
  <1>2. /\ executed' = [executed EXCEPT ![r] = {}]
        /\ reply' = [reply EXCEPT ![r] = Py!NoReply]
        /\ UNCHANGED <<cwd, stdout, previous_cwd, previous_out, overlapped>>
    BY DEF Py!execute, Py!ProcessWide
  <1>3. PlacedInv'
    BY <1>1, <1>2 DEF PyInv, PlacedInv
  <1>4. Py!Inside' = Py!Inside /\ \A q \in Py!Inside : py'[q] = py[q]
    BY <1>1 DEF PyInv, PlacedInv, Py!Inside
  <1>5. AloneInv'
    BY <1>2, <1>4 DEF PyInv, AloneInv
  <1>6. QED  BY <1>3, <1>5 DEF PyInv

LEMMA PyBackend ==
  ASSUME PyInv, NEW r \in Runner, NEW name \in {"jail", "worker", "remote"}, NEW path,
         NEW next \in {"worker", "enter"}, Py!Backend(r, name, path, next)
  PROVE  PyInv'
  <1>1. PICK to \in {"idle", next} : Py!Goto(r, name, to)
    BY DEF Py!Backend
  <1>2. /\ executed' = executed \/ executed' = [executed EXCEPT ![r] = @ \cup {name}]
        /\ \A q \in Runner : q # r => reply'[q] = reply[q]
        /\ reply' = [q \in Runner |-> reply'[q]]
        /\ UNCHANGED <<selected, cwd, stdout, previous_cwd, previous_out, overlapped>>
    BY DEF Py!Backend, Py!ProcessWide, Py!Request, PyInv, PlacedInv
  <1>3. "process" \notin executed[r]
    BY <1>1, PyMoves DEF PyInv, PlacedInv
  <1>4. /\ executed' = [q \in Runner |-> executed'[q]]
        /\ \A q \in Runner : q # r => executed'[q] = executed[q]
        /\ "process" \notin executed'[r]
    BY <1>2, <1>3 DEF PyInv, PlacedInv
  <1>5. PlacedInv'
    BY <1>1, <1>2, <1>4, PyMoves DEF PyInv, PlacedInv
  <1>6. Py!Inside' = Py!Inside /\ \A q \in Py!Inside : py'[q] = py[q]
    BY <1>1, PyMoves DEF Py!Inside
  <1>7. AloneInv'
    BY <1>2, <1>6 DEF PyInv, AloneInv
  <1>8. QED  BY <1>5, <1>7 DEF PyInv

LEMMA PyEnters ==
  ASSUME PyInv, NEW r \in Runner, Py!chdir(r) \/ Py!redirect_stdout(r) \/ Py!exec(r)
  PROVE  PyInv'
  <1>1. CASE Py!chdir(r)
    <2>1. /\ Py!Goto(r, "enter", "redirect") /\ overlapped' = (overlapped \/ Py!Inside # {})
          /\ previous_cwd' = [previous_cwd EXCEPT ![r] = cwd]
          /\ UNCHANGED <<selected, stdout, previous_out, executed, reply>>
      BY <1>1 DEF Py!chdir, Py!Request
    <2>2. PlacedInv'
      BY <2>1, PyMoves DEF PyInv, PlacedInv
    <2>3. Py!Inside' = Py!Inside \cup {r}
      BY <2>1, PyMoves DEF Py!Inside
    <2>4. previous_cwd' = [q \in Runner |-> previous_cwd'[q]] /\ previous_cwd'[r] = cwd
      BY <2>1 DEF PyInv, AloneInv
    <2>5. ASSUME ~overlapped'
          PROVE  /\ Py!Inside' = {r} /\ py'[r] = "redirect"
                 /\ previous_cwd'[r] = "home" /\ stdout' = "terminal"
      <3>1. ~overlapped /\ Py!Inside = {} /\ cwd = "home" /\ stdout = "terminal"
        BY <2>1, <2>5 DEF PyInv, AloneInv
      <3>2. py'[r] = "redirect"
        BY <2>1, PyMoves
      <3>3. QED  BY <2>1, <2>3, <2>4, <3>1, <3>2
    <2>6. AloneInv'
      BY <2>1, <2>4, <2>5 DEF PyInv, AloneInv
    <2>7. QED  BY <2>2, <2>6 DEF PyInv
  <1>2. CASE Py!redirect_stdout(r)
    <2>1. /\ Py!Goto(r, "redirect", "running")
          /\ previous_out' = [previous_out EXCEPT ![r] = stdout]
          /\ UNCHANGED <<selected, cwd, previous_cwd, overlapped, executed, reply>>
      BY <1>2 DEF Py!redirect_stdout, Py!Request
    <2>2. PlacedInv'
      BY <2>1, PyMoves DEF PyInv, PlacedInv
    <2>3. Py!Inside' = Py!Inside /\ r \in Py!Inside
      BY <2>1, PyMoves DEF Py!Inside
    <2>4. AloneInv'
      BY <2>1, <2>3, PyMoves DEF PyInv, AloneInv
    <2>5. QED  BY <2>2, <2>4 DEF PyInv
  <1>3. CASE Py!exec(r)
    <2>1. /\ Py!Goto(r, "running", "restore")
          /\ executed' = [executed EXCEPT ![r] = @ \cup {"process"}]
          /\ stdout' = previous_out[r]
          /\ UNCHANGED <<selected, cwd, previous_cwd, previous_out, overlapped, reply>>
      BY <1>3 DEF Py!exec, Py!Request
    <2>2. PlacedInv'
      <3>1. /\ executed' = [q \in Runner |-> executed'[q]]
            /\ \A q \in Runner : q # r => executed'[q] = executed[q]
        BY <2>1 DEF PyInv, PlacedInv
      <3>2. py'[r] = "restore" /\ py' = [q \in Runner |-> py'[q]]
            /\ \A q \in Runner : q # r => py'[q] = py[q]
        BY <2>1, PyMoves
      <3>3. QED  BY <2>1, <3>1, <3>2 DEF PyInv, PlacedInv
    <2>3. Py!Inside' = Py!Inside /\ r \in Py!Inside
      BY <2>1, PyMoves DEF Py!Inside
    <2>4. AloneInv'
      BY <2>1, <2>3, PyMoves DEF PyInv, AloneInv
    <2>5. QED  BY <2>2, <2>4 DEF PyInv
  <1>4. QED  BY <1>1, <1>2, <1>3

LEMMA PyLeaves == ASSUME PyInv, NEW r \in Runner, Py!_run_current(r) PROVE PyInv'
  <1>1. /\ Py!Goto(r, "restore", "idle") /\ cwd' = previous_cwd[r]
        /\ UNCHANGED <<selected, stdout, previous_cwd, previous_out, overlapped, executed>>
    BY DEF Py!_run_current, Py!Request
  <1>2. PICK given \in Py!Answers(r) : reply' = [reply EXCEPT ![r] = given]
    BY DEF Py!_run_current
  <1>3. selected[r] \in {"sandbox", "remote"} =>
          given.requested = selected[r] /\ given.why
    <2>1. ASSUME selected[r] \in {"sandbox", "remote"}
          PROVE  Py!Answers(r) = {Py!Interpreted("inproc", selected[r])}
      BY <2>1 DEF Py!Answers
    <2>2. QED  BY <2>1 DEF Py!Interpreted
  <1>4. PlacedInv'
    <2>1. /\ reply' = [q \in Runner |-> reply'[q]] /\ reply'[r] = given
          /\ \A q \in Runner : q # r => reply'[q] = reply[q]
      BY <1>2 DEF PyInv, PlacedInv
    <2>2. py'[r] = "idle" /\ py' = [q \in Runner |-> py'[q]]
          /\ \A q \in Runner : q # r => py'[q] = py[q]
      BY <1>1, PyMoves
    <2>3. QED  BY <1>1, <1>3, <2>1, <2>2 DEF PyInv, PlacedInv
  <1>5. Py!Inside' = Py!Inside \ {r} /\ r \in Py!Inside
    BY <1>1, PyMoves DEF Py!Inside
  <1>6. AloneInv'
    BY <1>1, <1>5, PyMoves DEF PyInv, AloneInv
  <1>7. QED  BY <1>4, <1>6 DEF PyInv

(* execute and _run_current: a snippet placed in a sandbox or elsewhere     *)
(* that this interpreter ran in the end says where it should have run and   *)
(* why it did not; and a snippet alone in the process leaves the directory  *)
(* and the output as it found them.                                         *)
THEOREM FallbacksAreVisible == Py!PySpec => []Py!DegradesVisibly
  <1>1. Py!PyInit => PyInv
    BY DEF Py!PyInit, PyInv, PlacedInv, AloneInv, Py!Inside
  <1>2. PyInv /\ [Py!PyNext]_(Py!pyVars) => PyInv'
    <2> SUFFICES ASSUME PyInv, [Py!PyNext]_(Py!pyVars) PROVE PyInv'
      OBVIOUS
    <2>1. ASSUME NEW r \in Runner,
                 Py!_run_jail(r) \/ Py!run_worker(r) \/ Py!run_remote(r)
          PROVE  PyInv'
      BY <2>1, PyBackend DEF Py!_run_jail, Py!run_worker, Py!run_remote
    <2>2. CASE UNCHANGED Py!pyVars
      BY <2>2 DEF Py!pyVars, PyInv, PlacedInv, AloneInv, Py!Inside
    <2>3. QED
      BY <2>1, <2>2, PyBegins, PyEnters, PyLeaves DEF Py!PyNext
  <1>3. PyInv => Py!DegradesVisibly
    BY DEF PyInv, PlacedInv, AloneInv, Py!DegradesVisibly
  <1>4. QED  BY <1>1, <1>2, <1>3, PTL DEF Py!PySpec

-----------------------------------------------------------------------------
(* The headless command (mjj/cli.py, cmd_exec; mjj/agent.py, render_exec). *)


AllAre(said, n) == \A i \in DOMAIN said : said[i] = n

ExecTypes ==
  /\ exec \in {"session", "goal", "registry", "agent", "run", "write", "close", "ended", "raised"}
  /\ rendered \in [response_text : Seq(Nat), response_called_tool : BOOLEAN,
                   final_text : Seq(Nat), failed : BOOLEAN]
  /\ response \in [text : Nat, calls : BOOLEAN]
  /\ responses \in Nat /\ last \in Nat /\ after \in Nat
  /\ options.ephemeral \in BOOLEAN

\* What the command holds open, and what it has written.
OpenInv ==
  /\ exec = "session" => opened = {}
  /\ exec \in {"goal", "registry"} => opened \subseteq {"session"}
  /\ exec \in {"agent", "run"} => opened \subseteq {"session", "registry"}
  /\ exec \in {"session", "goal", "registry", "agent"} => responses = 0
  /\ exec \in {"write", "close"} => opened \subseteq {"session"} /\ exit_code # 2
  /\ exec \notin {"close", "ended", "raised"} => output_file = Exec!Untouched
  /\ exec \notin {"session", "ended", "raised"} =>
       (("session" \in opened) <=> ~options.ephemeral)
  /\ Exec!ClosedAtEnd

\* The text that would be final, if the run ended here.
FinalText ==
  IF rendered.response_text # << >> THEN rendered.response_text ELSE rendered.final_text

\* Until the end, while nothing failed: what a response has said so far is of
\* that response, and what is left after an answer is of the last one.
AnswerInv ==
  exec \notin {"write", "close", "ended", "raised"} /\ ~rendered.failed =>
    /\ last <= responses
    /\ response = Exec!None => ~rendered.response_called_tool
    /\ response # Exec!None =>
         /\ response.text = responses /\ last < responses /\ after = 0
         /\ rendered.response_called_tool <=> response.calls
         /\ ~odd => AllAre(rendered.response_text, responses)
    /\ ~odd /\ response = Exec!None =>
         IF after # 0 THEN after = last /\ rendered.response_text = << >>
         ELSE responses > 0 /\ last = responses =>
                FinalText # << >> /\ AllAre(FinalText, last)

\* From the end of the run on, unless it failed.
EndInv ==
  exec \in {"write", "close", "ended"} /\ exit_code = 0 =>
    /\ ~odd => rendered.final_text # << >> /\ AllAre(rendered.final_text, last)
    /\ ~options.json => printed = rendered.final_text
    /\ exec # "write" /\ options.output => output_file = rendered.final_text
    /\ exec = "ended" => usage_noted \in BOOLEAN /\ (usage_noted <=> ~options.ephemeral)

ExecInv == ExecTypes /\ OpenInv /\ AnswerInv /\ EndInv

LEMMA ExecStarts == Exec!ExecInit => ExecInv
  <1> SUFFICES ASSUME Exec!ExecInit PROVE ExecInv
    OBVIOUS
  <1>1. options.ephemeral \in BOOLEAN
    BY DEF Exec!ExecInit
  <1>2. ExecTypes
    BY <1>1 DEF Exec!ExecInit, ExecTypes, Exec!None
  <1>3. OpenInv /\ AnswerInv /\ EndInv
    BY DEF Exec!ExecInit, OpenInv, AnswerInv, EndInv, Exec!ClosedAtEnd, Exec!None
  <1>4. QED  BY <1>2, <1>3 DEF ExecInv

\* The steps before the run: only what is held open changes.
LEMMA ExecOpens ==
  ASSUME ExecInv,
         Exec!open_session \/ Exec!set_goal \/ Exec!build_registry \/ Exec!prepare
  PROVE  ExecInv'
  <1>1. /\ exec \in {"session", "goal", "registry", "agent"}
        /\ \/ exec' \in {"goal", "registry", "agent", "run"} /\ exit_code' = exit_code
           \/ exec' = "ended" /\ exit_code' = 2
        /\ UNCHANGED Exec!Run
    BY DEF Exec!open_session, Exec!set_goal, Exec!build_registry, Exec!prepare, Exec!Refused
  <1>2. UNCHANGED <<options, response, responses, after, rendered, last, odd, printed,
                    output_file, usage_noted>>
    BY <1>1 DEF Exec!Run
  <1>3. ExecTypes'
    BY <1>1, <1>2 DEF ExecInv, ExecTypes
  <1>4. OpenInv'
    <2>1. CASE Exec!open_session
      BY <2>1, <1>2 DEF Exec!open_session, Exec!Refused, ExecInv, ExecTypes, OpenInv, Exec!ClosedAtEnd
    <2>2. CASE Exec!set_goal
      BY <2>2, <1>2 DEF Exec!set_goal, Exec!Refused, ExecInv, OpenInv, Exec!ClosedAtEnd
    <2>3. CASE Exec!build_registry
      BY <2>3, <1>2 DEF Exec!build_registry, Exec!Refused, ExecInv, OpenInv, Exec!ClosedAtEnd
    <2>4. CASE Exec!prepare
      BY <2>4, <1>2 DEF Exec!prepare, Exec!Refused, ExecInv, OpenInv, Exec!ClosedAtEnd
    <2>5. QED  BY <2>1, <2>2, <2>3, <2>4
  <1>5. AnswerInv'
    BY <1>1, <1>2 DEF ExecInv, AnswerInv, FinalText, AllAre
  <1>6. EndInv'
    BY <1>1 DEF EndInv
  <1>7. QED  BY <1>3, <1>4, <1>5, <1>6 DEF ExecInv

\* In the run nothing is opened, closed or written.
LEMMA ExecStays ==
  ASSUME ExecInv, exec = "run", Exec!Stay, ExecTypes', AnswerInv'
  PROVE  ExecInv'
  <1>1. OpenInv'
    BY DEF ExecInv, OpenInv, Exec!Stay, Exec!ClosedAtEnd
  <1>2. EndInv'
    BY DEF EndInv, Exec!Stay
  <1>3. QED  BY <1>1, <1>2 DEF ExecInv

LEMMA ExecResponds == ASSUME ExecInv, Exec!Respond PROVE ExecInv'
  <1>1. /\ exec = "run" /\ exec' = exec /\ ~rendered.failed /\ Exec!Stay
        /\ response = Exec!None /\ after = 0
        /\ odd' = (odd \/ rendered.response_text # << >>)
        /\ responses' = responses + 1
        /\ response' = [text |-> responses', calls |-> FALSE]
        /\ UNCHANGED <<after, rendered, last, options>>
    BY DEF Exec!Respond, Exec!Stay, Exec!Open
  <1>2. responses \in Nat /\ last \in Nat /\ last <= responses /\ ~rendered.response_called_tool
    BY <1>1 DEF ExecInv, ExecTypes, AnswerInv
  <1>3. responses' \in Nat /\ last' < responses' /\ last' <= responses' /\ responses' # 0
    BY <1>1, <1>2
  <1>4. ExecTypes'
    BY <1>1, <1>3 DEF ExecInv, ExecTypes
  <1>5. response' # Exec!None /\ response'.text = responses' /\ ~response'.calls
    BY <1>1, <1>3 DEF Exec!None
  <1>6. ~odd' => AllAre(rendered'.response_text, responses')
    <2>1. ~odd' => rendered'.response_text = << >>
      BY <1>1
    <2>2. AllAre(<< >>, responses')
      BY DEF AllAre
    <2>3. QED  BY <2>1, <2>2
  <1>7. AnswerInv'
    BY <1>1, <1>2, <1>3, <1>5, <1>6 DEF AnswerInv, Exec!None
  <1>8. QED  BY <1>1, <1>4, <1>7, ExecStays

LEMMA ExecSays == ASSUME ExecInv, Exec!text PROVE ExecInv'
  <1> DEFINE said == rendered.response_text
  <1>1. /\ exec = "run" /\ exec' = exec /\ ~rendered.failed /\ Exec!Stay
        /\ response # Exec!None
        /\ rendered' = [rendered EXCEPT !.response_text = Append(@, response.text)]
        /\ UNCHANGED <<response, responses, after, last, odd, options>>
    BY DEF Exec!text, Exec!Stay, Exec!Open
  <1>2. said \in Seq(Nat) /\ response.text \in Nat
    BY DEF ExecInv, ExecTypes
  <1>3. Append(said, response.text) \in Seq(Nat)
    BY <1>2
  <1>4. /\ rendered'.response_text = Append(said, response.text)
        /\ rendered'.response_called_tool = rendered.response_called_tool
        /\ rendered'.final_text = rendered.final_text /\ rendered'.failed = rendered.failed
        /\ rendered' \in [response_text : Seq(Nat), response_called_tool : BOOLEAN,
                          final_text : Seq(Nat), failed : BOOLEAN]
    BY <1>1, <1>3 DEF ExecInv, ExecTypes
  <1>5. ExecTypes'
    BY <1>1, <1>4 DEF ExecInv, ExecTypes
  <1>6. AllAre(said, responses) /\ response.text = responses =>
          AllAre(Append(said, response.text), responses)
    BY <1>2 DEF AllAre
  <1> HIDE DEF said
  <1>7. AnswerInv'
    BY <1>1, <1>4, <1>6 DEF ExecInv, AnswerInv, said, Exec!None
  <1>8. QED  BY <1>1, <1>5, <1>7, ExecStays

LEMMA ExecCalls == ASSUME ExecInv, Exec!tool_call PROVE ExecInv'
  <1>1. /\ exec = "run" /\ exec' = exec /\ ~rendered.failed /\ Exec!Stay
        /\ response # Exec!None
        /\ response' = [response EXCEPT !.calls = TRUE]
        /\ rendered' = [rendered EXCEPT !.response_called_tool = TRUE]
        /\ UNCHANGED <<responses, after, last, odd, options>>
    BY DEF Exec!tool_call, Exec!Stay, Exec!Open
  <1>2. /\ response'.text = response.text /\ response'.calls
        /\ response' \in [text : Nat, calls : BOOLEAN]
    BY <1>1 DEF ExecInv, ExecTypes
  <1>3. /\ rendered'.response_text = rendered.response_text
        /\ rendered'.response_called_tool
        /\ rendered'.final_text = rendered.final_text /\ rendered'.failed = rendered.failed
        /\ rendered' \in [response_text : Seq(Nat), response_called_tool : BOOLEAN,
                          final_text : Seq(Nat), failed : BOOLEAN]
    BY <1>1 DEF ExecInv, ExecTypes
  <1>4. ExecTypes'
    BY <1>1, <1>2, <1>3 DEF ExecInv, ExecTypes
  <1>5. response' # Exec!None
    BY <1>2 DEF Exec!None
  <1>6. AnswerInv'
    BY <1>1, <1>2, <1>3, <1>5 DEF ExecInv, AnswerInv, AllAre
  <1>7. QED  BY <1>1, <1>4, <1>6, ExecStays

\* After a response AnswerInv is about what is left of it.
LEMMA ExecAnswered ==
  ASSUME response' = Exec!None, ~rendered'.response_called_tool, last' <= responses',
         ~odd' /\ after' # 0 => after' = last' /\ rendered'.response_text = << >>,
         ~odd' /\ after' = 0 /\ last' = responses' =>
           FinalText' # << >> /\ AllAre(FinalText, last)'
  PROVE  AnswerInv'
  BY DEF AnswerInv, Exec!None

LEMMA ExecCounts == ASSUME ExecInv, Exec!usage PROVE ExecInv'
  <1> DEFINE said == rendered.response_text
  <1>1. /\ exec = "run" /\ exec' = exec /\ ~rendered.failed /\ Exec!Stay
        /\ response # Exec!None /\ response' = Exec!None
        /\ rendered' = Exec!EndOfResponse(rendered)
        /\ last' = IF response.calls THEN last ELSE response.text
        /\ after' = IF response.calls \/ Exec!Said(response.text) THEN 0 ELSE response.text
        /\ UNCHANGED <<responses, odd, options>>
    BY DEF Exec!usage, Exec!Stay, Exec!Open
  <1>2. /\ response.text = responses /\ responses \in Nat /\ last < responses /\ last \in Nat
        /\ rendered.response_called_tool <=> response.calls
        /\ ~odd => AllAre(said, responses)
    BY <1>1 DEF ExecInv, ExecTypes, AnswerInv
  <1>3. said \in Seq(Nat) /\ rendered.final_text \in Seq(Nat)
    BY DEF ExecInv, ExecTypes
  <1>4. /\ rendered'.response_text = << >> /\ ~rendered'.response_called_tool
        /\ rendered'.final_text = IF rendered.response_called_tool THEN rendered.final_text ELSE said
        /\ rendered'.failed = rendered.failed
        /\ rendered' \in [response_text : Seq(Nat), response_called_tool : BOOLEAN,
                          final_text : Seq(Nat), failed : BOOLEAN]
    <2> DEFINE final == IF rendered.response_called_tool THEN rendered.final_text ELSE said
    <2>1. final \in Seq(Nat) /\ << >> \in Seq(Nat)
      BY <1>3
    <2>2. rendered' = [rendered EXCEPT !.final_text = final, !.response_text = << >>,
                                       !.response_called_tool = FALSE]
      BY <1>1 DEF Exec!EndOfResponse, ExecInv, ExecTypes
    <2> HIDE DEF final
    <2>3. QED  BY <2>1, <2>2 DEF ExecInv, ExecTypes, final
  <1>5. last' \in Nat /\ after' \in Nat /\ last' <= responses'
    BY <1>1, <1>2
  <1>6. ExecTypes'
    BY <1>1, <1>4, <1>5 DEF ExecInv, ExecTypes, Exec!None
  <1>7. ASSUME response.calls PROVE AnswerInv'
    <2>1. last' = last /\ after' = 0 /\ last' # responses'
      BY <1>1, <1>2, <1>7
    <2>2. QED  BY <1>1, <1>4, <1>5, <2>1, ExecAnswered
  <1>8. ASSUME ~response.calls, Exec!Said(response.text) PROVE AnswerInv'
    <2>1. last' = responses' /\ after' = 0 /\ FinalText' = said
      BY <1>1, <1>2, <1>4, <1>8 DEF FinalText
    <2>2. said # << >>
      BY <1>8 DEF Exec!Said
    <2>3. ~odd' => FinalText' # << >> /\ AllAre(FinalText, last)'
      <3>1. ~odd => AllAre(said, last')
        BY <1>2, <2>1, <1>1
      <3>2. QED  BY <1>1, <2>1, <2>2, <3>1 DEF AllAre
    <2>4. QED  BY <1>1, <1>4, <1>5, <2>1, <2>3, ExecAnswered
  <1>9. ASSUME ~response.calls, ~Exec!Said(response.text) PROVE AnswerInv'
    <2>1. last' = responses /\ after' = responses
      BY <1>1, <1>2, <1>9
    <2>2. after' # 0
      BY <1>2, <2>1
    <2>3. QED  BY <1>1, <1>4, <1>5, <2>1, <2>2, ExecAnswered
  <1>10. QED  BY <1>1, <1>6, <1>7, <1>8, <1>9, ExecStays

LEMMA ExecFallsBack == ASSUME ExecInv, Exec!Fallback PROVE ExecInv'
  <1> DEFINE said == rendered.response_text
  <1>1. /\ exec = "run" /\ exec' = exec /\ ~rendered.failed /\ Exec!Stay
        /\ after # 0 /\ after' = 0
        /\ rendered' \in {[rendered EXCEPT !.response_text = Append(@, after)],
                           [rendered EXCEPT !.failed = TRUE]}
        /\ UNCHANGED <<response, responses, last, odd, options>>
    BY DEF Exec!Fallback, Exec!Stay, Exec!Open
  <1>2. /\ response = Exec!None /\ last <= responses /\ ~rendered.response_called_tool
        /\ ~odd => after = last /\ said = << >>
    BY <1>1 DEF ExecInv, AnswerInv
  <1>3. said \in Seq(Nat) /\ after \in Nat /\ Append(said, after) \in Seq(Nat)
    BY DEF ExecInv, ExecTypes
  <1>4. CASE rendered' = [rendered EXCEPT !.failed = TRUE]
    <2>1. rendered'.failed
      BY <1>4 DEF ExecInv, ExecTypes
    <2>2. ExecTypes'
      BY <1>1, <1>4 DEF ExecInv, ExecTypes
    <2>3. AnswerInv'
      BY <2>1 DEF AnswerInv
    <2>4. QED  BY <1>1, <2>2, <2>3, ExecStays
  <1>5. CASE rendered' = [rendered EXCEPT !.response_text = Append(@, after)]
    <2>1. /\ rendered'.response_text = Append(said, after)
          /\ rendered'.response_called_tool = rendered.response_called_tool
          /\ rendered' \in [response_text : Seq(Nat), response_called_tool : BOOLEAN,
                            final_text : Seq(Nat), failed : BOOLEAN]
      BY <1>3, <1>5 DEF ExecInv, ExecTypes
    <2>2. ExecTypes'
      BY <1>1, <2>1 DEF ExecInv, ExecTypes
    <2>3. ~odd => FinalText' # << >> /\ AllAre(FinalText, last)'
      <3> SUFFICES ASSUME ~odd PROVE FinalText' # << >> /\ AllAre(FinalText, last)'
        OBVIOUS
      <3>1. rendered'.response_text = <<after>> /\ after = last
        <4>1. Append(<< >>, after) = <<after>>
          BY <1>3
        <4>2. QED  BY <1>2, <2>1, <4>1
      <3>2. FinalText' = <<last'>>
        BY <1>1, <3>1 DEF FinalText
      <3>3. <<last'>> # << >> /\ AllAre(<<last'>>, last')
        BY DEF AllAre
      <3>4. QED  BY <3>2, <3>3 DEF AllAre
    <2>4. AnswerInv'
      BY <1>1, <1>2, <2>1, <2>3 DEF AnswerInv
    <2>5. QED  BY <1>1, <2>2, <2>4, ExecStays
  <1>6. QED  BY <1>1, <1>4, <1>5

LEMMA ExecFails == ASSUME ExecInv, Exec!error PROVE ExecInv'
  <1>1. /\ exec = "run" /\ Exec!Stay
        /\ rendered' = [rendered EXCEPT !.failed = TRUE]
        /\ response' = Exec!None /\ after' = 0
        /\ UNCHANGED <<responses, last, options, exec>>
    BY DEF Exec!error, Exec!Stay, Exec!Open
  <1>2. rendered'.failed
    BY <1>1 DEF ExecInv, ExecTypes
  <1>3. ExecTypes'
    BY <1>1 DEF ExecInv, ExecTypes, Exec!None
  <1>4. AnswerInv'
    BY <1>2 DEF AnswerInv
  <1>5. QED  BY <1>1, <1>3, <1>4, ExecStays

LEMMA ExecRenders == ASSUME ExecInv, Exec!render_exec PROVE ExecInv'
  <1>1. /\ exec = "run" /\ response = Exec!None /\ after = 0 /\ exec' = "write"
        /\ rendered.failed \/ (responses > 0 /\ last = responses)
        /\ rendered' = Exec!EndOfRun(rendered)
        /\ printed' = IF options.json THEN << >> ELSE rendered'.final_text
        /\ exit_code' = IF rendered.failed THEN 1 ELSE 0
        /\ opened' = opened \ {"registry"}
        /\ UNCHANGED <<options, response, responses, after, last, odd, output_file>>
    BY DEF Exec!render_exec, Exec!MayEnd, Exec!Answered
  <1>2. /\ rendered.response_text \in Seq(Nat) /\ rendered.final_text \in Seq(Nat)
        /\ rendered \in [response_text : Seq(Nat), response_called_tool : BOOLEAN,
                          final_text : Seq(Nat), failed : BOOLEAN]
    BY DEF ExecInv, ExecTypes
  <1>3. /\ rendered' \in [response_text : Seq(Nat), response_called_tool : BOOLEAN,
                           final_text : Seq(Nat), failed : BOOLEAN]
        /\ ~rendered.response_called_tool => rendered'.final_text = FinalText
    BY <1>1, <1>2 DEF Exec!EndOfRun, FinalText
  <1>4. ExecTypes'
    BY <1>1, <1>3 DEF ExecInv, ExecTypes
  <1>5. OpenInv'
    BY <1>1 DEF ExecInv, OpenInv, Exec!ClosedAtEnd
  <1>6. AnswerInv'
    BY <1>1 DEF AnswerInv
  <1>7. EndInv'
    <2>1. CASE rendered.failed
      BY <1>1, <2>1 DEF EndInv
    <2>2. CASE ~rendered.failed
      <3>1. ~odd => FinalText # << >> /\ AllAre(FinalText, last)
        BY <1>1, <2>2 DEF ExecInv, AnswerInv
      <3>2. rendered'.final_text = FinalText
        BY <1>1, <1>3, <2>2 DEF ExecInv, AnswerInv
      <3>3. ~odd' => rendered'.final_text # << >> /\ AllAre(rendered.final_text, last)'
        BY <1>1, <3>1, <3>2 DEF AllAre
      <3>4. QED  BY <1>1, <3>3 DEF EndInv
    <2>3. QED  BY <2>1, <2>2
  <1>8. QED  BY <1>4, <1>5, <1>6, <1>7 DEF ExecInv

\* An exception that nothing catches.
LEMMA ExecRaises == ASSUME ExecInv, Exec!Uncaught PROVE ExecInv'
  <1>1. /\ exec \notin {"ended", "raised"} /\ exec' = "raised" /\ exit_code' = 1
        /\ opened' \in IF exec = "agent" THEN {opened, {}}
                       ELSE IF exec = "run" THEN {opened \ {"registry"}} ELSE {opened}
        /\ UNCHANGED <<options, response, responses, after, rendered, last>>
    BY DEF Exec!Uncaught
  <1>2. ExecTypes' /\ AnswerInv' /\ EndInv'
    BY <1>1 DEF ExecInv, ExecTypes, AnswerInv, EndInv
  <1>3. responses > 0 => "registry" \notin opened'
    <2>1. responses > 0 => exec \in {"run", "write", "close"}
      BY <1>1 DEF ExecInv, ExecTypes, OpenInv
    <2>2. exec = "run" => "registry" \notin opened'
      BY <1>1
    <2>3. exec \in {"write", "close"} => "registry" \notin opened'
      BY <1>1 DEF ExecInv, OpenInv
    <2>4. QED  BY <2>1, <2>2, <2>3
  <1>4. OpenInv'
    BY <1>1, <1>3 DEF OpenInv, Exec!ClosedAtEnd
  <1>5. QED  BY <1>2, <1>4 DEF ExecInv

\* An interrupt, and what is written and closed after the run.
LEMMA ExecEnds ==
  ASSUME ExecInv,
         Exec!KeyboardInterrupt \/ Exec!write_output \/ Exec!close
  PROVE  ExecInv'
  <1>1. AnswerInv'
    BY DEF Exec!KeyboardInterrupt, Exec!write_output, Exec!close, AnswerInv
  <1>2. CASE Exec!KeyboardInterrupt
    <2>1. ExecTypes'
      <3>1. /\ rendered' = [rendered EXCEPT !.final_text = << >>]
            /\ response' = Exec!None /\ after' = 0 /\ exec' = "write"
            /\ UNCHANGED <<responses, last, options>>
        BY <1>2 DEF Exec!KeyboardInterrupt
      <3>2. << >> \in Seq(Nat)
        OBVIOUS
      <3>3. QED  BY <3>1, <3>2 DEF ExecInv, ExecTypes, Exec!None
    <2>2. OpenInv'
      BY <1>2 DEF Exec!KeyboardInterrupt, ExecInv, OpenInv, Exec!ClosedAtEnd
    <2>3. EndInv'
      BY <1>2 DEF Exec!KeyboardInterrupt, EndInv
    <2>4. QED  BY <1>1, <2>1, <2>2, <2>3 DEF ExecInv
  <1>3. CASE Exec!write_output
    <2>1. ExecTypes'
      BY <1>3 DEF Exec!write_output, ExecInv, ExecTypes
    <2>2. OpenInv'
      BY <1>3 DEF Exec!write_output, ExecInv, OpenInv, Exec!ClosedAtEnd
    <2>3. EndInv'
      BY <1>3 DEF Exec!write_output, ExecInv, EndInv, AllAre
    <2>4. QED  BY <1>1, <2>1, <2>2, <2>3 DEF ExecInv
  <1>4. CASE Exec!close
    <2>1. ExecTypes'
      BY <1>4 DEF Exec!close, ExecInv, ExecTypes
    <2>2. OpenInv'
      BY <1>4 DEF Exec!close, ExecInv, OpenInv, Exec!ClosedAtEnd
    <2>3. EndInv'
      <3>1. usage_noted' = ("session" \in opened) /\ (("session" \in opened) <=> ~options.ephemeral)
        BY <1>4 DEF Exec!close, ExecInv, OpenInv
      <3>2. usage_noted' \in BOOLEAN /\ (usage_noted' <=> ~options.ephemeral)
        <4>1. CASE "session" \in opened
          <5>1. ("session" \in opened) = TRUE
            BY <4>1
          <5>2. usage_noted' = TRUE
            BY <3>1, <5>1, Zenon
          <5>3. QED  BY <3>1, <4>1, <5>2
        <4>2. CASE "session" \notin opened
          <5>1. ("session" \in opened) = FALSE
            BY <4>2
          <5>2. usage_noted' = FALSE
            BY <3>1, <5>1, Zenon
          <5>3. QED  BY <3>1, <4>2, <5>2
        <4>3. QED  BY <4>1, <4>2
      <3>3. QED  BY <1>4, <3>2 DEF Exec!close, ExecInv, EndInv, AllAre
    <2>4. QED  BY <1>1, <2>1, <2>2, <2>3 DEF ExecInv
  <1>5. QED  BY <1>2, <1>3, <1>4

(* cmd_exec and render_exec: what a command that ends with 0 printed, or    *)
(* wrote to the file asked for, is the text of the last answer, unless an   *)
(* answer that came without deltas was continued; and however it ends, its  *)
(* tools are closed once a model was asked, and so is the session unless    *)
(* the command was refused or an exception went through it.                 *)
THEOREM LastAnswerIsFinal ==
  Exec!ExecSpec => [](Exec!LastAnswer /\ Exec!ClosedAtEnd)
  <1>1. Exec!ExecInit => ExecInv
    BY ExecStarts
  <1>2. ExecInv /\ [Exec!ExecNext]_(Exec!execVars) => ExecInv'
    <2>1. CASE UNCHANGED Exec!execVars
      <3>1. ExecInv => ExecTypes' /\ OpenInv'
        BY <2>1 DEF Exec!execVars, ExecInv, ExecTypes, OpenInv, Exec!ClosedAtEnd
      <3>2. ExecInv => AnswerInv' /\ EndInv'
        BY <2>1 DEF Exec!execVars, ExecInv, AnswerInv, EndInv, FinalText, AllAre
      <3>3. QED  BY <3>1, <3>2 DEF ExecInv
    <2>2. QED
      BY <2>1, ExecOpens, ExecResponds, ExecSays, ExecCalls, ExecCounts, ExecFallsBack,
         ExecFails, ExecRenders, ExecEnds, ExecRaises DEF Exec!ExecNext
  <1>3. ExecInv => Exec!LastAnswer /\ Exec!ClosedAtEnd
    <2>1. ExecInv => Exec!ClosedAtEnd
      BY DEF ExecInv, OpenInv
    <2>2. ASSUME ExecInv, exec = "ended", exit_code = 0
          PROVE  /\ ~odd => /\ rendered.final_text # << >>
                            /\ \A i \in DOMAIN rendered.final_text : rendered.final_text[i] = last
                 /\ ~options.json => printed = rendered.final_text
                 /\ options.output => output_file = rendered.final_text
                 /\ usage_noted = ~options.ephemeral
      <3>1. usage_noted \in BOOLEAN /\ (usage_noted <=> ~options.ephemeral)
        BY <2>2 DEF ExecInv, EndInv
      <3>2. usage_noted = ~options.ephemeral
        BY <3>1
      <3>3. QED  BY <2>2, <3>2 DEF ExecInv, EndInv, AllAre
    <2>3. QED  BY <2>1, <2>2 DEF Exec!LastAnswer
  <1>4. QED  BY <1>1, <1>2, <1>3, PTL DEF Exec!ExecSpec

-----------------------------------------------------------------------------
(* The interactive terminal (mjj/tui.py). *)

Prompts == [text : Nat, images : SUBSET Nat]
Runs == [text : Nat, images : SUBSET Nat, session : Nat]

TermTypes ==
  /\ console \in {"prompt", "turn", "live", "plain", "joining", "closing", "exited"}
  /\ prompts \in Seq(Prompts) /\ begun \in Seq(Runs)
  /\ pending_prompts \in Seq(Nat)
  /\ attachments \subseteq Nat /\ attached \in Nat
  /\ typed \in Nat /\ session \in Nat

\* Nothing is queued at the prompt, and a turn has taken what was queued.
QueueInv ==
  /\ console \in {"prompt", "turn"} => pending_prompts = << >>
  /\ console = "prompt" => prompts = << >>

\* What waits was typed before.
TypedInv ==
  /\ \A j \in DOMAIN prompts : prompts[j].text <= typed
  /\ \A j \in DOMAIN pending_prompts : pending_prompts[j] <= typed

\* A prompt that waits is younger than every run of another session.
AgeInv ==
  \A i \in DOMAIN begun :
    /\ begun[i].text <= typed
    /\ begun[i].session # session =>
         /\ \A j \in DOMAIN prompts : begun[i].text < prompts[j].text
         /\ \A j \in DOMAIN pending_prompts : begun[i].text < pending_prompts[j]
         /\ ~left_behind => begun[i].text \notin at_work

\* Unless a run was left behind, only the last one may be at work.
AtWorkInv ==
  ~left_behind =>
    /\ console \in {"prompt", "turn", "exited"} => at_work = {}
    /\ console \in {"live", "plain", "joining", "closing"} =>
         begun # << >> /\ at_work \subseteq {Term!Current}

ModeInv ==
  /\ waiting # "none" /\ ~rechosen => permission = "read-only" /\ waiting = chosen
  /\ waiting = "none" /\ ~rechosen => permission = chosen
  /\ permission # "none"

OutlineInv == ~left_behind => outline \in {0, session}

TermInv ==
  TermTypes /\ QueueInv /\ TypedInv /\ AgeInv /\ AtWorkInv /\ ModeInv /\ OutlineInv

LEMMA TakesHead ==
  ASSUME NEW S, NEW q \in Seq(S), q # << >>
  PROVE  /\ Head(q) \in S /\ Head(q) = q[1] /\ 1 \in DOMAIN q
         /\ Tail(q) \in Seq(S)
         /\ \A j \in DOMAIN Tail(q) : j + 1 \in DOMAIN q /\ Tail(q)[j] = q[j + 1]
  OBVIOUS

LEMMA Appends ==
  ASSUME NEW S, NEW q \in Seq(S), NEW x \in S
  PROVE  /\ Append(q, x) \in Seq(S) /\ Append(q, x) # << >>
         /\ Len(q) \in Nat /\ Len(Append(q, x)) = Len(q) + 1
         /\ DOMAIN Append(q, x) = DOMAIN q \cup {Len(q) + 1}
         /\ Append(q, x)[Len(q) + 1] = x
         /\ \A i \in DOMAIN q : Append(q, x)[i] = q[i]
  OBVIOUS

LEMMA TermStarts == Term!TermInit({TRUE, FALSE}) => TermInv
  BY DEF Term!TermInit, TermInv, TermTypes, QueueInv, TypedInv, AgeInv,
         AtWorkInv, ModeInv, OutlineInv

\* Steps that leave the prompts, the runs and the console alone.
LEMMA TermStays ==
  ASSUME TermInv,
         UNCHANGED <<console, prompts, pending_prompts, begun, session, left_behind, typed>>,
         at_work' \subseteq at_work,
         attachments' \subseteq Nat, attached' \in Nat, ModeInv', OutlineInv'
  PROVE  TermInv'
  <1>1. TermTypes' /\ QueueInv' /\ TypedInv'
    BY DEF TermInv, TermTypes, QueueInv, TypedInv
  <1>2. AgeInv'
    BY DEF TermInv, AgeInv
  <1>3. AtWorkInv'
    BY DEF TermInv, AtWorkInv, Term!Current
  <1>4. QED  BY <1>1, <1>2, <1>3 DEF TermInv

\* turn: the line is younger than whatever began before it.
LEMMA TermTurns ==
  ASSUME TermInv, Term!turn, console = "prompt", UNCHANGED session,
         ModeInv', OutlineInv'
  PROVE  TermInv'
  <1>1. /\ typed' = typed + 1
        /\ prompts' = <<[text |-> typed', images |-> attachments]>>
        /\ attachments' = {} /\ console' = "turn"
        /\ UNCHANGED <<pending_prompts, at_work, begun, left_behind, attached>>
    BY DEF Term!turn
  <1>2. typed' \in Nat /\ typed \in Nat /\ attachments \subseteq Nat
    BY <1>1 DEF TermInv, TermTypes
  <1>3. TermTypes'
    <2>1. [text |-> typed', images |-> attachments] \in Prompts
      BY <1>2 DEF Prompts
    <2>2. prompts' \in Seq(Prompts)
      BY <1>1, <2>1
    <2>3. QED  BY <1>1, <1>2, <2>2 DEF TermInv, TermTypes
  <1>4. QueueInv'
    BY <1>1 DEF TermInv, QueueInv
  <1>5. AgeInv'
    <2>0. \A i \in DOMAIN begun : begun[i].text \in Nat
      <3>1. \A i \in DOMAIN begun : begun[i] \in Runs
        BY DEF TermInv, TermTypes
      <3>2. QED  BY <3>1 DEF Runs
    <2>1. \A i \in DOMAIN begun : begun[i].text \in Nat /\ begun[i].text <= typed
      BY <2>0 DEF TermInv, AgeInv
    <2>2. \A n \in Nat : n <= typed => n <= typed' /\ n < typed'
      BY <1>1, <1>2
    <2>3. \A j \in DOMAIN prompts' : prompts'[j].text = typed'
      BY <1>1
    <2>4. QED  BY <1>1, <2>1, <2>2, <2>3 DEF TermInv, AgeInv
  <1>6. AtWorkInv'
    BY <1>1 DEF TermInv, AtWorkInv
  <1>7. TypedInv'
    BY <1>1, <1>2, <1>4 DEF TermInv, TypedInv, QueueInv
  <1>8. QED  BY <1>3, <1>4, <1>5, <1>6, <1>7 DEF TermInv

LEMMA TermBegins == ASSUME TermInv, Term!StartRun PROVE TermInv'
  <1> DEFINE run == [text |-> Head(prompts).text, images |-> Head(prompts).images,
                     session |-> session]
  <1>1. /\ console = "turn" /\ prompts # << >> /\ prompts' = Tail(prompts)
        /\ begun' = Append(begun, run) /\ at_work' = at_work \cup {run.text}
        /\ console' = IF rich THEN "live" ELSE "plain"
        /\ UNCHANGED <<pending_prompts, attachments, permission, waiting, outline,
                       session, chosen, rechosen, left_behind, typed, attached>>
    BY DEF Term!StartRun, Term!Settings
  <1>2. /\ Head(prompts) \in Prompts /\ Head(prompts) = prompts[1]
        /\ 1 \in DOMAIN prompts /\ Tail(prompts) \in Seq(Prompts)
        /\ \A j \in DOMAIN Tail(prompts) : j + 1 \in DOMAIN prompts
                                          /\ Tail(prompts)[j] = prompts[j + 1]
    BY <1>1, TakesHead DEF TermInv, TermTypes
  <1>3. run \in Runs /\ run.text = prompts[1].text /\ run.session = session
    BY <1>2 DEF TermInv, TermTypes, Prompts, Runs
  <1>4. run.text <= typed
    BY <1>2, <1>3 DEF TermInv, TypedInv
  <1> HIDE DEF run
  <1>5. /\ begun' \in Seq(Runs) /\ begun' # << >>
        /\ DOMAIN begun' = DOMAIN begun \cup {Len(begun) + 1}
        /\ begun'[Len(begun) + 1] = run /\ Len(begun') = Len(begun) + 1
        /\ \A i \in DOMAIN begun : begun'[i] = begun[i]
    BY <1>1, <1>3, Appends DEF TermInv, TermTypes
  <1>6. TermTypes'
    BY <1>1, <1>2, <1>5 DEF TermInv, TermTypes
  <1>7. QueueInv' /\ TypedInv'
    BY <1>1, <1>2 DEF TermInv, QueueInv, TypedInv
  <1>8. AgeInv'
    <2>1. begun'[Len(begun) + 1].text <= typed /\ begun'[Len(begun) + 1].session = session
      BY <1>3, <1>4, <1>5
    <2>2. ASSUME NEW i \in DOMAIN begun
          PROVE  /\ begun'[i].text <= typed
                 /\ begun'[i].session # session =>
                      /\ \A j \in DOMAIN prompts' : begun'[i].text < prompts'[j].text
                      /\ ~left_behind => begun'[i].text \notin at_work'
      <3>1. begun'[i].text <= typed
        BY <1>5 DEF TermInv, AgeInv
      <3>2. ASSUME begun'[i].session # session
            PROVE  \A j \in DOMAIN prompts : begun'[i].text < prompts[j].text
        BY <1>5, <3>2 DEF TermInv, AgeInv
      <3>3. begun'[i].text \in Nat
        <4>1. begun[i] \in Runs /\ begun'[i] = begun[i]
          BY <1>5 DEF TermInv, TermTypes
        <4>2. QED  BY <4>1 DEF Runs
      <3>4. ASSUME begun'[i].session # session, ~left_behind
            PROVE  begun'[i].text \notin at_work'
        <4>1. begun'[i].text < run.text
          BY <1>2, <1>3, <3>2, <3>4
        <4>2. begun'[i].text # run.text
          BY <1>3, <3>3, <4>1
        <4>3. at_work = {}
          BY <1>1, <3>4 DEF TermInv, AtWorkInv
        <4>4. QED  BY <1>1, <4>2, <4>3
      <3>5. QED  BY <1>1, <1>2, <3>1, <3>2, <3>4
    <2>3. pending_prompts' = << >>
      BY <1>1 DEF TermInv, QueueInv
    <2>4. QED  BY <1>1, <1>5, <2>1, <2>2, <2>3 DEF AgeInv
  <1>9. AtWorkInv'
    <2>1. Term!Current' = run.text
      BY <1>5 DEF Term!Current, Term!Last
    <2>2. QED  BY <1>1, <1>5, <2>1 DEF TermInv, AtWorkInv
  <1>10. QED
    BY <1>1, <1>6, <1>7, <1>8, <1>9 DEF TermInv, ModeInv, OutlineInv

LEMMA Joins ==
  ASSUME NEW S, NEW q \in Seq(S), NEW r \in Seq(S)
  PROVE  /\ q \o r \in Seq(S)
         /\ \A j \in DOMAIN (q \o r) :
              \/ \E k \in DOMAIN q : (q \o r)[j] = q[k]
              \/ \E k \in DOMAIN r : (q \o r)[j] = r[k]
  <1>1. q \o r \in Seq(S) /\ Len(q) \in Nat /\ Len(r) \in Nat /\ Len(q \o r) = Len(q) + Len(r)
    OBVIOUS
  <1>2. ASSUME NEW j \in DOMAIN (q \o r), j <= Len(q)
        PROVE  j \in DOMAIN q /\ (q \o r)[j] = q[j]
    BY <1>2
  <1>3. ASSUME NEW j \in DOMAIN (q \o r), ~(j <= Len(q))
        PROVE  j - Len(q) \in DOMAIN r /\ (q \o r)[j] = r[j - Len(q)]
    BY <1>1, <1>3
  <1>4. QED  BY <1>1, <1>2, <1>3

\* After a run the follow-ups join the turn, whatever was typed meanwhile.
LEMMA TermDrains ==
  ASSUME TermInv, Term!Drain(pending_prompts), typed' \in Nat, typed <= typed',
         UNCHANGED <<begun, session, attachments, attached>>,
         at_work' \subseteq at_work, ~left_behind' => ~left_behind /\ at_work' = {},
         ModeInv', OutlineInv'
  PROVE  TermInv'
  <1> DEFINE joined == [i \in DOMAIN pending_prompts |->
                         [text |-> pending_prompts[i], images |-> {}]]
  <1>1. /\ prompts' = prompts \o joined /\ pending_prompts' = << >> /\ console' = "turn"
    BY DEF Term!Drain
  <1>2. /\ joined \in Seq(Prompts) /\ DOMAIN joined = DOMAIN pending_prompts
        /\ \A i \in DOMAIN joined : joined[i].text = pending_prompts[i]
    <2>1. \A i \in DOMAIN pending_prompts :
            [text |-> pending_prompts[i], images |-> {}] \in Prompts
      BY DEF TermInv, TermTypes, Prompts
    <2>2. DOMAIN pending_prompts = 1..Len(pending_prompts) /\ Len(pending_prompts) \in Nat
      BY DEF TermInv, TermTypes
    <2>3. QED  BY <2>1, <2>2
  <1> HIDE DEF joined
  <1>3. /\ prompts' \in Seq(Prompts)
        /\ \A j \in DOMAIN prompts' :
             \/ \E k \in DOMAIN prompts : prompts'[j] = prompts[k]
             \/ \E k \in DOMAIN joined : prompts'[j] = joined[k]
    <2>1. prompts \in Seq(Prompts)
      BY DEF TermInv, TermTypes
    <2>2. /\ prompts \o joined \in Seq(Prompts)
          /\ \A j \in DOMAIN (prompts \o joined) :
               \/ \E k \in DOMAIN prompts : (prompts \o joined)[j] = prompts[k]
               \/ \E k \in DOMAIN joined : (prompts \o joined)[j] = joined[k]
      BY <1>2, <2>1, Joins
    <2>3. QED  BY <1>1, <2>2
  <1>4. \A j \in DOMAIN prompts' :
          \/ \E k \in DOMAIN prompts : prompts'[j].text = prompts[k].text
          \/ \E k \in DOMAIN pending_prompts : prompts'[j].text = pending_prompts[k]
    BY <1>2, <1>3
  <1>5. TermTypes'
    BY <1>1, <1>3 DEF TermInv, TermTypes
  <1>6. QueueInv'
    BY <1>1 DEF QueueInv
  <1>7. TypedInv'
    <2>1. \A j \in DOMAIN prompts' : prompts'[j].text <= typed
      BY <1>4 DEF TermInv, TypedInv
    <2>2. \A j \in DOMAIN prompts' : prompts'[j].text \in Nat
      <3>1. \A j \in DOMAIN prompts' : prompts'[j] \in Prompts
        BY <1>3
      <3>2. QED  BY <3>1 DEF Prompts
    <2>3. typed \in Nat
      BY DEF TermInv, TermTypes
    <2>4. \A j \in DOMAIN prompts' : prompts'[j].text <= typed'
      BY <2>1, <2>2, <2>3
    <2>5. QED  BY <1>1, <2>4 DEF TypedInv
  <1>8. AgeInv'
    <2>1. \A i \in DOMAIN begun : begun[i].text <= typed'
      <3>1. \A i \in DOMAIN begun : begun[i] \in Runs /\ begun[i].text <= typed
        BY DEF TermInv, TermTypes, AgeInv
      <3>2. \A i \in DOMAIN begun : begun[i].text \in Nat
        BY <3>1 DEF Runs
      <3>3. typed \in Nat
        BY DEF TermInv, TermTypes
      <3>4. QED  BY <3>1, <3>2, <3>3
    <2>2. ASSUME NEW i \in DOMAIN begun, begun[i].session # session
          PROVE  \A j \in DOMAIN prompts' : begun[i].text < prompts'[j].text
      BY <1>4, <2>2 DEF TermInv, AgeInv
    <2>3. QED  BY <1>1, <2>1, <2>2 DEF AgeInv
  <1>9. AtWorkInv'
    BY <1>1 DEF AtWorkInv
  <1>10. QED
    BY <1>5, <1>6, <1>7, <1>8, <1>9 DEF TermInv

\* The console moves on, and takes nothing with it.
LEMMA TermMoves ==
  ASSUME TermInv,
         UNCHANGED <<prompts, pending_prompts, begun, session, attachments,
                     attached, permission, waiting, outline, chosen, rechosen>>,
         typed' \in Nat, typed <= typed',
         at_work' \subseteq at_work, ~left_behind' => ~left_behind, console' # "turn",
         console' \in {"prompt", "turn", "live", "plain", "joining", "closing", "exited"},
         console' = "prompt" => prompts = << >> /\ console = "turn",
         AtWorkInv'
  PROVE  TermInv'
  <1>1. TermTypes'
    BY DEF TermInv, TermTypes
  <1>2. QueueInv'
    BY DEF TermInv, QueueInv
  <1>3. typed \in Nat
    BY DEF TermInv, TermTypes
  <1>4. TypedInv'
    <2>1. \A j \in DOMAIN prompts : prompts[j] \in Prompts /\ prompts[j].text <= typed
      BY DEF TermInv, TermTypes, TypedInv
    <2>2. \A j \in DOMAIN prompts : prompts[j].text \in Nat
      BY <2>1 DEF Prompts
    <2>3. \A j \in DOMAIN pending_prompts :
            pending_prompts[j] \in Nat /\ pending_prompts[j] <= typed
      BY DEF TermInv, TermTypes, TypedInv
    <2>4. QED  BY <1>3, <2>1, <2>2, <2>3 DEF TypedInv
  <1>5. AgeInv'
    <2>1. \A i \in DOMAIN begun : begun[i] \in Runs /\ begun[i].text <= typed
      BY DEF TermInv, TermTypes, AgeInv
    <2>2. \A i \in DOMAIN begun : begun[i].text \in Nat
      BY <2>1 DEF Runs
    <2>3. \A i \in DOMAIN begun : begun[i].text <= typed'
      BY <1>3, <2>1, <2>2
    <2>4. QED  BY <2>3 DEF TermInv, AgeInv
  <1>6. QED
    BY <1>1, <1>2, <1>4, <1>5 DEF TermInv, ModeInv, OutlineInv

LEMMA TermRenders ==
  ASSUME TermInv,
         Term!_render \/ Term!_interactive_render \/ Term!shutdown_default_executor
  PROVE  TermInv'
  <1>1. UNCHANGED <<attachments, begun, permission, waiting, outline, session,
                    chosen, rechosen, attached>>
    BY DEF Term!_render, Term!_interactive_render, Term!shutdown_default_executor,
           Term!Settled
  <1>2. typed \in Nat /\ typed' \in Nat /\ typed <= typed'
    <2>1. typed \in Nat
      BY DEF TermInv, TermTypes
    <2>2. typed' = typed \/ typed' = typed + 1
      BY DEF Term!_render, Term!_interactive_render, Term!shutdown_default_executor
    <2>3. QED  BY <2>1, <2>2
  <1>3. at_work' \subseteq at_work
    BY DEF Term!_render, Term!_interactive_render, Term!shutdown_default_executor
  <1>4. /\ left_behind' = left_behind \/ left_behind' = TRUE
        /\ ~left_behind' => ~left_behind /\ at_work' = {}
    BY DEF Term!_render, Term!_interactive_render, Term!shutdown_default_executor,
           TermInv, AtWorkInv
  <1>5. \/ Term!Drain(pending_prompts)
        \/ console' = "exited" /\ UNCHANGED <<prompts, pending_prompts>>
    BY DEF Term!_render, Term!_interactive_render, Term!shutdown_default_executor
  <1>6. ModeInv' /\ OutlineInv'
    BY <1>1, <1>4 DEF TermInv, ModeInv, OutlineInv
  <1>7. CASE Term!Drain(pending_prompts)
    BY <1>1, <1>2, <1>3, <1>4, <1>6, <1>7, TermDrains
  <1>8. CASE console' = "exited" /\ UNCHANGED <<prompts, pending_prompts>>
    <2>1. AtWorkInv'
      BY <1>4, <1>8 DEF AtWorkInv
    <2>2. QED  BY <1>1, <1>2, <1>3, <1>4, <1>8, <2>1, TermMoves
  <1>9. QED  BY <1>5, <1>7, <1>8

\* A follow-up typed while a run works is younger than all runs.
LEMMA TermQueues == ASSUME TermInv, Term!_accept_live_input PROVE TermInv'
  <1>1. /\ console = "live" /\ typed' = typed + 1
        /\ UNCHANGED <<console, prompts, attachments, at_work, begun, permission, waiting,
                       outline, session, chosen, rechosen, left_behind, attached>>
    BY DEF Term!_accept_live_input, Term!Settings
  <1>2. typed \in Nat /\ typed' \in Nat /\ typed <= typed'
    BY <1>1 DEF TermInv, TermTypes
  <1>3. AtWorkInv'
    BY <1>1 DEF TermInv, AtWorkInv, Term!Current
  <1>4. CASE UNCHANGED pending_prompts
    BY <1>1, <1>2, <1>3, <1>4, TermMoves
  <1>5. CASE pending_prompts' = Append(pending_prompts, typed')
    <2>1. /\ pending_prompts' \in Seq(Nat)
          /\ DOMAIN pending_prompts' = DOMAIN pending_prompts \cup {Len(pending_prompts) + 1}
          /\ pending_prompts'[Len(pending_prompts) + 1] = typed'
          /\ \A i \in DOMAIN pending_prompts : pending_prompts'[i] = pending_prompts[i]
      BY <1>2, <1>5, Appends DEF TermInv, TermTypes
    <2>2. \A j \in DOMAIN pending_prompts' :
            (\E k \in DOMAIN pending_prompts : pending_prompts'[j] = pending_prompts[k])
              \/ pending_prompts'[j] = typed'
      BY <2>1
    <2>3. \A n \in Nat : n <= typed => n < typed' /\ n <= typed'
      BY <1>1, <1>2
    <2>4. /\ \A j \in DOMAIN prompts : prompts[j].text \in Nat
          /\ \A j \in DOMAIN begun : begun[j].text \in Nat
          /\ \A j \in DOMAIN pending_prompts : pending_prompts[j] \in Nat
      <3>1. \A j \in DOMAIN prompts : prompts[j] \in Prompts
        BY DEF TermInv, TermTypes
      <3>2. \A j \in DOMAIN begun : begun[j] \in Runs
        BY DEF TermInv, TermTypes
      <3>3. \A j \in DOMAIN pending_prompts : pending_prompts[j] \in Nat
        BY DEF TermInv, TermTypes
      <3>4. QED  BY <3>1, <3>2, <3>3 DEF Prompts, Runs
    <2>5. TermTypes' /\ QueueInv'
      BY <1>1, <1>2, <2>1 DEF TermInv, TermTypes, QueueInv
    <2>6. TypedInv'
      <3>1. \A j \in DOMAIN prompts : prompts[j].text <= typed'
        BY <2>3, <2>4 DEF TermInv, TypedInv
      <3>2. \A j \in DOMAIN pending_prompts : pending_prompts[j] <= typed'
        BY <2>3, <2>4 DEF TermInv, TypedInv
      <3>3. typed' <= typed'
        BY <1>2
      <3>4. QED  BY <1>1, <2>2, <3>1, <3>2, <3>3 DEF TypedInv
    <2>7. AgeInv'
      <3>1. \A i \in DOMAIN begun : begun[i].text < typed' /\ begun[i].text <= typed'
        BY <2>3, <2>4 DEF TermInv, AgeInv
      <3>2. ASSUME NEW i \in DOMAIN begun, begun[i].session # session
            PROVE  \A j \in DOMAIN pending_prompts' : begun[i].text < pending_prompts'[j]
        BY <2>2, <3>1, <3>2 DEF TermInv, AgeInv
      <3>3. QED  BY <1>1, <3>1, <3>2 DEF TermInv, AgeInv
    <2>8. QED
      BY <1>1, <1>3, <2>5, <2>6, <2>7 DEF TermInv, ModeInv, OutlineInv
  <1>6. QED  BY <1>4, <1>5 DEF Term!_accept_live_input

LEMMA TermCommands ==
  ASSUME "none" \notin Modes, TermInv,
         \/ Term!Line \/ Term!_plan \/ Term!_plan_approve \/ Term!_plan_cancel
         \/ Term!_plan_clear \/ Term!_permissions
  PROVE  TermInv'
  <1>1. CASE Term!Line \/ Term!_plan \/ Term!_plan_approve
    <2>1. /\ Term!turn /\ console = "prompt" /\ UNCHANGED <<session, outline, left_behind>>
      BY <1>1 DEF Term!Line, Term!_plan, Term!_plan_approve, Term!Command,
                  Term!Settings, Term!turn
    <2>2. ModeInv'
      BY <1>1 DEF Term!Line, Term!_plan, Term!_plan_approve, Term!Resume,
                  Term!Settings, TermInv, ModeInv
    <2>3. OutlineInv'
      BY <2>1 DEF TermInv, OutlineInv
    <2>4. QED  BY <2>1, <2>2, <2>3, TermTurns
  <1>2. CASE Term!_plan_cancel \/ Term!_plan_clear \/ Term!_permissions
    <2>1. UNCHANGED <<console, prompts, pending_prompts, begun, session, left_behind, typed,
                      at_work, attachments, attached>>
      BY <1>2 DEF Term!_plan_cancel, Term!_plan_clear, Term!_permissions, Term!Stay,
                  Term!Inputs
    <2>2. attachments' \subseteq Nat /\ attached' \in Nat /\ at_work' \subseteq at_work
      BY <2>1 DEF TermInv, TermTypes
    <2>3. ModeInv'
      BY <1>2 DEF Term!_plan_cancel, Term!_plan_clear, Term!_permissions, Term!Resume,
                  TermInv, ModeInv
    <2>4. OutlineInv'
      BY <1>2, <2>1 DEF Term!_plan_cancel, Term!_plan_clear, Term!_permissions,
                        TermInv, OutlineInv
    <2>5. QED  BY <2>1, <2>2, <2>3, <2>4, TermStays
  <1>3. QED  BY <1>1, <1>2

\* At the prompt nothing waits that could be older than another session.
LEMMA TermSwitches == ASSUME TermInv, Term!_switch_session PROVE TermInv'
  <1>1. /\ console = "prompt" /\ session' = session + 1 /\ outline' = 0
        /\ UNCHANGED <<console, prompts, pending_prompts, begun, left_behind, typed,
                       at_work, attachments, attached, permission, waiting, chosen,
                       rechosen>>
    BY DEF Term!_switch_session, Term!Command, Term!Stay, Term!Inputs
  <1>2. prompts = << >> /\ pending_prompts = << >> /\ (~left_behind => at_work = {})
    BY <1>1 DEF TermInv, QueueInv, AtWorkInv
  <1>3. TermTypes' /\ QueueInv' /\ TypedInv'
    BY <1>1 DEF TermInv, TermTypes, QueueInv, TypedInv
  <1>4. AgeInv'
    BY <1>1, <1>2 DEF TermInv, AgeInv
  <1>5. AtWorkInv' /\ ModeInv' /\ OutlineInv'
    BY <1>1 DEF TermInv, AtWorkInv, ModeInv, OutlineInv, Term!Current
  <1>6. QED  BY <1>3, <1>4, <1>5 DEF TermInv

\* A run at work that writes a plan is a run of the session.
LEMMA TermPlans == ASSUME TermInv, Term!update_plan PROVE TermInv'
  <1>1. /\ UNCHANGED <<console, prompts, pending_prompts, begun, session, left_behind, typed,
                       at_work, attachments, attached, permission, waiting, chosen,
                       rechosen>>
        /\ \E i \in DOMAIN begun : begun[i].text \in at_work /\ outline' = begun[i].session
    BY DEF Term!update_plan, Term!Inputs
  <1>2. OutlineInv'
    BY <1>1 DEF TermInv, AgeInv, OutlineInv
  <1>3. attachments' \subseteq Nat /\ attached' \in Nat /\ at_work' \subseteq at_work
    BY <1>1 DEF TermInv, TermTypes
  <1>4. ModeInv'
    BY <1>1 DEF TermInv, ModeInv
  <1>5. QED  BY <1>1, <1>2, <1>3, <1>4, TermStays

LEMMA TermOthers ==
  ASSUME TermInv,
         \/ Term!_attach \/ Term!EndTurn \/ Term!WorkerDone \/ Term!Interrupt
         \/ Term!Exit \/ UNCHANGED Term!termVars
  PROVE  TermInv'
  <1>1. typed \in Nat /\ typed <= typed
    BY DEF TermInv, TermTypes
  <1>2. CASE Term!_attach \/ Term!WorkerDone \/ UNCHANGED Term!termVars
    <2>1. /\ UNCHANGED <<console, prompts, pending_prompts, begun, session, left_behind, typed,
                         permission, waiting, outline, chosen, rechosen>>
          /\ at_work' \subseteq at_work
      BY <1>2 DEF Term!_attach, Term!WorkerDone, Term!Settings, Term!Inputs, Term!termVars
    <2>2. attachments' \subseteq Nat /\ attached' \in Nat
      <3>1. attachments \subseteq Nat /\ attached \in Nat
        BY DEF TermInv, TermTypes
      <3>2. CASE Term!_attach
        <4>1. attached' = attached + 1 /\ attachments' = attachments \cup {attached'}
          BY <3>2 DEF Term!_attach
        <4>2. attached' \in Nat
          BY <3>1, <4>1
        <4>3. QED  BY <3>1, <4>1, <4>2
      <3>3. CASE UNCHANGED <<attachments, attached>>
        BY <3>1, <3>3
      <3>4. QED
        BY <1>2, <3>2, <3>3 DEF Term!WorkerDone, Term!Inputs, Term!termVars
    <2>3. ModeInv' /\ OutlineInv'
      BY <2>1 DEF TermInv, ModeInv, OutlineInv
    <2>4. QED  BY <2>1, <2>2, <2>3, TermStays
  <1>3. CASE Term!EndTurn \/ Term!Interrupt \/ Term!Exit
    <2>1. UNCHANGED <<prompts, pending_prompts, begun, session, left_behind, typed, at_work,
                      attachments, attached, permission, waiting, outline, chosen,
                      rechosen>>
      BY <1>3 DEF Term!EndTurn, Term!Interrupt, Term!Exit, Term!Settings, Term!Inputs
    <2>2. /\ console' \in {"prompt", "joining", "closing", "exited"}
          /\ console' = "prompt" => prompts = << >> /\ console = "turn"
          /\ console' \in {"joining", "closing"} => console = "live"
          /\ console' = "exited" => console = "prompt"
      BY <1>3 DEF Term!EndTurn, Term!Interrupt, Term!Exit
    <2>3. AtWorkInv'
      BY <2>1, <2>2 DEF TermInv, AtWorkInv, Term!Current
    <2>4. QED  BY <1>1, <2>1, <2>2, <2>3, TermMoves
  <1>4. QED  BY <1>2, <1>3

LEMMA TermKept ==
  ASSUME TermInv, [Term!TermNext]_(Term!termVars), "none" \notin Modes
  PROVE  TermInv'
  BY TermBegins, TermRenders, TermQueues, TermCommands, TermSwitches, TermPlans,
     TermOthers DEF Term!TermNext

(* InteractiveApp: unless one was left behind, by a second Ctrl+C or by a   *)
(* loop that waits for five minutes, one run is at work and none at the     *)
(* prompt; from /plan to its end every run is read-only, then the user's    *)
(* mode is back; and a plan is of the session it is shown in.               *)
THEOREM TerminalKeepsOrder ==
  ASSUME "none" \notin Modes
  PROVE  Term!TermSpec => [](Term!OneRun /\ Term!PlanHeld)
  <1>1. TermInv /\ [Term!TermNext]_(Term!termVars) => TermInv'
    BY TermKept
  <1>2. TermInv => Term!OneRun /\ Term!PlanHeld
    <2> SUFFICES ASSUME TermInv PROVE Term!OneRun /\ Term!PlanHeld
      OBVIOUS
    <2>1. ~left_behind => \A one, other \in at_work : one = other
      BY DEF TermInv, TermTypes, AtWorkInv
    <2>2. ~left_behind => (console = "prompt" => at_work = {})
      BY DEF TermInv, AtWorkInv
    <2>3. Term!OneRun
      BY <2>1, <2>2 DEF Term!OneRun
    <2>4. QED  BY <2>3 DEF TermInv, ModeInv, OutlineInv, Term!PlanHeld
  <1>3. QED  BY <1>1, <1>2, TermStarts, PTL DEF Term!TermSpec

LEMMA Trichotomy ==
  ASSUME NEW m \in Nat, NEW n \in Nat, NEW i \in 1..(m + n)
  PROVE  /\ i <= m \/ i > m
         /\ i <= m \/ i = m + 1 \/ i > m + 1
  OBVIOUS

LEMMA SameLine ==
  ASSUME NEW s \in Seq(Nat), NEW t \in Seq(Nat), Len(s) = Len(t),
         \A i \in 1..Len(s) : s[i] = t[i]
  PROVE  s = t
  OBVIOUS

LEMMA Behind ==
  ASSUME NEW S, NEW T, NEW q \in Seq(S), NEW r \in Seq(T)
  PROVE  /\ q \o r \in Seq(S \cup T) /\ Len(q \o r) = Len(q) + Len(r)
         /\ \A i \in 1..Len(q) : (q \o r)[i] = q[i]
         /\ \A i \in 1..Len(r) : (q \o r)[Len(q) + i] = r[i]
  <1>1. q \in Seq(S \cup T) /\ r \in Seq(S \cup T)
    OBVIOUS
  <1>2. Len(q) \in Nat /\ Len(r) \in Nat
    OBVIOUS
  <1>3. QED  BY <1>1, <1>2

LEMMA NumbersBehind ==
  ASSUME NEW s \in Seq(Nat), NEW t \in Seq(Nat)
  PROVE  /\ s \o t \in Seq(Nat) /\ Len(s \o t) = Len(s) + Len(t)
         /\ \A i \in 1..Len(s) : (s \o t)[i] = s[i]
         /\ \A i \in 1..Len(t) : (s \o t)[Len(s) + i] = t[i]
  OBVIOUS

LEMMA PromptsBehind ==
  ASSUME NEW s \in Seq(Prompts), NEW t \in Seq(Prompts)
  PROVE  /\ s \o t \in Seq(Prompts) /\ Len(s \o t) = Len(s) + Len(t)
         /\ \A i \in 1..Len(s) : (s \o t)[i] = s[i]
         /\ \A i \in 1..Len(t) : (s \o t)[Len(s) + i] = t[i]
  OBVIOUS

LEMMA AppendsOne ==
  ASSUME NEW q \in Seq(Nat), NEW x \in Nat
  PROVE  \A j \in DOMAIN Append(q, x) :
           \/ j \in DOMAIN q /\ Append(q, x)[j] = q[j]
           \/ Append(q, x)[j] = x
  BY Appends

LEMMA TextsAre ==
  ASSUME NEW S, NEW list \in Seq(S), \A x \in S : x.text \in Nat
  PROVE  /\ Term!TextsOf(list) \in Seq(Nat) /\ Len(Term!TextsOf(list)) = Len(list)
         /\ \A i \in 1..Len(list) : Term!TextsOf(list)[i] = list[i].text
  <1>1. DOMAIN list = 1..Len(list) /\ Len(list) \in Nat
    OBVIOUS
  <1>2. \A i \in 1..Len(list) : list[i].text \in Nat
    OBVIOUS
  <1>3. QED  BY <1>1, <1>2 DEF Term!TextsOf

LEMMA HaveTexts ==
  /\ \A x \in Runs : x.text \in Nat
  /\ \A x \in Prompts : x.text \in Nat
  BY DEF Runs, Prompts

\* What Lines is, place by place.
LEMMA LinesAre ==
  ASSUME NEW b \in Seq(Runs), NEW p \in Seq(Prompts), NEW q \in Seq(Nat)
  PROVE  LET lines == Term!TextsOf(b) \o Term!TextsOf(p) \o q
         IN /\ lines \in Seq(Nat) /\ Len(lines) = Len(b) + Len(p) + Len(q)
            /\ \A i \in 1..Len(b) : lines[i] = b[i].text
            /\ \A i \in 1..Len(p) : lines[Len(b) + i] = p[i].text
            /\ \A i \in 1..Len(q) : lines[Len(b) + Len(p) + i] = q[i]
  <1> DEFINE tb == Term!TextsOf(b)
             tp == Term!TextsOf(p)
             bp == tb \o tp
  <1>1. /\ tb \in Seq(Nat) /\ Len(tb) = Len(b)
        /\ \A i \in 1..Len(b) : tb[i] = b[i].text
    BY HaveTexts, TextsAre
  <1>2. /\ tp \in Seq(Nat) /\ Len(tp) = Len(p)
        /\ \A i \in 1..Len(p) : tp[i] = p[i].text
    BY HaveTexts, TextsAre
  <1>0. Len(b) \in Nat /\ Len(p) \in Nat /\ Len(q) \in Nat
    OBVIOUS
  <1> HIDE DEF tb, tp
  <1>3. /\ bp \in Seq(Nat) /\ Len(bp) = Len(b) + Len(p)
        /\ \A i \in 1..Len(b) : bp[i] = tb[i]
        /\ \A i \in 1..Len(p) : bp[Len(b) + i] = tp[i]
    <2>1. tb \in Seq(Nat) /\ tp \in Seq(Nat) /\ Len(tb) = Len(b) /\ Len(tp) = Len(p)
      BY <1>1, <1>2
    <2>2. /\ bp \in Seq(Nat) /\ Len(bp) = Len(tb) + Len(tp)
          /\ \A i \in 1..Len(tb) : bp[i] = tb[i]
          /\ \A i \in 1..Len(tp) : bp[Len(tb) + i] = tp[i]
      BY <2>1, NumbersBehind
    <2> HIDE DEF bp
    <2>3. QED  BY <2>1, <2>2
  <1> HIDE DEF bp
  <1>4. /\ bp \o q \in Seq(Nat) /\ Len(bp \o q) = Len(b) + Len(p) + Len(q)
        /\ \A i \in 1..(Len(b) + Len(p)) : (bp \o q)[i] = bp[i]
        /\ \A i \in 1..Len(q) : (bp \o q)[Len(b) + Len(p) + i] = q[i]
    <2>1. bp \in Seq(Nat) /\ Len(bp) = Len(b) + Len(p)
      BY <1>3
    <2>2. /\ bp \o q \in Seq(Nat) /\ Len(bp \o q) = Len(bp) + Len(q)
          /\ \A i \in 1..Len(bp) : (bp \o q)[i] = bp[i]
          /\ \A i \in 1..Len(q) : (bp \o q)[Len(bp) + i] = q[i]
      BY <2>1, NumbersBehind
    <2>3. QED  BY <2>1, <2>2
  <1>5. \A i \in 1..Len(b) : (bp \o q)[i] = b[i].text
    BY <1>0, <1>1, <1>3, <1>4
  <1>6. \A i \in 1..Len(p) : (bp \o q)[Len(b) + i] = p[i].text
    <2>1. \A i \in 1..Len(p) : Len(b) + i \in 1..(Len(b) + Len(p))
      BY <1>0
    <2>2. QED  BY <1>2, <1>3, <1>4, <2>1
  <1>7. QED  BY <1>4, <1>5, <1>6 DEF bp, tb, tp

\* The head of the prompts becomes the last run: the lines are the same.
LEMMA LinesStart ==
  ASSUME NEW b \in Seq(Runs), NEW p \in Seq(Prompts), NEW q \in Seq(Nat),
         p # << >>, NEW run \in Runs, run.text = Head(p).text
  PROVE  Term!TextsOf(Append(b, run)) \o Term!TextsOf(Tail(p)) \o q
           = Term!TextsOf(b) \o Term!TextsOf(p) \o q
  <1> DEFINE b1 == Append(b, run)
             p1 == Tail(p)
             lines == Term!TextsOf(b) \o Term!TextsOf(p) \o q
             lines1 == Term!TextsOf(b1) \o Term!TextsOf(p1) \o q
  <1>1. /\ b1 \in Seq(Runs) /\ Len(b1) = Len(b) + 1 /\ b1[Len(b) + 1] = run
        /\ \A i \in 1..Len(b) : b1[i] = b[i]
    OBVIOUS
  <1>2. /\ p1 \in Seq(Prompts) /\ Len(p1) = Len(p) - 1 /\ Len(p) >= 1
        /\ \A i \in 1..Len(p1) : p1[i] = p[i + 1]
    OBVIOUS
  <1>3. run.text = p[1].text
    OBVIOUS
  <1>0. Len(b) \in Nat /\ Len(p) \in Nat /\ Len(q) \in Nat
    OBVIOUS
  <1> HIDE DEF b1, p1
  <1>4. /\ lines \in Seq(Nat) /\ Len(lines) = Len(b) + Len(p) + Len(q)
        /\ \A i \in 1..Len(b) : lines[i] = b[i].text
        /\ \A i \in 1..Len(p) : lines[Len(b) + i] = p[i].text
        /\ \A i \in 1..Len(q) : lines[Len(b) + Len(p) + i] = q[i]
    BY LinesAre
  <1>5. /\ lines1 \in Seq(Nat) /\ Len(lines1) = Len(b1) + Len(p1) + Len(q)
        /\ \A i \in 1..Len(b1) : lines1[i] = b1[i].text
        /\ \A i \in 1..Len(p1) : lines1[Len(b1) + i] = p1[i].text
        /\ \A i \in 1..Len(q) : lines1[Len(b1) + Len(p1) + i] = q[i]
    BY <1>1, <1>2, LinesAre
  <1> HIDE DEF lines, lines1
  <1>6. Len(lines1) = Len(lines)
    BY <1>0, <1>1, <1>2, <1>4, <1>5
  <1>7. ASSUME NEW i \in 1..Len(lines) PROVE lines1[i] = lines[i]
    <2>1. CASE i <= Len(b)
      <3>1. i \in 1..Len(b) /\ i \in 1..Len(b1)
        BY <1>0, <1>1, <1>4, <2>1
      <3>2. lines[i] = b[i].text /\ lines1[i] = b1[i].text
        BY <1>4, <1>5, <3>1
      <3>3. b1[i] = b[i]
        BY <1>1, <3>1
      <3>4. QED  BY <3>2, <3>3
    <2>2. CASE i = Len(b) + 1
      <3>0. i \in 1..Len(b1) /\ i = Len(b) + 1
        BY <1>0, <1>1, <2>2
      <3>1. lines1[i] = run.text
        <4>1. lines1[i] = b1[i].text
          BY <1>5, <3>0
        <4>2. b1[i] = run
          BY <1>1, <3>0
        <4>3. QED  BY <4>1, <4>2
      <3>2. 1 \in 1..Len(p)
        BY <1>0, <1>2
      <3>3. lines[i] = p[1].text
        BY <1>4, <2>2, <3>2
      <3>4. QED  BY <1>3, <3>1, <3>3
    <2>3. CASE i > Len(b) + 1 /\ i <= Len(b) + Len(p)
      <3> DEFINE k == i - Len(b1)
      <3>1. k \in 1..Len(p1) /\ i = Len(b1) + k /\ k + 1 \in 1..Len(p) /\ i = Len(b) + (k + 1)
        BY <1>0, <1>1, <1>2, <2>3
      <3> HIDE DEF k
      <3>2. lines1[i] = p1[k].text /\ lines[i] = p[k + 1].text
        BY <1>4, <1>5, <3>1
      <3>3. QED  BY <1>2, <3>1, <3>2
    <2>4. CASE i > Len(b) + Len(p)
      <3> DEFINE k == i - (Len(b) + Len(p))
      <3>1. k \in 1..Len(q) /\ i = Len(b) + Len(p) + k /\ i = Len(b1) + Len(p1) + k
        BY <1>0, <1>1, <1>2, <1>4, <2>4
      <3> HIDE DEF k
      <3>2. QED  BY <1>4, <1>5, <3>1
    <2>5. QED  BY <1>0, <1>4, <2>1, <2>2, <2>3, <2>4
  <1>8. lines1 = lines
    BY <1>4, <1>5, <1>6, <1>7, SameLine
  <1>9. QED  BY <1>8 DEF lines, lines1, b1, p1

\* The follow-ups join the prompts: the lines are the same.
LEMMA LinesJoin ==
  ASSUME NEW b \in Seq(Runs), NEW p \in Seq(Prompts), NEW q \in Seq(Nat)
  PROVE  LET joined == [i \in DOMAIN q |-> [text |-> q[i], images |-> {}]]
         IN /\ p \o joined \in Seq(Prompts)
            /\ Term!TextsOf(b) \o Term!TextsOf(p \o joined) \o << >>
                 = Term!TextsOf(b) \o Term!TextsOf(p) \o q
  <1> DEFINE joined == [i \in DOMAIN q |-> [text |-> q[i], images |-> {}]]
             p1 == p \o joined
             q1 == << >>
             lines == Term!TextsOf(b) \o Term!TextsOf(p) \o q
             lines1 == Term!TextsOf(b) \o Term!TextsOf(p1) \o q1
  <1>0. Len(b) \in Nat /\ Len(p) \in Nat /\ Len(q) \in Nat /\ DOMAIN q = 1..Len(q)
    OBVIOUS
  <1>1. /\ joined \in Seq(Prompts) /\ Len(joined) = Len(q)
        /\ \A i \in 1..Len(q) : joined[i].text = q[i]
    <2>1. \A i \in DOMAIN q : [text |-> q[i], images |-> {}] \in Prompts
      BY DEF Prompts
    <2>2. QED  BY <1>0, <2>1
  <1> HIDE DEF joined
  <1>2. /\ p1 \in Seq(Prompts) /\ Len(p1) = Len(p) + Len(q)
        /\ \A i \in 1..Len(p) : p1[i] = p[i]
        /\ \A i \in 1..Len(q) : p1[Len(p) + i] = joined[i]
    <2>1. joined \in Seq(Prompts) /\ Len(joined) = Len(q)
      BY <1>1
    <2>2. /\ p1 \in Seq(Prompts) /\ Len(p1) = Len(p) + Len(joined)
          /\ \A i \in 1..Len(p) : p1[i] = p[i]
          /\ \A i \in 1..Len(joined) : p1[Len(p) + i] = joined[i]
      BY <2>1, PromptsBehind
    <2> HIDE DEF p1
    <2>3. QED  BY <2>1, <2>2
  <1>3. q1 \in Seq(Nat) /\ Len(q1) = 0
    OBVIOUS
  <1> HIDE DEF p1, q1
  <1>4. /\ lines \in Seq(Nat) /\ Len(lines) = Len(b) + Len(p) + Len(q)
        /\ \A i \in 1..Len(b) : lines[i] = b[i].text
        /\ \A i \in 1..Len(p) : lines[Len(b) + i] = p[i].text
        /\ \A i \in 1..Len(q) : lines[Len(b) + Len(p) + i] = q[i]
    BY LinesAre
  <1>5. /\ lines1 \in Seq(Nat) /\ Len(lines1) = Len(b) + Len(p1) + Len(q1)
        /\ \A i \in 1..Len(b) : lines1[i] = b[i].text
        /\ \A i \in 1..Len(p1) : lines1[Len(b) + i] = p1[i].text
    <2>1. p1 \in Seq(Prompts) /\ q1 \in Seq(Nat)
      BY <1>2, <1>3
    <2> HIDE DEF joined
    <2>2. QED  BY <2>1, LinesAre
  <1> HIDE DEF lines, lines1
  <1>6. Len(lines1) = Len(lines)
    BY <1>0, <1>2, <1>3, <1>4, <1>5
  <1>7. ASSUME NEW i \in 1..Len(lines) PROVE lines1[i] = lines[i]
    <2>1. CASE i <= Len(b)
      BY <1>0, <1>4, <1>5, <2>1
    <2>2. CASE i > Len(b) /\ i <= Len(b) + Len(p)
      <3> DEFINE k == i - Len(b)
      <3>1. k \in 1..Len(p) /\ k \in 1..Len(p1) /\ i = Len(b) + k
        BY <1>0, <1>2, <2>2
      <3> HIDE DEF k
      <3>2. QED  BY <1>2, <1>4, <1>5, <3>1
    <2>3. CASE i > Len(b) + Len(p)
      <3> DEFINE k == i - (Len(b) + Len(p))
      <3>1. /\ k \in 1..Len(q) /\ i = Len(b) + Len(p) + k
            /\ Len(p) + k \in 1..Len(p1) /\ i = Len(b) + (Len(p) + k)
        BY <1>0, <1>2, <1>4, <2>3
      <3> HIDE DEF k
      <3>2. lines1[i] = p1[Len(p) + k].text /\ lines[i] = q[k]
        BY <1>4, <1>5, <3>1
      <3>3. QED  BY <1>1, <1>2, <3>1, <3>2
    <2>4. QED  BY <1>0, <1>4, <2>1, <2>2, <2>3
  <1>8. lines1 = lines
    BY <1>4, <1>5, <1>6, <1>7, SameLine
  <1>9. QED  BY <1>2, <1>8 DEF lines, lines1, p1, q1, joined

\* A line that is typed and kept comes last.
LEMMA LinesQueue ==
  ASSUME NEW b \in Seq(Runs), NEW p \in Seq(Prompts), NEW q \in Seq(Nat), NEW n \in Nat
  PROVE  Term!TextsOf(b) \o Term!TextsOf(p) \o Append(q, n)
           = Append(Term!TextsOf(b) \o Term!TextsOf(p) \o q, n)
  <1>1. Term!TextsOf(b) \in Seq(Nat) /\ Term!TextsOf(p) \in Seq(Nat)
    BY HaveTexts, TextsAre
  <1>2. Term!TextsOf(b) \o Term!TextsOf(p) \in Seq(Nat)
    BY <1>1
  <1>3. ASSUME NEW s \in Seq(Nat) PROVE s \o Append(q, n) = Append(s \o q, n)
    OBVIOUS
  <1>4. QED  BY <1>2, <1>3

LEMMA LinesTurn ==
  ASSUME NEW b \in Seq(Runs), NEW x \in Prompts
  PROVE  Term!TextsOf(b) \o Term!TextsOf(<<x>>) \o << >>
           = Append(Term!TextsOf(b) \o Term!TextsOf(<< >>) \o << >>, x.text)
  <1>1. Term!TextsOf(b) \in Seq(Nat) /\ x.text \in Nat
    BY HaveTexts, TextsAre
  <1>2. Term!TextsOf(<<x>>) = <<x.text>>
    BY DEF Term!TextsOf
  <1>3. Term!TextsOf(<< >>) = << >>
    BY DEF Term!TextsOf
  <1>4. ASSUME NEW s \in Seq(Nat), NEW n \in Nat
        PROVE  (s \o <<n>>) \o << >> = Append((s \o << >>) \o << >>, n)
    <2>1. s \o << >> = s
      OBVIOUS
    <2>2. s \o <<n>> = Append(s, n) /\ Append(s, n) \in Seq(Nat)
      OBVIOUS
    <2>3. Append(s, n) \o << >> = Append(s, n)
      BY <2>2
    <2>4. QED  BY <2>1, <2>2, <2>3
  <1>5. QED  BY <1>1, <1>2, <1>3, <1>4

Increasing(s) == \A i, j \in DOMAIN s : i < j => s[i] < s[j]

\* Lines are numbered as they are typed; what was announced is among them.
LinesInv ==
  /\ queued \in Seq(Nat) /\ Increasing(Term!Lines) /\ Increasing(queued)
  /\ \A i \in DOMAIN Term!Lines : Term!Lines[i] <= typed
  /\ \A k \in DOMAIN queued : \E i \in DOMAIN Term!Lines : Term!Lines[i] = queued[k]
  /\ \A j \in DOMAIN pending_prompts :
       \E k \in DOMAIN queued : queued[k] = pending_prompts[j]

LEMMA LinesTyped == ASSUME TermInv PROVE Term!Lines \in Seq(Nat)
  <1>1. begun \in Seq(Runs) /\ prompts \in Seq(Prompts) /\ pending_prompts \in Seq(Nat)
    BY DEF TermInv, TermTypes
  <1>2. Term!TextsOf(begun) \o Term!TextsOf(prompts) \o pending_prompts \in Seq(Nat)
    BY <1>1, LinesAre
  <1>3. QED  BY <1>2 DEF Term!Lines

LEMMA LinesRest ==
  ASSUME TermInv, LinesInv, Term!Lines' = Term!Lines, queued' = queued,
         pending_prompts' = pending_prompts \/ pending_prompts' = << >>,
         typed' \in Nat, typed <= typed'
  PROVE  LinesInv'
  <1>1. typed \in Nat
    BY DEF TermInv, TermTypes
  <1>2. Term!Lines \in Seq(Nat)
    BY LinesTyped
  <1>3. \A i \in DOMAIN Term!Lines : Term!Lines[i] \in Nat /\ Term!Lines[i] <= typed
    BY <1>2 DEF LinesInv
  <1>4. \A i \in DOMAIN Term!Lines : Term!Lines[i] <= typed'
    BY <1>1, <1>3
  <1>5. \A j \in DOMAIN pending_prompts' :
          \E k \in DOMAIN queued : queued[k] = pending_prompts'[j]
    BY DEF LinesInv
  <1>6. Increasing(Term!Lines)' /\ Increasing(queued)'
    BY DEF LinesInv, Increasing
  <1>7. QED  BY <1>4, <1>5, <1>6 DEF LinesInv

LEMMA IncreasingMore ==
  ASSUME NEW s \in Seq(Nat), Increasing(s), NEW n \in Nat, \A i \in DOMAIN s : s[i] < n
  PROVE  /\ Increasing(Append(s, n)) /\ Append(s, n) \in Seq(Nat)
         /\ \A i \in DOMAIN Append(s, n) : Append(s, n)[i] <= n
         /\ \A i \in DOMAIN s : i \in DOMAIN Append(s, n) /\ Append(s, n)[i] = s[i]
         /\ Len(s) + 1 \in DOMAIN Append(s, n) /\ Append(s, n)[Len(s) + 1] = n
         /\ \A i \in DOMAIN Append(s, n) : i \in DOMAIN s \/ i = Len(s) + 1
  <1>1. /\ Append(s, n) \in Seq(Nat) /\ Len(s) \in Nat /\ DOMAIN s = 1..Len(s)
        /\ DOMAIN Append(s, n) = 1..(Len(s) + 1)
        /\ Append(s, n)[Len(s) + 1] = n
        /\ \A i \in DOMAIN s : Append(s, n)[i] = s[i]
    OBVIOUS
  <1>2. \A i \in DOMAIN s : s[i] \in Nat
    OBVIOUS
  <1> DEFINE t == Append(s, n)
  <1> HIDE DEF t
  <1>3. /\ DOMAIN t = 1..(Len(s) + 1) /\ t[Len(s) + 1] = n
        /\ \A i \in 1..Len(s) : t[i] = s[i] /\ s[i] \in Nat /\ s[i] < n
    BY <1>1, <1>2 DEF t
  <1>4. Increasing(t)
    BY <1>1, <1>3 DEF Increasing
  <1>5. \A i \in DOMAIN t : t[i] <= n
    BY <1>1, <1>3
  <1>6. \A i \in DOMAIN t : i \in DOMAIN s \/ i = Len(s) + 1
    BY <1>1, <1>3
  <1>7. \A i \in DOMAIN s : i \in DOMAIN t /\ t[i] = s[i]
    BY <1>1, <1>3
  <1>8. Len(s) + 1 \in DOMAIN t
    BY <1>1, <1>3
  <1>9. QED  BY <1>1, <1>3, <1>4, <1>5, <1>6, <1>7, <1>8 DEF t

LEMMA LinesGrow ==
  ASSUME TermInv, LinesInv, typed' = typed + 1, Term!Lines' = Append(Term!Lines, typed'),
         \/ UNCHANGED <<queued, pending_prompts>>
         \/ /\ queued' = Append(queued, typed')
            /\ pending_prompts' = Append(pending_prompts, typed')
  PROVE  LinesInv'
  <1>1. typed \in Nat /\ pending_prompts \in Seq(Nat)
    BY DEF TermInv, TermTypes
  <1>2. PICK n \in Nat : n = typed' /\ typed < n
    BY <1>1
  <1>3. PICK lines \in Seq(Nat) : lines = Term!Lines
    BY LinesTyped
  <1>4. \A i \in DOMAIN lines : lines[i] < n
    <2>1. \A i \in DOMAIN lines : lines[i] \in Nat /\ lines[i] <= typed
      BY <1>3 DEF LinesInv
    <2>2. QED  BY <1>1, <1>2, <2>1
  <1>5. Increasing(lines)
    BY <1>3 DEF LinesInv
  <1>6. /\ Increasing(Append(lines, n))
        /\ \A i \in DOMAIN Append(lines, n) : Append(lines, n)[i] <= n
        /\ \A i \in DOMAIN lines : i \in DOMAIN Append(lines, n) /\ Append(lines, n)[i] = lines[i]
        /\ Len(lines) + 1 \in DOMAIN Append(lines, n) /\ Append(lines, n)[Len(lines) + 1] = n
    BY <1>4, <1>5, IncreasingMore
  <1>7. Term!Lines' = Append(lines, n)
    BY <1>2, <1>3
  <1>8. Increasing(Term!Lines)' /\ \A i \in DOMAIN Term!Lines' : Term!Lines'[i] <= typed'
    BY <1>2, <1>6, <1>7 DEF Increasing
  <1>9. /\ queued \in Seq(Nat) /\ Increasing(queued)
        /\ \A k \in DOMAIN queued : \E i \in DOMAIN lines : lines[i] = queued[k]
        /\ \A j \in DOMAIN pending_prompts :
             \E k \in DOMAIN queued : queued[k] = pending_prompts[j]
    BY <1>3 DEF LinesInv
  <1>10. \A k \in DOMAIN queued : \E i \in DOMAIN Append(lines, n) :
           Append(lines, n)[i] = queued[k]
    BY <1>6, <1>9
  <1>11. CASE UNCHANGED <<queued, pending_prompts>>
    <2>1. Increasing(queued)'
      BY <1>9, <1>11 DEF Increasing
    <2>2. \A k \in DOMAIN queued' : \E i \in DOMAIN Term!Lines' : Term!Lines'[i] = queued'[k]
      BY <1>7, <1>10, <1>11
    <2>3. \A j \in DOMAIN pending_prompts' :
            \E k \in DOMAIN queued' : queued'[k] = pending_prompts'[j]
      BY <1>9, <1>11
    <2>4. queued' \in Seq(Nat)
      BY <1>9, <1>11
    <2>5. QED  BY <1>8, <2>1, <2>2, <2>3, <2>4 DEF LinesInv
  <1>12. CASE /\ queued' = Append(queued, typed')
              /\ pending_prompts' = Append(pending_prompts, typed')
    <2>1. \A k \in DOMAIN queued : queued[k] < n
      BY <1>4, <1>9
    <2>2. /\ Increasing(Append(queued, n)) /\ Append(queued, n) \in Seq(Nat)
          /\ \A i \in DOMAIN queued : /\ i \in DOMAIN Append(queued, n)
                                      /\ Append(queued, n)[i] = queued[i]
          /\ Len(queued) + 1 \in DOMAIN Append(queued, n)
          /\ Append(queued, n)[Len(queued) + 1] = n
          /\ \A i \in DOMAIN Append(queued, n) : i \in DOMAIN queued \/ i = Len(queued) + 1
      BY <1>9, <2>1, IncreasingMore
    <2>3. queued' = Append(queued, n) /\ pending_prompts' = Append(pending_prompts, n)
      BY <1>2, <1>12
    <2>4. queued' \in Seq(Nat) /\ Increasing(queued)'
      BY <2>2, <2>3 DEF Increasing
    <2>5. \A k \in DOMAIN queued' : \E i \in DOMAIN Term!Lines' : Term!Lines'[i] = queued'[k]
      <3>1. ASSUME NEW k \in DOMAIN Append(queued, n)
            PROVE  \E i \in DOMAIN Append(lines, n) : Append(lines, n)[i] = Append(queued, n)[k]
        <4>1. CASE k \in DOMAIN queued
          BY <1>10, <2>2, <4>1
        <4>2. CASE k = Len(queued) + 1
          BY <1>6, <2>2, <4>2
        <4>3. QED  BY <2>2, <4>1, <4>2
      <3>2. QED  BY <1>7, <2>3, <3>1
    <2>6. \A j \in DOMAIN pending_prompts' :
            \E k \in DOMAIN queued' : queued'[k] = pending_prompts'[j]
      <3>1. \A j \in DOMAIN Append(pending_prompts, n) :
              \/ j \in DOMAIN pending_prompts /\ Append(pending_prompts, n)[j] = pending_prompts[j]
              \/ Append(pending_prompts, n)[j] = n
        BY AppendsOne, <1>1
      <3>2. ASSUME NEW j \in DOMAIN Append(pending_prompts, n)
            PROVE  \E k \in DOMAIN Append(queued, n) :
                     Append(queued, n)[k] = Append(pending_prompts, n)[j]
        BY <1>9, <2>2, <3>1
      <3>3. QED  BY <2>3, <3>2
    <2>7. QED  BY <1>8, <2>4, <2>5, <2>6 DEF LinesInv
  <1>13. QED  BY <1>11, <1>12

LEMMA LinesKept ==
  ASSUME TermInv, LinesInv, [Term!TermNext]_(Term!termVars)
  PROVE  LinesInv'
  <1>1. /\ begun \in Seq(Runs) /\ prompts \in Seq(Prompts) /\ pending_prompts \in Seq(Nat)
        /\ typed \in Nat /\ attachments \subseteq Nat /\ session \in Nat
    BY DEF TermInv, TermTypes
  <1>2. CASE Term!StartRun
    <2> DEFINE run == [text |-> Head(prompts).text, images |-> Head(prompts).images,
                       session |-> session]
    <2>1. /\ prompts # << >> /\ prompts' = Tail(prompts) /\ begun' = Append(begun, run)
          /\ UNCHANGED <<pending_prompts, queued, typed>>
      BY <1>2 DEF Term!StartRun
    <2>2. Head(prompts) \in Prompts
      BY <1>1, <2>1
    <2>3. run \in Runs /\ run.text = Head(prompts).text
      BY <1>1, <2>2 DEF Prompts, Runs
    <2> HIDE DEF run
    <2>4. Term!Lines' = Term!Lines
      BY <1>1, <2>1, <2>3, LinesStart DEF Term!Lines, Term!TextsOf
    <2>5. QED  BY <1>1, <2>1, <2>4, LinesRest
  <1>3. CASE Term!Drain(pending_prompts) /\ queued' = queued /\ begun' = begun
             /\ (typed' = typed \/ typed' = typed + 1)
    <2>1. /\ prompts' = prompts \o [i \in DOMAIN pending_prompts |->
                                     [text |-> pending_prompts[i], images |-> {}]]
          /\ pending_prompts' = << >>
      BY <1>3 DEF Term!Drain
    <2> DEFINE joined == [i \in DOMAIN pending_prompts |->
                            [text |-> pending_prompts[i], images |-> {}]]
               added == prompts \o joined
    <2>5. Term!TextsOf(begun) \o Term!TextsOf(added) \o << >>
            = Term!TextsOf(begun) \o Term!TextsOf(prompts) \o pending_prompts
      BY <1>1, LinesJoin
    <2>6. prompts' = added
      BY <2>1
    <2> HIDE DEF added
    <2>2. Term!Lines' = Term!Lines
      BY <1>3, <2>1, <2>5, <2>6 DEF Term!Lines, Term!TextsOf
    <2>3. typed' \in Nat /\ typed <= typed'
      BY <1>1, <1>3
    <2>4. QED  BY <1>3, <2>1, <2>2, <2>3, LinesRest
  <1>4. CASE Term!turn /\ console = "prompt"
    <2> DEFINE x == [text |-> typed', images |-> attachments]
    <2>1. /\ typed' = typed + 1 /\ prompts' = <<x>> /\ UNCHANGED <<pending_prompts, begun, queued>>
      BY <1>4 DEF Term!turn
    <2>2. x \in Prompts /\ x.text = typed'
      BY <1>1, <2>1 DEF Prompts
    <2> HIDE DEF x
    <2>3. prompts = << >> /\ pending_prompts = << >>
      BY <1>4 DEF TermInv, QueueInv
    <2>4. Term!Lines' = Append(Term!Lines, typed')
      BY <1>1, <2>1, <2>2, <2>3, LinesTurn DEF Term!Lines, Term!TextsOf
    <2>5. QED  BY <2>1, <2>4, LinesGrow
  <1>5. CASE Term!_accept_live_input
    <2>1. typed' = typed + 1 /\ UNCHANGED <<prompts, begun>>
      BY <1>5 DEF Term!_accept_live_input
    <2>2. typed' \in Nat /\ typed <= typed'
      BY <1>1, <2>1
    <2>3. CASE UNCHANGED <<pending_prompts, queued>>
      <3>1. Term!Lines' = Term!Lines
        BY <2>1, <2>3 DEF Term!Lines, Term!TextsOf
      <3>2. QED  BY <2>2, <2>3, <3>1, LinesRest
    <2>4. CASE /\ pending_prompts' = Append(pending_prompts, typed')
               /\ queued' = Append(queued, typed')
      <3>1. Term!Lines' = Append(Term!Lines, typed')
        <4>1. Term!TextsOf(begun) \o Term!TextsOf(prompts) \o Append(pending_prompts, typed')
                = Append(Term!TextsOf(begun) \o Term!TextsOf(prompts) \o pending_prompts, typed')
          BY <1>1, <2>2, LinesQueue
        <4>2. Term!TextsOf(begun)' = Term!TextsOf(begun)
              /\ Term!TextsOf(prompts)' = Term!TextsOf(prompts)
          BY <2>1 DEF Term!TextsOf
        <4>3. QED  BY <2>4, <4>1, <4>2 DEF Term!Lines
      <3>2. QED  BY <2>1, <2>4, <3>1, LinesGrow
    <2>5. QED  BY <1>5, <2>3, <2>4 DEF Term!_accept_live_input
  <1>6. CASE UNCHANGED <<prompts, pending_prompts, begun, queued>>
             /\ (typed' = typed \/ typed' = typed + 1)
    <2>1. Term!Lines' = Term!Lines
      BY <1>6 DEF Term!Lines, Term!TextsOf
    <2>2. typed' \in Nat /\ typed <= typed'
      BY <1>1, <1>6
    <2>3. QED  BY <1>6, <2>1, <2>2, LinesRest
  <1>7. CASE Term!_render \/ Term!_interactive_render \/ Term!shutdown_default_executor
    <2>1. queued' = queued /\ begun' = begun /\ (typed' = typed \/ typed' = typed + 1)
      BY <1>7 DEF Term!_render, Term!_interactive_render, Term!shutdown_default_executor,
                  Term!Settled
    <2>2. Term!Drain(pending_prompts) \/ UNCHANGED <<prompts, pending_prompts>>
      BY <1>7 DEF Term!_render, Term!_interactive_render, Term!shutdown_default_executor
    <2>3. QED  BY <1>3, <1>6, <2>1, <2>2
  <1>8. CASE Term!Line \/ Term!_plan \/ Term!_plan_approve
    <2>1. Term!turn /\ console = "prompt"
      BY <1>8 DEF Term!Line, Term!_plan, Term!_plan_approve, Term!Command
    <2>2. QED  BY <1>4, <2>1
  <1>9. CASE \/ Term!_attach \/ Term!EndTurn \/ Term!update_plan \/ Term!WorkerDone
             \/ Term!Interrupt \/ Term!_plan_cancel \/ Term!_plan_clear
             \/ Term!_permissions \/ Term!_switch_session \/ Term!Exit
             \/ UNCHANGED Term!termVars
    <2>1. UNCHANGED <<prompts, pending_prompts, begun, queued, typed>>
      BY <1>9 DEF Term!_attach, Term!EndTurn, Term!update_plan, Term!WorkerDone,
         Term!Interrupt, Term!_plan_cancel, Term!_plan_clear, Term!_permissions,
         Term!_switch_session, Term!Exit, Term!termVars, Term!Stay, Term!Inputs
    <2>2. QED  BY <1>6, <2>1
  <1>10. QED
    BY <1>2, <1>5, <1>7, <1>8, <1>9 DEF Term!TermNext

LEMMA LinesOrdered ==
  ASSUME TermInv, LinesInv
  PROVE  Term!FollowUpsKept
  <1>1. PICK lines \in Seq(Nat) : lines = Term!Lines
    BY LinesTyped
  <1>2. /\ queued \in Seq(Nat) /\ Increasing(lines) /\ Increasing(queued)
        /\ \A k \in DOMAIN queued : \E i \in DOMAIN lines : lines[i] = queued[k]
        /\ \A j \in DOMAIN pending_prompts :
             \E k \in DOMAIN queued : queued[k] = pending_prompts[j]
    BY <1>1 DEF LinesInv
  <1>3. /\ Term!ToSet(pending_prompts) \subseteq Term!ToSet(queued)
        /\ Term!ToSet(queued) \subseteq Term!ToSet(lines)
    BY <1>2 DEF Term!ToSet
  <1>4. ASSUME NEW s \in Seq(Nat), Increasing(s), NEW i \in DOMAIN s, NEW j \in DOMAIN s
        PROVE  i < j <=> s[i] < s[j]
    <2>1. i \in Nat /\ j \in Nat /\ s[i] \in Nat /\ s[j] \in Nat
      BY <1>4
    <2>2. CASE i < j
      BY <1>4, <2>1, <2>2 DEF Increasing
    <2>3. CASE i = j
      BY <2>1, <2>3
    <2>4. CASE j < i
      BY <1>4, <2>1, <2>4 DEF Increasing
    <2>5. QED  BY <2>1, <2>2, <2>3, <2>4
  <1>5. ASSUME NEW i \in DOMAIN lines, NEW j \in DOMAIN lines,
               NEW k \in DOMAIN queued, NEW l \in DOMAIN queued,
               lines[i] = queued[k], lines[j] = queued[l]
        PROVE  i < j <=> k < l
    <2>1. i < j <=> lines[i] < lines[j]
      BY <1>2, <1>4
    <2>2. k < l <=> queued[k] < queued[l]
      BY <1>2, <1>4
    <2>3. QED  BY <1>5, <2>1, <2>2
  <1>6. QED  BY <1>1, <1>3, <1>5 DEF Term!FollowUpsKept

\* The prompts of the runs and those that wait to start, in order.
All == begun \o prompts

\* An image that waits was sent with none of them, any other with one.
ImagesInv ==
  /\ attachments \subseteq 1..attached
  /\ \A i \in DOMAIN All : All[i].images \subseteq 1..attached
  /\ Term!ImagesOnce

LEMMA AllTyped ==
  ASSUME NEW b \in Seq(Runs), NEW p \in Seq(Prompts)
  PROVE  /\ b \o p \in Seq(Runs \cup Prompts) /\ Len(b \o p) = Len(b) + Len(p)
         /\ DOMAIN (b \o p) = 1..(Len(b) + Len(p)) /\ Len(b) \in Nat /\ Len(p) \in Nat
         /\ \A i \in 1..Len(b) : (b \o p)[i] = b[i]
         /\ \A i \in 1..Len(p) : (b \o p)[Len(b) + i] = p[i]
  <1>1. /\ b \o p \in Seq(Runs \cup Prompts) /\ Len(b \o p) = Len(b) + Len(p)
        /\ \A i \in 1..Len(b) : (b \o p)[i] = b[i]
        /\ \A i \in 1..Len(p) : (b \o p)[Len(b) + i] = p[i]
    BY Behind
  <1>2. Len(b) \in Nat /\ Len(p) \in Nat
    OBVIOUS
  <1>3. QED  BY <1>1, <1>2

\* One sequence carries the images of another, and no more.
Carries(t, s) ==
  /\ DOMAIN s \subseteq DOMAIN t
  /\ \A i \in DOMAIN s : t[i].images = s[i].images
  /\ \A i \in DOMAIN t \ DOMAIN s : t[i].images = {}

LEMMA AllStart ==
  ASSUME NEW b \in Seq(Runs), NEW p \in Seq(Prompts),
         p # << >>, NEW run \in Runs, run.images = Head(p).images
  PROVE  Carries(Append(b, run) \o Tail(p), b \o p)
  <1> DEFINE b1 == Append(b, run)
             p1 == Tail(p)
  <1>1. /\ b1 \in Seq(Runs) /\ Len(b1) = Len(b) + 1 /\ b1[Len(b) + 1] = run
        /\ \A i \in 1..Len(b) : b1[i] = b[i]
    OBVIOUS
  <1>2. /\ p1 \in Seq(Prompts) /\ Len(p1) = Len(p) - 1 /\ Len(p) >= 1
        /\ \A i \in 1..Len(p1) : p1[i] = p[i + 1]
    OBVIOUS
  <1>3. run.images = p[1].images
    OBVIOUS
  <1> HIDE DEF b1, p1
  <1>4. /\ DOMAIN (b \o p) = 1..(Len(b) + Len(p)) /\ Len(b) \in Nat /\ Len(p) \in Nat
        /\ \A i \in 1..Len(b) : (b \o p)[i] = b[i]
        /\ \A i \in 1..Len(p) : (b \o p)[Len(b) + i] = p[i]
    BY AllTyped
  <1>5. /\ DOMAIN (b1 \o p1) = 1..(Len(b1) + Len(p1))
        /\ \A i \in 1..Len(b1) : (b1 \o p1)[i] = b1[i]
        /\ \A i \in 1..Len(p1) : (b1 \o p1)[Len(b1) + i] = p1[i]
    BY <1>1, <1>2, AllTyped
  <1>6. DOMAIN (b1 \o p1) = DOMAIN (b \o p)
    BY <1>1, <1>2, <1>4, <1>5
  <1>7. ASSUME NEW i \in 1..(Len(b) + Len(p))
        PROVE  (b1 \o p1)[i].images = (b \o p)[i].images
    <2>1. CASE i <= Len(b)
      BY <1>1, <1>4, <1>5, <2>1
    <2>2. CASE i = Len(b) + 1
      <3>1. (b1 \o p1)[i] = run
        BY <1>1, <1>4, <1>5, <2>2
      <3>2. 1 \in 1..Len(p)
        BY <1>2, <1>4
      <3>3. (b \o p)[i] = p[1]
        BY <1>4, <2>2, <3>2
      <3>4. QED  BY <1>3, <3>1, <3>3
    <2>3. CASE i > Len(b) + 1
      <3> DEFINE k == i - Len(b1)
      <3>1. k \in 1..Len(p1) /\ i = Len(b1) + k /\ k + 1 \in 1..Len(p) /\ i = Len(b) + (k + 1)
        BY <1>1, <1>2, <1>4, <2>3
      <3> HIDE DEF k
      <3>2. (b1 \o p1)[i] = p1[k] /\ (b \o p)[i] = p[k + 1]
        BY <1>4, <1>5, <3>1
      <3>3. p1[k] = p[k + 1]
        BY <1>2, <3>1
      <3>4. QED  BY <3>2, <3>3
    <2>4. Len(b) \in Nat /\ Len(p) \in Nat
      BY <1>4
    <2>5. i <= Len(b) \/ i = Len(b) + 1 \/ i > Len(b) + 1
      BY <2>4, Trichotomy
    <2>6. QED  BY <2>1, <2>2, <2>3, <2>5
  <1>8. QED  BY <1>4, <1>6, <1>7 DEF Carries, b1, p1

LEMMA AllJoin ==
  ASSUME NEW b \in Seq(Runs), NEW p \in Seq(Prompts), NEW q \in Seq(Prompts),
         \A i \in DOMAIN q : q[i].images = {}
  PROVE  Carries(b \o (p \o q), b \o p)
  <1> DEFINE p1 == p \o q
  <1>1. /\ p1 \in Seq(Prompts) /\ Len(p1) = Len(p) + Len(q)
        /\ \A i \in 1..Len(p) : p1[i] = p[i]
        /\ \A i \in 1..Len(q) : p1[Len(p) + i] = q[i]
    BY Behind
  <1>2. DOMAIN q = 1..Len(q) /\ Len(q) \in Nat
    OBVIOUS
  <1> HIDE DEF p1
  <1>3. /\ DOMAIN (b \o p) = 1..(Len(b) + Len(p)) /\ Len(b) \in Nat /\ Len(p) \in Nat
        /\ \A i \in 1..Len(b) : (b \o p)[i] = b[i]
        /\ \A i \in 1..Len(p) : (b \o p)[Len(b) + i] = p[i]
    BY AllTyped
  <1>4. /\ DOMAIN (b \o p1) = 1..(Len(b) + Len(p1))
        /\ \A i \in 1..Len(b) : (b \o p1)[i] = b[i]
        /\ \A i \in 1..Len(p1) : (b \o p1)[Len(b) + i] = p1[i]
    BY <1>1, AllTyped
  <1>5. DOMAIN (b \o p) \subseteq DOMAIN (b \o p1)
    BY <1>1, <1>2, <1>3, <1>4
  <1>6. ASSUME NEW i \in 1..(Len(b) + Len(p)) PROVE (b \o p1)[i] = (b \o p)[i]
    <2>1. CASE i <= Len(b)
      BY <1>3, <1>4, <2>1
    <2>2. CASE i > Len(b)
      <3> DEFINE k == i - Len(b)
      <3>1. k \in 1..Len(p) /\ k \in 1..Len(p1) /\ i = Len(b) + k
        BY <1>1, <1>2, <1>3, <2>2
      <3> HIDE DEF k
      <3>2. (b \o p1)[i] = p1[k] /\ (b \o p)[i] = p[k]
        BY <1>3, <1>4, <3>1
      <3>3. p1[k] = p[k]
        BY <1>1, <3>1
      <3>4. QED  BY <3>2, <3>3
    <2>3. Len(b) \in Nat /\ Len(p) \in Nat
      BY <1>3
    <2>4. i <= Len(b) \/ i > Len(b)
      BY <2>3, Trichotomy
    <2>5. QED  BY <2>1, <2>2, <2>4
  <1>7. ASSUME NEW i \in 1..(Len(b) + Len(p1)), ~(i \in 1..(Len(b) + Len(p)))
        PROVE  (b \o p1)[i].images = {}
    <2> DEFINE k == i - (Len(b) + Len(p))
    <2>1. /\ k \in 1..Len(q) /\ Len(p) + k \in 1..Len(p1)
          /\ i = Len(b) + (Len(p) + k)
      BY <1>1, <1>2, <1>3, <1>7
    <2> HIDE DEF k
    <2>2. (b \o p1)[i] = q[k]
      BY <1>1, <1>4, <2>1
    <2>3. QED  BY <1>2, <2>1, <2>2
  <1>8. QED  BY <1>3, <1>4, <1>5, <1>6, <1>7 DEF Carries, p1

LEMMA ImagesRest ==
  ASSUME ImagesInv, Carries(All', All), UNCHANGED <<attachments, attached>>
  PROVE  ImagesInv'
  <1>1. PICK s, t : s = All /\ t = All'
    OBVIOUS
  <1>2. /\ DOMAIN s \subseteq DOMAIN t
        /\ \A i \in DOMAIN s : t[i].images = s[i].images
        /\ \A i \in DOMAIN t \ DOMAIN s : t[i].images = {}
    BY <1>1 DEF Carries
  <1>3. \A shot : Term!Sent(shot, t) = Term!Sent(shot, s)
    BY <1>2 DEF Term!Sent
  <1>4. /\ attachments \subseteq 1..attached
        /\ \A i \in DOMAIN s : s[i].images \subseteq 1..attached
        /\ \A shot \in 1..attached :
             IF shot \in attachments THEN Term!Sent(shot, s) = {}
             ELSE \E i \in DOMAIN s : Term!Sent(shot, s) = {i}
    BY <1>1 DEF ImagesInv, Term!ImagesOnce, All
  <1>5. \A i \in DOMAIN t : t[i].images \subseteq 1..attached
    BY <1>2, <1>4
  <1>6. \A shot \in 1..attached :
          IF shot \in attachments THEN Term!Sent(shot, t) = {}
          ELSE \E i \in DOMAIN t : Term!Sent(shot, t) = {i}
    BY <1>2, <1>3, <1>4
  <1>7. Term!ImagesOnce'
    BY <1>1, <1>6 DEF Term!ImagesOnce, All, Term!Sent
  <1>8. QED  BY <1>1, <1>4, <1>5, <1>7 DEF ImagesInv

\* The first prompt of a turn takes the images that wait.
LEMMA ImagesTurn ==
  ASSUME TermInv, ImagesInv, Term!turn, console = "prompt"
  PROVE  ImagesInv'
  <1> DEFINE x == [text |-> typed', images |-> attachments]
  <1>1. /\ prompts' = <<x>> /\ attachments' = {} /\ UNCHANGED <<begun, attached>>
        /\ typed' = typed + 1
    BY DEF Term!turn
  <1>2. prompts = << >> /\ begun \in Seq(Runs) /\ typed' \in Nat /\ attachments \subseteq Nat
    BY <1>1 DEF TermInv, TermTypes, QueueInv
  <1>3. x \in Prompts /\ x.images = attachments
    BY <1>2 DEF Prompts
  <1> HIDE DEF x
  <1>4. PICK s, t : s = All /\ t = All'
    OBVIOUS
  <1>5. /\ DOMAIN s = 1..Len(begun) /\ Len(begun) \in Nat
        /\ \A i \in DOMAIN s : s[i] = begun[i]
    <2>1. << >> \in Seq(Prompts) /\ Len(<< >>) = 0
      OBVIOUS
    <2>2. /\ DOMAIN (begun \o << >>) = 1..(Len(begun) + Len(<< >>)) /\ Len(begun) \in Nat
          /\ \A i \in 1..Len(begun) : (begun \o << >>)[i] = begun[i]
      BY <1>2, <2>1, AllTyped
    <2>3. s = begun \o << >>
      BY <1>2, <1>4 DEF All
    <2>4. QED  BY <2>1, <2>2, <2>3
  <1>6. /\ DOMAIN t = 1..(Len(begun) + 1)
        /\ \A i \in DOMAIN s : t[i] = begun[i]
        /\ t[Len(begun) + 1] = x
    <2>1. <<x>> \in Seq(Prompts) /\ Len(<<x>>) = 1 /\ <<x>>[1] = x
      BY <1>3
    <2>2. /\ DOMAIN (begun \o <<x>>) = 1..(Len(begun) + Len(<<x>>))
          /\ \A i \in 1..Len(begun) : (begun \o <<x>>)[i] = begun[i]
          /\ \A i \in 1..Len(<<x>>) : (begun \o <<x>>)[Len(begun) + i] = <<x>>[i]
      BY <1>2, <2>1, AllTyped
    <2>3. t = begun \o <<x>>
      BY <1>1, <1>4 DEF All
    <2>4. 1 \in 1..Len(<<x>>)
      BY <2>1
    <2>5. QED  BY <1>5, <2>1, <2>2, <2>3, <2>4
  <1>7. /\ attachments \subseteq 1..attached
        /\ \A i \in DOMAIN s : s[i].images \subseteq 1..attached
        /\ \A shot \in 1..attached :
             IF shot \in attachments THEN Term!Sent(shot, s) = {}
             ELSE \E i \in DOMAIN s : Term!Sent(shot, s) = {i}
    BY <1>4 DEF ImagesInv, Term!ImagesOnce, All
  <1>8. /\ Len(begun) + 1 \in DOMAIN t
        /\ \A i \in DOMAIN t : i \in DOMAIN s \/ i = Len(begun) + 1
        /\ \A i \in DOMAIN s : i \in DOMAIN t /\ i # Len(begun) + 1
        /\ \A i \in DOMAIN s : t[i].images = s[i].images
        /\ t[Len(begun) + 1].images = attachments
    BY <1>3, <1>5, <1>6
  <1>9. \A i \in DOMAIN t : t[i].images \subseteq 1..attached
    BY <1>7, <1>8
  <1>10. \A shot : Term!Sent(shot, t) = Term!Sent(shot, s)
                     \cup (IF shot \in attachments THEN {Len(begun) + 1} ELSE {})
    BY <1>8 DEF Term!Sent
  <1>11. \A shot \in 1..attached : \E i \in DOMAIN t : Term!Sent(shot, t) = {i}
    <2>1. ASSUME NEW shot \in 1..attached, shot \in attachments
          PROVE  \E i \in DOMAIN t : Term!Sent(shot, t) = {i}
      <3>1. Term!Sent(shot, t) = {Len(begun) + 1}
        BY <1>7, <1>10, <2>1
      <3>2. QED  BY <1>8, <3>1
    <2>2. ASSUME NEW shot \in 1..attached, shot \notin attachments
          PROVE  \E i \in DOMAIN t : Term!Sent(shot, t) = {i}
      <3>1. Term!Sent(shot, t) = Term!Sent(shot, s)
        BY <1>10, <2>2
      <3>2. QED  BY <1>7, <1>8, <2>2, <3>1
    <2>3. QED  BY <2>1, <2>2
  <1>12. Term!ImagesOnce'
    <2>1. attachments' = {} /\ attached' = attached /\ begun' \o prompts' = t
      BY <1>1, <1>4 DEF All
    <2>2. \A shot \in 1..attached' : \E i \in DOMAIN t : Term!Sent(shot, t) = {i}
      BY <1>11, <2>1
    <2>3. \A shot : shot \notin attachments'
      BY <2>1
    <2>4. QED  BY <2>1, <2>2, <2>3 DEF Term!ImagesOnce, Term!Sent
  <1>13. QED  BY <1>1, <1>4, <1>9, <1>12 DEF ImagesInv

\* A new image was sent with no prompt.
LEMMA ImagesAttach ==
  ASSUME TermInv, ImagesInv, Term!_attach
  PROVE  ImagesInv'
  <1>1. /\ attached' = attached + 1 /\ attachments' = attachments \cup {attached'}
        /\ UNCHANGED <<begun, prompts>>
    BY DEF Term!_attach
  <1>2. attached \in Nat
    BY DEF TermInv, TermTypes
  <1>3. PICK s : s = All
    OBVIOUS
  <1>4. All' = s
    BY <1>1, <1>3 DEF All
  <1>5. /\ attachments \subseteq 1..attached
        /\ \A i \in DOMAIN s : s[i].images \subseteq 1..attached
        /\ \A shot \in 1..attached :
             IF shot \in attachments THEN Term!Sent(shot, s) = {}
             ELSE \E i \in DOMAIN s : Term!Sent(shot, s) = {i}
    BY <1>3 DEF ImagesInv, Term!ImagesOnce, All
  <1>6. PICK n \in Nat : n = attached'
    BY <1>1, <1>2
  <1>7. 1..n = (1..attached) \cup {n} /\ n \notin 1..attached
    BY <1>1, <1>2, <1>6
  <1>8. Term!Sent(n, s) = {}
    BY <1>5, <1>7 DEF Term!Sent
  <1>9. attachments' \subseteq 1..n /\ \A i \in DOMAIN s : s[i].images \subseteq 1..n
    BY <1>1, <1>5, <1>6, <1>7
  <1>10. \A shot \in 1..n :
           IF shot \in attachments' THEN Term!Sent(shot, s) = {}
           ELSE \E i \in DOMAIN s : Term!Sent(shot, s) = {i}
    BY <1>1, <1>5, <1>6, <1>7, <1>8
  <1>11. Term!ImagesOnce'
    BY <1>4, <1>6, <1>10 DEF Term!ImagesOnce, All, Term!Sent
  <1>12. QED  BY <1>4, <1>6, <1>9, <1>11 DEF ImagesInv

LEMMA ImagesKept ==
  ASSUME TermInv, ImagesInv, [Term!TermNext]_(Term!termVars)
  PROVE  ImagesInv'
  <1>1. /\ begun \in Seq(Runs) /\ prompts \in Seq(Prompts) /\ pending_prompts \in Seq(Nat)
        /\ session \in Nat
    BY DEF TermInv, TermTypes
  <1>2. CASE Term!StartRun
    <2> DEFINE run == [text |-> Head(prompts).text, images |-> Head(prompts).images,
                       session |-> session]
    <2>1. /\ prompts # << >> /\ prompts' = Tail(prompts) /\ begun' = Append(begun, run)
          /\ UNCHANGED <<attachments, attached>>
      BY <1>2 DEF Term!StartRun
    <2>2. Head(prompts) \in Prompts
      BY <1>1, <2>1
    <2>3. run \in Runs /\ run.images = Head(prompts).images
      BY <1>1, <2>2 DEF Prompts, Runs
    <2> HIDE DEF run
    <2>4. Carries(Append(begun, run) \o Tail(prompts), begun \o prompts)
      BY <1>1, <2>1, <2>3, AllStart
    <2>5. Carries(All', All)
      BY <2>1, <2>4 DEF All, Carries
    <2>6. QED  BY <2>1, <2>5, ImagesRest
  <1>3. CASE Term!Drain(pending_prompts) /\ UNCHANGED <<begun, attachments, attached>>
    <2> DEFINE joined == [i \in DOMAIN pending_prompts |->
                           [text |-> pending_prompts[i], images |-> {}]]
    <2>1. prompts' = prompts \o joined
      BY <1>3 DEF Term!Drain
    <2>2. /\ joined \in Seq(Prompts) /\ DOMAIN joined = DOMAIN pending_prompts
          /\ \A i \in DOMAIN joined : joined[i].images = {}
      <3>1. \A i \in DOMAIN pending_prompts :
              [text |-> pending_prompts[i], images |-> {}] \in Prompts
        BY <1>1 DEF Prompts
      <3>2. DOMAIN pending_prompts = 1..Len(pending_prompts) /\ Len(pending_prompts) \in Nat
        BY <1>1
      <3>3. QED  BY <3>1, <3>2
    <2> HIDE DEF joined
    <2>3. Carries(begun \o (prompts \o joined), begun \o prompts)
      BY <1>1, <2>2, AllJoin
    <2>4. Carries(All', All)
      BY <1>3, <2>1, <2>3 DEF All, Carries
    <2>5. QED  BY <1>3, <2>4, ImagesRest
  <1>4. CASE UNCHANGED <<prompts, begun, attachments, attached>>
    <2>1. Carries(All', All)
      BY <1>4 DEF All, Carries
    <2>2. QED  BY <1>4, <2>1, ImagesRest
  <1>5. CASE Term!_render \/ Term!_interactive_render \/ Term!shutdown_default_executor
    <2>1. UNCHANGED <<begun, attachments, attached>>
      BY <1>5 DEF Term!_render, Term!_interactive_render, Term!shutdown_default_executor,
                  Term!Settled
    <2>2. Term!Drain(pending_prompts) \/ UNCHANGED <<prompts, pending_prompts>>
      BY <1>5 DEF Term!_render, Term!_interactive_render, Term!shutdown_default_executor
    <2>3. QED  BY <1>3, <1>4, <2>1, <2>2
  <1>6. CASE Term!Line \/ Term!_plan \/ Term!_plan_approve
    <2>1. Term!turn /\ console = "prompt"
      BY <1>6 DEF Term!Line, Term!_plan, Term!_plan_approve, Term!Command
    <2>2. QED  BY <2>1, ImagesTurn
  <1>7. CASE \/ Term!_accept_live_input \/ Term!EndTurn \/ Term!update_plan
             \/ Term!WorkerDone \/ Term!Interrupt \/ Term!_plan_cancel \/ Term!_plan_clear
             \/ Term!_permissions \/ Term!_switch_session \/ Term!Exit
             \/ UNCHANGED Term!termVars
    <2>1. UNCHANGED <<prompts, begun, attachments, attached>>
      BY <1>7 DEF Term!_accept_live_input, Term!EndTurn, Term!update_plan, Term!WorkerDone,
         Term!Interrupt, Term!_plan_cancel, Term!_plan_clear, Term!_permissions,
         Term!_switch_session, Term!Exit, Term!termVars, Term!Stay, Term!Inputs
    <2>2. QED  BY <1>4, <2>1
  <1>8. QED
    BY <1>2, <1>5, <1>6, <1>7, ImagesAttach DEF Term!TermNext

LEMMA NothingTyped == Term!TermInit({TRUE, FALSE}) => LinesInv /\ ImagesInv
  <1> SUFFICES ASSUME Term!TermInit({TRUE, FALSE}) PROVE LinesInv /\ ImagesInv
    OBVIOUS
  <1>1. /\ begun = << >> /\ prompts = << >> /\ pending_prompts = << >> /\ queued = << >>
        /\ attachments = {} /\ attached = 0
    BY DEF Term!TermInit
  <1>2. Term!TextsOf(<< >>) = << >>
    BY DEF Term!TextsOf
  <1>3. Term!Lines = << >>
    BY <1>1, <1>2 DEF Term!Lines
  <1>4. << >> \in Seq(Nat) /\ DOMAIN << >> = {}
    OBVIOUS
  <1>5. LinesInv
    BY <1>1, <1>3, <1>4 DEF LinesInv, Increasing
  <1>6. All = << >>
    BY <1>1 DEF All
  <1>7. 1..0 = {}
    OBVIOUS
  <1>8. ImagesInv
    BY <1>1, <1>4, <1>6, <1>7 DEF ImagesInv, Term!ImagesOnce
  <1>9. QED  BY <1>5, <1>8

(* InteractiveApp: a follow-up that was announced is started once and in    *)
(* order, or still waits, and an image goes with one prompt, whatever was   *)
(* interrupted, for any numbers of lines and images.                        *)
THEOREM FollowUpsAreKept ==
  ASSUME "none" \notin Modes
  PROVE  Term!TermSpec => [](Term!FollowUpsKept /\ Term!ImagesOnce)
  <1> DEFINE Inv == TermInv /\ LinesInv /\ ImagesInv
  <1>1. TermInv /\ [Term!TermNext]_(Term!termVars) => TermInv'
    BY TermKept
  <1>2. Inv /\ [Term!TermNext]_(Term!termVars) => Inv'
    BY <1>1, LinesKept, ImagesKept
  <1>3. Inv => Term!FollowUpsKept /\ Term!ImagesOnce
    BY LinesOrdered DEF ImagesInv
  <1>4. Term!TermInit({TRUE, FALSE}) => Inv
    BY TermStarts, NothingTyped
  <1>5. QED  BY <1>2, <1>3, <1>4, PTL DEF Term!TermSpec

-----------------------------------------------------------------------------
(* The workbench. *)

LEMMA PartsBegin ==
  Init => /\ Mcp!McpInit /\ Lsp!LspInit /\ Jobs!JobInit /\ Py!PyInit
          /\ Term!TermInit({TRUE, FALSE}) /\ Exec!ExecInit
  BY DEF Init

\* A step of the workbench is one of a part, or leaves the part as it is.
LEMMA PartsMove ==
  ASSUME [Next]_vars
  PROVE  /\ [Mcp!McpNext]_(Mcp!mcpVars) /\ [Lsp!LspNext]_(Lsp!lspVars)
         /\ [Jobs!JobNext]_(Jobs!jobVars) /\ [Py!PyNext]_(Py!pyVars)
         /\ [Term!TermNext]_(Term!termVars) /\ [Exec!ExecNext]_(Exec!execVars)
  <1>1. [Mcp!McpNext]_(Mcp!mcpVars)
    BY DEF Next, vars, Mcps, Languages, Shell, Delegates, KeepsGoal, Indexes, Types,
           RunsPython, UsesGit, Renames, Executes, LogsIn,
           RecordsLines, RestBut, mcpVars, Mcp!mcpVars
  <1>2. [Lsp!LspNext]_(Lsp!lspVars)
    BY DEF Next, vars, Mcps, Languages, Shell, Delegates, KeepsGoal, Indexes, Types,
           RunsPython, UsesGit, Renames, Executes, LogsIn,
           RecordsLines, RestBut, lspVars, Lsp!lspVars
  <1>3. [Jobs!JobNext]_(Jobs!jobVars)
    BY DEF Next, vars, Mcps, Languages, Shell, Delegates, KeepsGoal, Indexes, Types,
           RunsPython, UsesGit, Renames, Executes, LogsIn,
           RecordsLines, RestBut, jobVars, Jobs!jobVars
  <1>4. [Py!PyNext]_(Py!pyVars)
    BY DEF Next, vars, Mcps, Languages, Shell, Delegates, KeepsGoal, Indexes, Types,
           RunsPython, UsesGit, Renames, Executes, LogsIn,
           RecordsLines, RestBut, pyVars, Py!pyVars
  <1>5. [Term!TermNext]_(Term!termVars)
    BY DEF Next, vars, Mcps, Languages, Shell, Delegates, KeepsGoal, Indexes, Types,
           RunsPython, UsesGit, Renames, Executes, LogsIn,
           RecordsLines, RestBut, termVars, Term!termVars
  <1>6. [Exec!ExecNext]_(Exec!execVars)
    BY DEF Next, vars, Mcps, Languages, Shell, Delegates, KeepsGoal, Indexes, Types,
           RunsPython, UsesGit, Renames, Executes, LogsIn,
           RecordsLines, RestBut, execVars, Exec!execVars
  <1>7. QED  BY <1>1, <1>2, <1>3, <1>4, <1>5, <1>6

(* MCPClient.request and _Client.request: beside whatever else a session    *)
(* does, a request returns what bears its number; of a tool server that is  *)
(* the answer or a request that the server numbered like it.                *)
THEOREM AnswersAreMatched == Spec => []AnswersMatched
  <1>1. Init => Mcp!McpInit /\ Lsp!LspInit
    BY PartsBegin
  <1>2. [Next]_vars => [Mcp!McpNext]_(Mcp!mcpVars) /\ [Lsp!LspNext]_(Lsp!lspVars)
    BY PartsMove
  <1>3. Mcp!McpSpec => []Mcp!AnswerIsMine
    BY ToolAnswersAreMine
  <1>4. QED
    BY <1>1, <1>2, <1>3, LspAnswersAreMine, PTL
    DEF Spec, AnswersMatched, Mcp!McpSpec, Lsp!LspSpec

(* Jobs told to stop and snippets that fell back are accounted for, with    *)
(* any number of jobs and threads, and so is what a command opened, but for *)
(* the session where it was refused or an exception went through it.        *)
THEOREM ProcessesAreAccounted ==
  ASSUME MaxJobs \in Nat
  PROVE  Spec => []ProcessesAccounted
  <1>1. Init => Jobs!JobInit /\ Py!PyInit /\ Exec!ExecInit
    BY PartsBegin
  <1>2. [Next]_vars => /\ [Jobs!JobNext]_(Jobs!jobVars) /\ [Py!PyNext]_(Py!pyVars)
                       /\ [Exec!ExecNext]_(Exec!execVars)
    BY PartsMove
  <1>3. Jobs!JobInit /\ [][Jobs!JobNext]_(Jobs!jobVars) => []Jobs!StopReaches
    BY StopsReachProcesses
  <1>4. Jobs!JobInit /\ [][Jobs!JobNext]_(Jobs!jobVars) => []Jobs!LiveListed
    BY LiveJobsAreListed
  <1>5. QED
    BY <1>1, <1>2, <1>3, <1>4, FallbacksAreVisible, LastAnswerIsFinal, PTL
    DEF Spec, ProcessesAccounted, Py!PySpec, Exec!ExecSpec

(* Beside whatever else a session does, the terminal keeps the follow-ups   *)
(* it announced, images, runs and plans, the last two unless a run was left *)
(* behind, and the headless command prints its last answer.                 *)
THEOREM TerminalIsSound ==
  ASSUME "none" \notin Modes
  PROVE  Spec => []TerminalSound
  <1>1. Init => Term!TermInit({TRUE, FALSE}) /\ Exec!ExecInit
    BY PartsBegin
  <1>2. [Next]_vars => [Term!TermNext]_(Term!termVars) /\ [Exec!ExecNext]_(Exec!execVars)
    BY PartsMove
  <1>3. Term!TermSpec => [](Term!OneRun /\ Term!PlanHeld)
    BY TerminalKeepsOrder
  <1>4. Term!TermSpec => [](Term!FollowUpsKept /\ Term!ImagesOnce)
    BY FollowUpsAreKept
  <1>5. QED
    BY <1>1, <1>2, <1>3, <1>4, LastAnswerIsFinal, PTL
    DEF Spec, TerminalSound, Term!TermSpec, Exec!ExecSpec
=============================================================================
