------------------------------ MODULE McpClient ------------------------------
(***************************************************************************)
(* The client of one tool server on stdio (mjj/mcp.py: MCPClient, MCPTool  *)
(* and the start of a server in discover_mcp_tools).  Requests are sent    *)
(* one at a time and numbered; a thread reads the server's messages into a *)
(* queue, where a request waits for the one with its number until its      *)
(* deadline.  The server answers in any order, late or never, sends        *)
(* requests of its own numbered as it likes, and may exit.                 *)
(***************************************************************************)
EXTENDS Integers, Sequences, SequencesExt

CONSTANTS
  ServerIds,     \* the numbers the server gives its own requests
  MaxPages,      \* pages of the inventory read after the first (16)
  MaxCalls,      \* bound: calls of a tool
  MaxChatter     \* bound: requests and unreadable messages of the server

VARIABLES
  mcp,           \* where the client stands
  _next_id,
  awaited,       \* the number of the request that waits, 0 for none
  pages,         \* pages of the inventory read so far
  open,          \* self.process is set
  alive,         \* the server runs
  unanswered,    \* numbers of the requests the server may still answer
  _messages,     \* the queue: kind and number of a message
  returned,      \* the last result: the number asked for, the message taken
  calls, chatter \* bounds

mcpVars == <<mcp, _next_id, awaited, pages, open, alive, unanswered, _messages,
             returned, calls, chatter>>

Waiting == {"initialize", "list", "call"}
None == [kind |-> "none", id |-> 0]

McpInit ==
  /\ mcp = "off" /\ _next_id = 1 /\ awaited = 0 /\ pages = 0
  /\ open = FALSE /\ alive = FALSE /\ unanswered = {} /\ _messages = << >>
  /\ returned = [asked |-> 0, got |-> None] /\ calls = 0 /\ chatter = 0

(* _send refuses a process that is gone; the number is used up all the same.*)
request(method) ==
  /\ _next_id' = _next_id + 1
  /\ IF open /\ alive
     THEN /\ mcp' = method /\ awaited' = _next_id
          /\ unanswered' = unanswered \cup {_next_id}
     ELSE /\ mcp' = IF method = "call" THEN "ready" ELSE "broken"
          /\ awaited' = 0 /\ UNCHANGED unanswered

(* close: stdin is closed and the server terminated, then killed. *)
close == open' = FALSE /\ alive' = FALSE /\ unanswered' = {}

start ==
  /\ mcp = "off"
  /\ \/ /\ mcp' = "failed" /\ UNCHANGED <<_next_id, awaited, open, alive, unanswered>>
     \/ /\ open' = TRUE /\ alive' = TRUE /\ mcp' = "initialize"
        /\ awaited' = _next_id /\ _next_id' = _next_id + 1 /\ unanswered' = {_next_id}
  /\ UNCHANGED <<pages, _messages, returned, calls, chatter>>

call_tool ==
  /\ mcp = "ready" /\ calls < MaxCalls /\ calls' = calls + 1 /\ request("call")
  /\ UNCHANGED <<pages, open, alive, _messages, returned, chatter>>

(* What follows a request that failed: a call is an error result of the     *)
(* tool, a start closes the server.                                         *)
Raise ==
  /\ mcp' = (IF mcp = "call" THEN "ready" ELSE "broken") /\ awaited' = 0
  /\ UNCHANGED <<_next_id, pages, open, alive, unanswered, returned, calls>>

Abandon ==
  /\ mcp = "broken" /\ mcp' = "failed" /\ close
  /\ UNCHANGED <<_next_id, awaited, pages, _messages, returned, calls, chatter>>

(* A result: the start goes on to the inventory, a page of it may name the  *)
(* next one or not be an inventory at all, a call is done.                  *)
Accept(message) ==
  /\ returned' = [asked |-> awaited, got |-> message]
  /\ CASE mcp = "initialize" -> request("list") /\ UNCHANGED pages
       [] mcp = "list" ->
            \/ pages < MaxPages /\ pages' = pages + 1 /\ request("list")
            \/ /\ mcp' \in {"ready", "broken"} /\ awaited' = 0
               /\ UNCHANGED <<_next_id, unanswered, pages>>
       [] OTHER -> mcp' = "ready" /\ awaited' = 0 /\ UNCHANGED <<_next_id, unanswered, pages>>
  /\ UNCHANGED <<open, alive, calls>>

(* Mutant: any result is taken for the one waited for. *)
ReceiveAny ==
  /\ mcp \in Waiting /\ _messages # << >> /\ _messages' = Tail(_messages)
  /\ LET message == Head(_messages)
     IN IF message.kind = "answer" THEN Accept(message) ELSE Raise
  /\ UNCHANGED chatter

(* The loop of request takes the next message.  The number is compared      *)
(* first; only a message with another number is told from a request of the  *)
(* server, which is refused.  An answer may be an error.                    *)
Receive ==
  /\ mcp \in Waiting /\ _messages # << >> /\ _messages' = Tail(_messages)
  /\ LET message == Head(_messages)
     IN CASE message.kind = "broken" -> Raise
          [] message.id = awaited ->
               Accept(message) \/ (message.kind = "answer" /\ Raise)
          [] message.kind = "ask" /\ ~alive -> Raise
          [] OTHER -> UNCHANGED <<mcp, _next_id, awaited, pages, open, alive,
                                  unanswered, returned, calls>>
  /\ UNCHANGED chatter

(* The deadline passes, with or without messages in the queue. *)
Timeout ==
  /\ mcp \in Waiting /\ Raise /\ UNCHANGED <<_messages, chatter>>

Close ==
  /\ mcp = "ready" /\ mcp' = "closed" /\ close
  /\ UNCHANGED <<_next_id, awaited, pages, _messages, returned, calls, chatter>>

(* The server, and the thread that reads it. *)
Put(kind, id) == _messages' = Append(_messages, [kind |-> kind, id |-> id])

_read_stdout ==
  /\ alive
  /\ \/ \E id \in unanswered :
          /\ unanswered' = unanswered \ {id} /\ Put("answer", id)
          /\ UNCHANGED <<alive, chatter>>
     \/ /\ chatter < MaxChatter /\ chatter' = chatter + 1
        /\ \/ Put("broken", 0) \/ \E id \in ServerIds : Put("ask", id)
        /\ UNCHANGED <<alive, unanswered>>
     \/ /\ alive' = FALSE /\ unanswered' = {} /\ Put("broken", 0) /\ UNCHANGED chatter
  /\ UNCHANGED <<mcp, _next_id, awaited, pages, open, returned, calls>>

McpNext ==
  \/ start \/ call_tool \/ Receive \/ Timeout \/ Abandon \/ Close \/ _read_stdout

McpSpec == McpInit /\ [][McpNext]_mcpVars

(* What a request returns bears its number, so it is no late answer to an   *)
(* earlier request that timed out; and it is an answer, unless the server   *)
(* numbered a request of its own like the one waited for: request compares  *)
(* the number before the kind, and returns such a message as the result.    *)
AnswerIsMine ==
  returned.got.kind # "none" =>
    /\ returned.got.id = returned.asked
    /\ returned.got.kind = "answer"
         \/ (returned.got.kind = "ask" /\ returned.asked \in ServerIds)
=============================================================================
