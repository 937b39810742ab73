------------------------------ MODULE LspClient ------------------------------
(***************************************************************************)
(* A session with a language server (mjj/lsp.py: _Client and the functions *)
(* that open one, ask, and close it).  A thread reads the server's         *)
(* messages into a queue: answers, requests and notifications in any order *)
(* and late, and an end mark.  request keeps what is published on the way, *)
(* answers what the server asks, and takes the answer to its own number;   *)
(* the server numbers its requests as it likes.                            *)
(***************************************************************************)
EXTENDS Integers, Sequences, SequencesExt

CONSTANTS
  Asks,          \* numbers the server gives its own requests
  Lists,         \* diagnostics the server may name; one of them is empty
  Empty,
  MaxAsides      \* bound: requests and notifications of the server

VARIABLES
  purpose,       \* what the session is for
  lsp,           \* where it stands
  sequence,      \* the last number used
  owed,          \* numbers of the requests the server may still answer
  inbox,         \* messages: kind, number, diagnostics
  diagnostics,   \* self.diagnostics of the file: a list or "unknown"
  server,        \* off, running, exited, stopped
  answer,        \* what the last request took, and the number it had
  report,        \* what collect_diagnostics returned
  asides         \* bound

lspVars == <<purpose, lsp, sequence, owed, inbox, diagnostics, server, answer,
             report, asides>>

Purposes == {"query", "hierarchy", "diagnostics"}
Message(kind, id, list) == [kind |-> kind, id |-> id, list |-> list]
Unasked == [asked |-> 0, got |-> Message("none", 0, Empty)]

LspInit ==
  /\ purpose = "none" /\ lsp = "off" /\ sequence = 0 /\ owed = {} /\ inbox = << >>
  /\ diagnostics = "unknown" /\ server = "off" /\ answer = Unasked
  /\ report = "none" /\ asides = 0

Requesting == {"initialize", "first", "second", "pull"}
Asked == <<purpose, report, asides>>

(* request up to the queue: it fails when the pipe is closed. *)
request(method, else) ==
  /\ sequence' = sequence + 1
  /\ \/ server = "running" /\ lsp' = method /\ owed' = owed \cup {sequence'}
     \/ server # "running" /\ lsp' = else /\ UNCHANGED owed

start ==
  /\ lsp = "off" /\ purpose' \in Purposes
  /\ \/ lsp' = "closed" /\ UNCHANGED <<sequence, owed, server>>
     \/ /\ lsp' = "initialize" /\ sequence' = 1 /\ owed' = {1} /\ server' = "running"
  /\ UNCHANGED <<inbox, diagnostics, answer, report, asides>>

(* open, and the first request of the session's purpose.  A pull that       *)
(* cannot be sent is waited for, a document that cannot be opened is not.   *)
open ==
  /\ lsp = "opening"
  /\ IF purpose = "diagnostics"
     THEN \E else \in {"closing", "collecting"} : request("pull", else)
     ELSE request("first", "closing")
  /\ UNCHANGED <<inbox, diagnostics, server, answer, Asked>>

(* A request that fails ends the session, except that diagnostics that      *)
(* cannot be pulled are waited for.                                         *)
Failed == IF lsp = "pull" THEN "collecting" ELSE "closing"

(* What follows the answer to a request.  try_pull_diagnostics keeps an     *)
(* empty answer only when nothing was published.                            *)
Answered(message) ==
  /\ answer' = [asked |-> sequence, got |-> message]
  /\ CASE lsp = "initialize" ->
            lsp' = "opening" /\ UNCHANGED <<sequence, owed, diagnostics>>
       [] lsp = "first" /\ purpose = "hierarchy" ->
            /\ \/ request("second", "closing")
               \/ lsp' = "closing" /\ UNCHANGED <<sequence, owed>>
            /\ UNCHANGED diagnostics
       [] lsp = "pull" ->
            /\ lsp' = "collecting" /\ UNCHANGED <<sequence, owed>>
            /\ IF message.list # Empty \/ diagnostics = "unknown"
               THEN diagnostics' = message.list
               ELSE UNCHANGED diagnostics
       [] OTHER -> lsp' = "closing" /\ UNCHANGED <<sequence, owed, diagnostics>>

(* One message of the queue.  Notifications and the server's requests are   *)
(* told by their method before a number is compared.                        *)
Next_message ==
  /\ lsp \in Requesting /\ inbox # << >> /\ inbox' = Tail(inbox)
  /\ LET message == Head(inbox)
         Stay == UNCHANGED <<lsp, sequence, owed, diagnostics, answer>>
         Raise == lsp' = Failed /\ UNCHANGED <<sequence, owed, diagnostics, answer>>
     IN CASE message.kind = "end" -> Raise
          [] message.kind = "publish" ->
               /\ diagnostics' = message.list
               /\ UNCHANGED <<lsp, sequence, owed, answer>>
          [] message.kind = "ask" -> IF server = "running" THEN Stay ELSE Raise
          [] message.kind \in {"answer", "error"} /\ message.id # sequence -> Stay
          [] message.kind = "error" -> Raise
          [] OTHER -> Answered(message)
  /\ UNCHANGED <<server, Asked>>

(* The deadline passes, with or without messages in the queue. *)
Timeout ==
  /\ lsp \in Requesting /\ lsp' = Failed
  /\ UNCHANGED <<sequence, owed, inbox, diagnostics, server, answer, Asked>>

(* collect_diagnostics after the pull: what is known and not empty is       *)
(* reported; wait_diagnostics reports what is known at all, or goes on with *)
(* the queue until its deadline or the end mark, and then reports it.       *)
Known == IF diagnostics = "unknown" THEN Empty ELSE diagnostics

wait_diagnostics ==
  /\ lsp = "collecting"
  /\ \/ /\ report' = Known /\ lsp' = "closing" /\ UNCHANGED <<inbox, diagnostics>>
     \/ /\ diagnostics = "unknown" /\ inbox # << >> /\ inbox' = Tail(inbox)
        /\ LET message == Head(inbox)
           IN CASE message.kind = "end" -> FALSE
                [] message.kind = "publish" ->
                     /\ diagnostics' = message.list
                     /\ UNCHANGED <<lsp, report>>
                [] message.kind = "ask" /\ server # "running" ->
                     lsp' = "closing" /\ UNCHANGED <<report, diagnostics>>
                [] OTHER -> UNCHANGED <<lsp, report, diagnostics>>
  /\ UNCHANGED <<purpose, sequence, owed, server, answer, asides>>

(* close: exit is sent, then the server is terminated, then killed. *)
close ==
  /\ lsp = "closing" /\ lsp' = "closed"
  /\ server' = "stopped" /\ owed' = {}
  /\ UNCHANGED <<sequence, inbox, diagnostics, answer, Asked>>

(* The server, and _read_messages: a message it cannot read, or one too     *)
(* long, ends the reading.                                                  *)
Put(message) == inbox' = Append(inbox, message)

_read_messages ==
  /\ server = "running"
  /\ \/ \E id \in owed, list \in Lists, kind \in {"answer", "error"} :
          /\ Put(Message(kind, id, list)) /\ owed' = owed \ {id}
          /\ UNCHANGED <<server, asides>>
     \/ /\ asides < MaxAsides /\ asides' = asides + 1 /\ UNCHANGED <<server, owed>>
        /\ \/ \E list \in Lists : Put(Message("publish", 0, list))
           \/ \E id \in Asks : Put(Message("ask", id, Empty))
     \/ Put(Message("end", 0, Empty)) /\ server' = "exited" /\ owed' = {} /\ UNCHANGED asides
  /\ UNCHANGED <<purpose, lsp, sequence, diagnostics, answer, report>>

LspNext ==
  \/ start \/ open \/ Next_message \/ Timeout \/ wait_diagnostics \/ close
  \/ _read_messages

LspSpec == LspInit /\ [][LspNext]_lspVars

(* A request returns the server's answer to it, whatever else arrives, late *)
(* answers and requests under the same number included.                     *)
LspAnswerIsMine ==
  answer.got.kind # "none" =>
    answer.got.kind = "answer" /\ answer.got.id = answer.asked
=============================================================================
