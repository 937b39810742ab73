------------------------------ MODULE ChatMessages ------------------------------
(***************************************************************************)
(* The window of a session as the messages of a Chat Completions provider  *)
(* (mjj/model.py, _chat_messages), for the windows the turn loop makes.    *)
(***************************************************************************)
EXTENDS Integers, Sequences

CONSTANT MaxItems  \* bound: items of a window

VARIABLES
  items,      \* the window: [type, call_id]
  batch,      \* calls of the last response without an output yet
  streaming   \* whether that response is still streamed

chatVars == <<items, batch, streaming>>

Item(type, id) == [type |-> type, call_id |-> id]

ChatInit == items = <<Item("message", 0)>> /\ batch = << >> /\ streaming = FALSE

(* _chat_messages: consecutive calls make one assistant message; outputs     *)
(* are tool messages; what is neither a message nor a call is left out.     *)
Calls(list, from) ==
  LET others == {i \in from..Len(list) : list[i].type # "function_call"}
      to == IF others = {} THEN Len(list)
            ELSE (CHOOSE i \in others : \A j \in others : i <= j) - 1
  IN SubSeq(list, from, to)

Ids(calls) == [k \in DOMAIN calls |-> calls[k].call_id]

Message(item) ==
  CASE item.type = "function_call_output" -> <<[role |-> "tool", ids |-> <<item.call_id>>]>>
    [] item.type = "message" -> <<[role |-> "other", ids |-> << >>]>>
    [] OTHER -> << >>

Messages(list, skipped) ==
  LET From[i \in 1..(Len(list) + 1 + skipped)] ==
        IF i > Len(list) THEN << >>
        ELSE IF list[i].type = "function_call"
        THEN LET calls == Calls(list, i)
             IN <<[role |-> "assistant", ids |-> Ids(calls)]>>
                \o From[i + Len(calls) + skipped]
        ELSE Message(list[i]) \o From[i + 1]
  IN From[1]

(* Mutant: the item after a batch of calls is stepped over. *)
SkipAfterBatch(list) == Messages(list, 1)

_chat_messages(list) == Messages(list, 0)

(* The window grows as the turn loop makes it grow: a response's items, then *)
(* one output per call, each of which an image may follow.                  *)
Room == Len(items) < MaxItems

StreamItem ==
  /\ Room /\ (streaming \/ batch = << >>)
  /\ \E type \in {"message", "reasoning", "function_call"} :
       /\ items' = Append(items, Item(type, Len(items)))
       /\ batch' = IF type = "function_call" THEN Append(batch, Len(items)) ELSE batch
  /\ streaming' = TRUE

EndStream == streaming /\ streaming' = FALSE /\ UNCHANGED <<items, batch>>

Output ==
  /\ Room /\ ~streaming /\ batch # << >>
  /\ batch' = Tail(batch)
  /\ LET result == Append(items, Item("function_call_output", Head(batch)))
     IN \/ items' = result
        \/ items' = Append(result, Item("message", 0))
  /\ UNCHANGED streaming

ChatNext == StreamItem \/ EndStream \/ Output
ChatSpec == ChatInit /\ [][ChatNext]_chatVars

-----------------------------------------------------------------------------
(* Nothing stands between a call of a response and the output of another.   *)
Adjacent ==
  \A i \in 2..Len(items) :
    \/ items[i - 1].type = "function_call" \/ items[i].type = "function_call_output"
    => {items[i - 1].type, items[i].type} \subseteq {"function_call", "function_call_output"}

(* A request is sent with every call answered.  As chat messages, the calls  *)
(* of an assistant message are answered by the tool messages right after     *)
(* it, in their order, and no other tool message exists; as long as a        *)
(* response ends with its calls and no image comes between two results       *)
(* (_chat_messages).                                                        *)
ChatPaired ==
  ~streaming /\ batch = << >> /\ Adjacent =>
    LET chat == _chat_messages(items)
        asks == {i \in DOMAIN chat : chat[i].role = "assistant"}
        Answers(i) == [k \in DOMAIN chat[i].ids |->
                         [role |-> "tool", ids |-> <<chat[i].ids[k]>>]]
    IN /\ \A i \in asks :
            /\ i + Len(chat[i].ids) <= Len(chat)
            /\ SubSeq(chat, i + 1, i + Len(chat[i].ids)) = Answers(i)
       /\ \A t \in DOMAIN chat : chat[t].role = "tool" =>
            \E i \in asks : i < t /\ t <= i + Len(chat[i].ids)
=============================================================================
