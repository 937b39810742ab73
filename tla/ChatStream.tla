------------------------------ MODULE ChatStream ------------------------------
(***************************************************************************)
(* What is put together from a provider's event stream (mjj/model.py): the *)
(* documents of its records (_decode_sse_documents) and the arguments of a *)
(* tool call from their fragments (_append_tool_argument).                 *)
(***************************************************************************)
EXTENDS Integers, Sequences, FiniteSets, SequencesExt

CONSTANTS
  Document,      \* the arguments a provider sends, in pieces
  MaxFragments,  \* bound: fragments of one call
  Records,       \* the numbers of data lines of a record
  MaxRecords     \* bound: records of a stream

VARIABLES
  parts,      \* the argument fragments kept for one call
  sent,       \* how much of Document the provider has sent
  replayed,   \* the provider sent the whole document again
  sse,        \* the lines of an event stream, as received
  decoded     \* the documents made of them

streamVars == <<parts, sent, replayed, sse, decoded>>

StreamInit == /\ parts = << >> /\ sent = 0 /\ replayed = FALSE
              /\ sse = << >> /\ decoded = << >>

(* _append_tool_argument: a fragment that repeats arguments already whole    *)
(* is dropped.                                                              *)
_is_json_document(text) == text = Document
_append_tool_argument(list, fragment) ==
  LET current == FlattenSeq(list)
  IN IF _is_json_document(current) /\ IsPrefix(current, fragment) THEN list
     ELSE Append(list, fragment)

(* The provider sends the arguments in order, and may repeat them whole.    *)
Fragment ==
  /\ sent < Len(Document) /\ Len(parts) < MaxFragments
  /\ \E to \in (sent + 1)..Len(Document) :
       /\ parts' = _append_tool_argument(parts, SubSeq(Document, sent + 1, to))
       /\ sent' = to
  /\ UNCHANGED replayed
  /\ UNCHANGED <<sse, decoded>>
Replay ==
  /\ sent = Len(Document) /\ ~replayed
  /\ parts' = _append_tool_argument(parts, Document)
  /\ replayed' = TRUE
  /\ UNCHANGED sent
  /\ UNCHANGED <<sse, decoded>>

(* _decode_sse_documents: data lines up to a blank line, or to the end of    *)
(* the stream, are one payload; one that is not a document is dropped.      *)
Blank == [record |-> 0, line |-> 0, of |-> 0]
Lines(n, size) == [k \in 1..size |-> [record |-> n, line |-> k, of |-> size]]
_document_from_data(lines) ==
  IF lines # << >> /\ lines = Lines(lines[1].record, lines[1].of)
  THEN <<lines[1].record>> ELSE << >>

_decode_sse_documents(stream) ==
  LET Step(state, line) ==
        IF line # Blank THEN [state EXCEPT !.data = Append(@, line)]
        ELSE [data |-> << >>, out |-> state.out \o _document_from_data(state.data)]
      end == FoldLeft(Step, [data |-> << >>, out |-> << >>], stream)
  IN end.out \o _document_from_data(end.data)

(* A stream of whole records, or the part of it received when it breaks.    *)
Whole(sizes) ==
  FlattenSeq([n \in DOMAIN sizes |-> Append(Lines(n, sizes[n]), Blank)])
Receive ==
  /\ sse = << >>
  /\ \E count \in 1..MaxRecords : \E sizes \in [1..count -> Records] :
       \E cut \in 1..Len(Whole(sizes)) :
         /\ sse' = SubSeq(Whole(sizes), 1, cut)
         /\ decoded' = _decode_sse_documents(sse')
  /\ UNCHANGED <<parts, sent, replayed>>

StreamNext == Fragment \/ Replay \/ Receive
StreamSpec == StreamInit /\ [][StreamNext]_streamVars

-----------------------------------------------------------------------------
(* The arguments kept are what was sent of the document, once, though the    *)
(* provider repeats it (_append_tool_argument).                             *)
ArgumentsOnce == FlattenSeq(parts) = SubSeq(Document, 1, sent)

(* A broken stream yields whole records only, in order, and all those that   *)
(* were received whole (_decode_sse_documents).                             *)
RecordsWhole ==
  LET whole == {n \in 1..MaxRecords : \E i \in DOMAIN sse :
                  sse[i].record = n /\ sse[i].line = sse[i].of}
  IN decoded = [k \in 1..Cardinality(whole) |-> k]
=============================================================================
