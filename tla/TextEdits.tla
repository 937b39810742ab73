------------------------------ MODULE TextEdits ------------------------------
(***************************************************************************)
(* Text positions between mjj and a language server (tools/navigate.py:    *)
(* _apply_text_edits, _lsp_offset, _lsp_position, _display_column).  The   *)
(* server counts lines by line feeds and columns in UTF-16 units, Python   *)
(* counts code points and splits lines at form feeds as well.              *)
(***************************************************************************)
EXTENDS Integers, Sequences, FiniteSets, SequencesExt

CONSTANTS
  Letters,       \* characters: a line feed "n", a form feed "f", others
  WIDE,          \* those of two UTF-16 units
  MaxText,       \* bound: length of a source
  MaxTextEdits   \* bound: edits of one file in an answer

VARIABLES source, text_edits, updated

textVars == <<source, text_edits, updated>>

Offsets(s) == 0..Len(s)
Units(s, from, to) ==
  (to - from) + Cardinality({i \in (from + 1)..to : s[i] \in WIDE})

(* The position a reader with these line breaks gives an offset. *)
LineOf(s, breaks, o) == Cardinality({i \in 1..o : s[i] \in breaks})
LineStart(s, breaks, l) ==
  CHOOSE o \in Offsets(s) :
    /\ LineOf(s, breaks, o) = l
    /\ \A p \in 0..(o - 1) : LineOf(s, breaks, p) < l
Position(s, breaks, o) ==
  LET l == LineOf(s, breaks, o)
  IN [line |-> l, character |-> Units(s, LineStart(s, breaks, l), o)]

ServerBreaks == {"n"}
splitlines == {"n", "f"}

(* _lsp_offset: a line's text includes its break; the line after the last   *)
(* has its start only.  NotThere is the ValueError.                         *)
NotThere == 0 - 1
Last_line(s) == LineOf(s, splitlines, Len(s))
Line_end(s, l) ==
  CHOOSE o \in Offsets(s) :
    \/ o = Len(s) /\ LineOf(s, splitlines, o) = l
    \/ o > 0 /\ s[o] \in splitlines /\ LineOf(s, splitlines, o) = l + 1
len_lines(s) ==
  Last_line(s) + (IF s # << >> /\ s[Len(s)] \notin splitlines THEN 1 ELSE 0)

_lsp_offset(s, p) ==
  IF p.line = len_lines(s) /\ p.character = 0 THEN Len(s)
  ELSE IF p.line >= len_lines(s) THEN NotThere
  ELSE LET from == LineStart(s, splitlines, p.line)
           there == {o \in from..Line_end(s, p.line) : Units(s, from, o) = p.character}
       IN IF there = {} THEN NotThere ELSE CHOOSE o \in there : TRUE

(* _lsp_position and _display_column, between a code-point column and the   *)
(* server's; a line's own text has no break.                                *)
_lsp_position(s, l, column) ==
  [line |-> l, character |-> Units(s, LineStart(s, splitlines, l),
                                      LineStart(s, splitlines, l) + column)]
_display_column(s, p) ==
  LET from == LineStart(s, splitlines, p.line)
      at == {o \in Offsets(s) : o >= from /\ LineOf(s, splitlines, o) = p.line
                                /\ Units(s, from, o) = p.character}
  IN IF at = {} THEN p.character + 1 ELSE (CHOOSE o \in at : TRUE) - from + 1

(* _apply_text_edits: ranges resolved, sorted by start and end keeping the  *)
(* order of equals, refused when one starts before the end of the one       *)
(* before it, and replaced from the last to the first.                      *)
Rejected == <<"rejected">>
Before(r, i, j) ==
  \/ r[i].start < r[j].start
  \/ r[i].start = r[j].start /\ (r[i].end < r[j].end \/ (r[i].end = r[j].end /\ i < j))
Sorted(r) ==
  LET Rank(i) == Cardinality({j \in DOMAIN r : Before(r, j, i)}) + 1
  IN [k \in DOMAIN r |-> r[CHOOSE i \in DOMAIN r : Rank(i) = k]]

ReplaceOne(s, e) == SubSeq(s, 1, e.start) \o <<e.new>> \o SubSeq(s, e.end + 1, Len(s))

_apply_text_edits(s, list) ==
  LET resolved == [i \in DOMAIN list |->
                     [start |-> _lsp_offset(s, list[i].start),
                      end |-> _lsp_offset(s, list[i].end), new |-> list[i].new]]
      sorted == Sorted(resolved)
  IN IF \/ \E i \in DOMAIN resolved : \/ NotThere \in {resolved[i].start, resolved[i].end}
                                      \/ resolved[i].end < resolved[i].start
        \/ \E i \in 2..Len(sorted) : sorted[i].start < sorted[i - 1].end
     THEN Rejected
     ELSE FoldRight(LAMBDA e, acc : ReplaceOne(acc, e), sorted, s)

(* A server's answer: ranges it can name in the text it was sent. *)
TextInit == source = << >> /\ text_edits = << >> /\ updated = << >>

Spans(s) == {r \in Offsets(s) \X Offsets(s) : r[1] <= r[2]}

Answer ==
  /\ updated = << >>
  /\ source' \in UNION {[1..n -> Letters] : n \in 1..MaxText}
  /\ \E n \in 1..MaxTextEdits : \E spans \in [1..n -> Spans(source')] :
       text_edits' = [i \in 1..n |-> [start |-> Position(source', ServerBreaks, spans[i][1]),
                                      end |-> Position(source', ServerBreaks, spans[i][2]),
                                      new |-> i]]
  /\ updated' = _apply_text_edits(source', text_edits')

TextNext == Answer
TextSpec == TextInit /\ [][TextNext]_textVars

(* What the server meant: every edit replaces its range of the text at      *)
(* once, insertions in the order given; there is none when two overlap.     *)
Meant(s, list) ==
  LET Off(p) == CHOOSE o \in Offsets(s) : Position(s, ServerBreaks, o) = p
      from(i) == Off(list[i].start)
      to(i) == Off(list[i].end)
      overlap == \E i, j \in DOMAIN list :
                   /\ i # j /\ from(i) <= from(j) /\ from(j) < to(i)
                   /\ from(i) < from(j) \/ to(j) > from(j)
      At(o) == SelectSeq([i \in DOMAIN list |-> i],
                         LAMBDA i : from(i) = o /\ to(i) = o)
               \o SelectSeq([i \in DOMAIN list |-> i],
                            LAMBDA i : from(i) = o /\ to(i) > o)
               \o (IF o = Len(s) \/ \E i \in DOMAIN list : from(i) <= o /\ o < to(i)
                   THEN << >> ELSE <<s[o + 1]>>)
  IN IF overlap THEN Rejected
     ELSE FlattenSeq([k \in 1..(Len(s) + 1) |-> At(k - 1)])

(* In a text without form feeds the edits a server names are applied as it  *)
(* meant them, whatever their order, or all of them are rejected; and a     *)
(* column comes back from the server as it was sent.                        *)
EditsAsMeant ==
  updated # << >> /\ "f" \notin ToSet(source) =>
    /\ updated = Meant(source, text_edits)
    /\ \A o \in Offsets(source) :
         LET l == LineOf(source, splitlines, o)
             column == o - LineStart(source, splitlines, l)
         IN _display_column(source, _lsp_position(source, l, column)) = column + 1
=============================================================================
