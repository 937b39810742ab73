---------------------------- MODULE IndexChunks ----------------------------
(***************************************************************************)
(* How a file is cut into the chunks that are indexed and how a match on a *)
(* line finds its chunk again (mjj/search/index.py).  The file grows line  *)
(* by line, and is cut anew every time.                                    *)
(***************************************************************************)
EXTENDS Integers, Sequences, SequencesExt, FiniteSetsExt

CONSTANTS MAX_CHUNK_LINES, MaxLines

VARIABLE text  \* the lines of the file: "decl", "code" or "blank"

ChunkInit == text = <<>>
AppendLine == /\ Len(text) < MaxLines
              /\ \E line \in {"decl", "code", "blank"} : text' = Append(text, line)
ChunkSpec == ChunkInit /\ [][AppendLine]_text

----------------------------------------------------------------------------
(* _make_chunks: a chunk starts at the first line, at a declaration, and   *)
(* after MAX_CHUNK_LINES of either; a chunk of blank lines is left out.    *)
Starts(t) == {1} \cup {i \in DOMAIN t : t[i] = "decl"}
NextOf(i, S, t) == Min({j \in S : j > i} \cup {Len(t) + 1})
Boundaries(t) ==
  {i \in DOMAIN t : \E s \in Starts(t) :
       s <= i /\ i < NextOf(s, Starts(t), t) /\ (i - s) % MAX_CHUNK_LINES = 0}
Bodies(t) == {[start |-> i, end |-> NextOf(i, Boundaries(t), t) - 1] : i \in Boundaries(t)}
_make_chunks(t) ==
  SetToSortSeq({c \in Bodies(t) : \E i \in c.start .. c.end : t[i] # "blank"},
               LAMBDA c, d : c.start < d.start)

(* The chunk a matching line counts for, or 0: the last that starts no later. *)
row_for_line(t, line) ==
  LET rows == {r \in DOMAIN _make_chunks(t) : _make_chunks(t)[r].start <= line}
  IN  IF rows = {} THEN 0
      ELSE IF line <= _make_chunks(t)[Max(rows)].end THEN Max(rows) ELSE 0

Rows == DOMAIN _make_chunks(text)

----------------------------------------------------------------------------
(* No line with text is lost to the index and none is in two chunks; a     *)
(* chunk is at most MAX_CHUNK_LINES long and never reaches past the next   *)
(* declaration; a match on a line counts for the chunk that holds it.      *)
EveryLineOnce ==
  LET chunks == _make_chunks(text)
      Holders(i) == {r \in DOMAIN chunks : chunks[r].start <= i /\ i <= chunks[r].end}
  IN  /\ \A i \in DOMAIN text :
           /\ Holders(i) = {row_for_line(text, i)} \ {0}
           /\ text[i] # "blank" => Cardinality(Holders(i)) = 1
      /\ \A r \in DOMAIN chunks :
           /\ chunks[r].end - chunks[r].start < MAX_CHUNK_LINES
           /\ \A i \in chunks[r].start + 1 .. chunks[r].end : text[i] # "decl"
=============================================================================
