------------------------------- MODULE FileContext -------------------------------
(***************************************************************************)
(* What the model is shown of a file: the attachments of "@file" mentions, *)
(* within their budgets (mjj/context_files.py, prepare_mentions), and the  *)
(* lines of the read tool (mjj/tools/fs.py, ReadTool).  A text is a        *)
(* sequence of characters [at, width]; a line break has width 1 and at 0.  *)
(***************************************************************************)
EXTENDS Integers, Sequences, FiniteSets, SequencesExt

CONSTANTS
  Texts,           \* the texts of a file: sequences of widths, 0 for a line break
  Others,          \* the text of the second file
  Ranges,          \* the line ranges asked for: <<first, last>>
  max_files, max_file_bytes, max_total_bytes,
  MAX_RANGE_SCAN,  \* bytes read for a range
  MaxMentions,     \* bound: mentions of a prompt
  ReadLimit        \* the lines the read tool shows without a range

VARIABLES
  contents,    \* the text of each file
  mentioned,   \* mentions seen: <<path, range>>
  blocks,      \* attachments: [path, range, content, truncated]
  attached,    \* files attached, images too
  budget,      \* bytes left
  refused      \* the prompt was refused

mentionVars == <<contents, mentioned, blocks, attached, budget, refused>>

WholeFile == <<0, 0>>
Chars(widths) ==
  [i \in DOMAIN widths |-> IF widths[i] = 0 THEN [at |-> 0, width |-> 1]
                           ELSE [at |-> i, width |-> widths[i]]]
Break(c) == c.at = 0
Replacement == [at |-> 0 - 1, width |-> 3]

MentionInit ==
  /\ \E text \in Texts, other \in Others : contents = [f |-> Chars(text), g |-> Chars(other)]
  /\ mentioned = {} /\ blocks = << >> /\ attached = 0
  /\ budget = max_total_bytes /\ refused = FALSE

Bytes(text) == FoldLeft(LAMBDA n, c : n + c.width, 0, text)

(* The characters that lie within the first bytes: what is left of one that *)
(* is cut is ignored, or decoded to a replacement character.                *)
Within(text, bytes) ==
  LET fits == {k \in 0..Len(text) : Bytes(SubSeq(text, 1, k)) <= bytes}
  IN SubSeq(text, 1, CHOOSE k \in fits : \A j \in fits : j <= k)
Decoded(text, bytes) ==
  LET whole == Within(text, bytes)
  IN IF Bytes(whole) < bytes /\ Len(whole) < Len(text) THEN Append(whole, Replacement) ELSE whole

(* splitlines, and the lines of a range joined again.                       *)
Ends(text) == {i \in DOMAIN text : Break(text[i])}
Lines(text) ==
  LET ends == SetToSortSeq(Ends(text), LAMBDA a, b : a < b)
      all == <<0>> \o ends \o (IF text = << >> \/ Break(Last(text)) THEN << >> ELSE <<Len(text) + 1>>)
  IN [k \in 1..(Len(all) - 1) |-> SubSeq(text, all[k] + 1, all[k + 1] - 1)]
Pick(lines, range) ==
  SubSeq(lines, range[1], IF range[2] < Len(lines) THEN range[2] ELSE Len(lines))
Joined(lines) ==
  FlattenSeq([k \in DOMAIN lines |->
                IF k = Len(lines) THEN lines[k] ELSE Append(lines[k], [at |-> 0, width |-> 1])])

(* _read_text: of a whole file one byte more than the limit, of a range what *)
(* lies within the scan limit; cut to the limit at a character.             *)
(* Mutant: one byte less than the limit is read. *)
ReadToLimit(range, limit) == IF range = WholeFile THEN limit - 1 ELSE MAX_RANGE_SCAN

read_limit(range, limit) == IF range = WholeFile THEN limit + 1 ELSE MAX_RANGE_SCAN

_read_text(text, range, limit) ==
  LET size == read_limit(range, limit)
      scan_truncated == Bytes(text) > size
      payload == IF scan_truncated THEN Decoded(text, size) ELSE text
      asked == IF range = WholeFile THEN payload ELSE Joined(Pick(Lines(payload), range))
  IN [ok |-> ~(range # WholeFile /\ range[1] > Len(Lines(payload)) /\ scan_truncated),
      content |-> IF Bytes(asked) > limit THEN Within(asked, limit) ELSE asked,
      truncated |-> (range = WholeFile /\ scan_truncated) \/ Bytes(asked) > limit]

(* prepare_mentions, one mention: one seen before is skipped, and so is a    *)
(* word that names no file; a path that does not exist, one file too many,  *)
(* or text without any budget left refuses the prompt.                      *)
Open == ~refused /\ Cardinality(mentioned) < MaxMentions
Refuse == refused' = TRUE /\ UNCHANGED <<blocks, attached, budget>>

Mention ==
  /\ Open
  /\ \E path \in {"f", "g"}, range \in Ranges \union {WholeFile} :
       LET limit == IF max_file_bytes < budget THEN max_file_bytes ELSE budget
           got == _read_text(contents[path], range, limit)
       IN /\ <<path, range>> \notin mentioned
          /\ mentioned' = mentioned \union {<<path, range>>}
          /\ IF attached >= max_files \/ budget <= 0 \/ ~got.ok THEN Refuse
             ELSE /\ blocks' = Append(blocks, [path |-> path, range |-> range,
                                 content |-> got.content, truncated |-> got.truncated])
                  /\ budget' = budget - Bytes(got.content)
                  /\ attached' = attached + 1
                  /\ UNCHANGED refused
  /\ UNCHANGED contents

MentionImage ==
  /\ Open /\ <<"image", WholeFile>> \notin mentioned
  /\ mentioned' = mentioned \union {<<"image", WholeFile>>}
  /\ IF attached >= max_files THEN Refuse
     ELSE attached' = attached + 1 /\ UNCHANGED <<blocks, budget, refused>>
  /\ UNCHANGED contents

MentionMissing ==
  /\ Open /\ refused' = TRUE
  /\ UNCHANGED <<contents, mentioned, blocks, attached, budget>>

MentionNext == Mention \/ MentionImage \/ MentionMissing
MentionSpec == MentionInit /\ [][MentionNext]_mentionVars

(* ReadTool.run: the numbered lines of the range, all lines, or for a file   *)
(* that is long its head and outline; numbers are kept with the lines.      *)
Numbered(lines, first, last) == [k \in 1..(last - first + 1) |-> <<first + k - 1, lines[first + k - 1]>>]
ReadTool(text, range) ==
  LET lines == Lines(text)
      last == IF range # WholeFile /\ range[2] < Len(lines) THEN range[2] ELSE Len(lines)
      first == IF range = WholeFile THEN 1 ELSE range[1]
  IN IF range = WholeFile /\ Len(lines) > ReadLimit
     THEN [overview |-> TRUE, lines |-> Numbered(lines, 1, ReadLimit)]
     ELSE [overview |-> FALSE,
           lines |-> IF last < first THEN << >> ELSE Numbered(lines, first, last)]

-----------------------------------------------------------------------------
(* The scan for a range ended in its lines: the rest is cut and not flagged. *)
ScanCuts(b) ==
  /\ b.range # WholeFile
  /\ Bytes(contents[b.path]) > MAX_RANGE_SCAN
  /\ LET seen == Len(Lines(Within(contents[b.path], MAX_RANGE_SCAN))) IN b.range[2] >= seen

(* Attachments stay within the budgets, and each is the text asked for up to *)
(* where it is cut, which happens between characters and is always flagged, *)
(* with no character that is not in the file; but for a range that the scan *)
(* limit ends in (prepare_mentions, _read_text).                            *)
MentionsExact ==
  /\ Len(blocks) <= max_files /\ budget >= 0
  /\ FoldLeft(LAMBDA n, b : n + Bytes(b.content), 0, blocks) = max_total_bytes - budget
  /\ \A i \in DOMAIN blocks : ~ScanCuts(blocks[i]) =>
       LET b == blocks[i]
           asked == IF b.range = WholeFile THEN contents[b.path]
                    ELSE Joined(Pick(Lines(contents[b.path]), b.range))
       IN /\ IsPrefix(b.content, asked) /\ Bytes(b.content) <= max_file_bytes
          /\ b.truncated <=> b.content # asked

(* A range attached whole is what the read tool shows of those lines.       *)
MentionIsRead ==
  \A i \in DOMAIN blocks :
    LET b == blocks[i]
        shown == ReadTool(contents[b.path], b.range)
    IN ~b.truncated /\ ~ScanCuts(b) /\ ~shown.overview =>
         LET text == Joined([k \in DOMAIN shown.lines |-> shown.lines[k][2]])
         IN IF b.range = WholeFile THEN b.content \in {text, Append(text, [at |-> 0, width |-> 1])}
            ELSE b.content = text
=============================================================================
