---------------------------- MODULE CodeSearch -----------------------------
(***************************************************************************)
(* One ranked search and its continuations (RepositoryIndex.search and the *)
(* search tool).  Literal, lexical and semantic evidence name the rows of  *)
(* the index, each in an order of its own, and are fused by rank; the tool *)
(* shows a page that fits its budget and the cursor at which the same      *)
(* search goes on.  The index does not change in between (SearchIndex is   *)
(* about that).  Every page searches again, with a depth that depends on   *)
(* the cursor: a deeper search takes more candidates, or may find that the *)
(* literal evidence decides.                                               *)
(***************************************************************************)
EXTENDS Integers, Sequences, SequencesExt, FiniteSetsExt

CONSTANTS Rows,            \* the chunks of the index the query may name, by number
          Others,          \* chunks out of its scope, or without a word of it
          Overlaps,        \* which chunks may overlap in a file: sets of pairs
          LeastCandidates, \* the least and the most chunks a ranking is asked for
          MostCandidates,
          LITERAL,         \* most matches a chunk may have
          Limits,          \* the tool's limit argument
          MaxDepth,        \* 50: the deepest a search looks
          MaxCursor,       \* 40: the largest cursor the tool takes
          SCORE_CLIFF_WINDOW

VARIABLES mode, matches, lexical, semantic, overlapping, limit,
          cursor,  \* the cursor of the next page, or Done
          shown,   \* the chunks shown so far
          wanted   \* the depth of the last search

searchVars == <<mode, matches, lexical, semantic, overlapping, limit, cursor, shown, wanted>>

Done == -1
SearchModes == {"auto", "literal", "semantic"}

----------------------------------------------------------------------------
(* The rows of positive weight, the heaviest first; ties in the order of the index. *)
Ranked(weight) ==
  LET Before(r, t) == weight[r] > weight[t] \/ (weight[r] = weight[t] /\ r < t)
  IN  SetToSortSeq({r \in Rows : weight[r] > 0}, Before)

(* Chunks with matches, most matches first. *)
Literal == Ranked(matches)

decisive_literal(n) == mode = "auto" /\ Literal # <<>> /\ Len(Literal) <= n

FirstOf(seq, n) == SubSeq(seq, 1, Min({n, Len(seq)}))

(* The rankings are cut before the chunks out of scope are dropped. *)
candidate_count(n) == Min({Max({n, LeastCandidates}), MostCandidates})
Candidates(ranking, n) ==
  SelectSeq(FirstOf(ranking, candidate_count(n)), LAMBDA row : row \in Rows)

(* The evidence of a search of depth n. *)
Evidence(n) ==
  [literal |-> IF mode = "semantic" THEN <<>> ELSE Literal,
   lexical |-> IF mode # "auto" \/ decisive_literal(n) THEN <<>> ELSE Candidates(lexical, n),
   semantic |-> IF mode = "literal" \/ decisive_literal(n) THEN <<>>
                ELSE Candidates(semantic, n)]

(* weight / (20 + rank), in units that make every quotient whole. *)
Unit == 21 * 22 * 23 * 24
Share(weight, ranked, row) ==
  LET ranks == {k \in DOMAIN ranked : ranked[k] = row}
  IN  IF ranks = {} THEN 0 ELSE (weight * Unit) \div (20 + Min(ranks))

Fused(n) ==
  LET evidence == Evidence(n)
  IN  [row \in Rows |-> Share(400, evidence.literal, row)
                        + Share(200, evidence.lexical, row)
                        + Share(125, evidence.semantic, row)]

(* The raw scores break ties before the row does; among three rows nothing ties. *)
Ordered(fused) == Ranked(fused)

(* A confident hit followed by one of at most 0.6 of its score ends the list. *)
Cliff(fused, hits, k) == /\ fused[hits[k]] >= 20 * Unit
                         /\ 10 * fused[hits[k + 1]] <= 6 * fused[hits[k]]
_adaptive_count(fused, hits) ==
  LET inspected == Min({SCORE_CLIFF_WINDOW, Len(hits) - 1})
  IN  Min({k \in 1 .. inspected : Cliff(fused, hits, k)} \cup {Len(hits)})

(* The best n, but a chunk that overlaps a better one is left out. *)
Hits(ordered, n) ==
  FoldLeft(LAMBDA hits, row :
             IF Len(hits) = n \/ \E i \in DOMAIN hits : {hits[i], row} \in overlapping
             THEN hits ELSE Append(hits, row),
           <<>>, ordered)

search(n) == LET fused == Fused(n)
                 hits == Hits(Ordered(fused), n)
             IN  FirstOf(hits, _adaptive_count(fused, hits))

----------------------------------------------------------------------------
(* Any evidence: the two rankings order any of the chunks. *)
Rankings(S) == UNION {{s \in [1 .. k -> S] : IsInjective(s)} : k \in 0 .. Cardinality(S)}

SearchInit ==
  /\ mode \in SearchModes /\ limit \in Limits
  /\ matches \in [Rows -> 0 .. LITERAL]
  /\ lexical \in Rankings(Rows \cup Others)
  /\ semantic \in {lexical, Reverse(lexical), <<>>}
  /\ overlapping \in Overlaps
  /\ cursor = 0 /\ shown = <<>> /\ wanted = 0

(* Mutant: the cursor skips the hits that did not fit. *)
PastThePage(count) == cursor + limit

next_cursor(count) == cursor + count

(* SearchTool.run with _fit_page: as many whole hits as fit, at least one. *)
Page ==
  /\ cursor \in 0 .. MaxCursor
  /\ wanted' = Min({MaxDepth, cursor + limit + 1})
  /\ LET all == search(wanted')
         candidates == SubSeq(all, cursor + 1, Min({cursor + limit, Len(all)}))
     IN  IF candidates = <<>> THEN cursor' = Done /\ UNCHANGED shown
         ELSE \E count \in DOMAIN candidates :
                /\ shown' = shown \o FirstOf(candidates, count)
                /\ cursor' = IF Len(all) > next_cursor(count) THEN next_cursor(count) ELSE Done
  /\ UNCHANGED <<mode, matches, lexical, semantic, overlapping, limit>>

SearchNext == Page
SearchSpec == SearchInit /\ [][SearchNext]_searchVars

----------------------------------------------------------------------------
(* The pages so far are exactly the head of the ranking, without a gap or a *)
(* repeat, and the last page reaches its end or the first score cliff,      *)
(* however little of a page fits and whatever is left out as overlapping    *)
(* (_fit_page, _adaptive_count).  This needs every depth to see the same    *)
(* evidence: a deeper search that takes more candidates, or finds that the  *)
(* literal evidence decides, orders anew, and a page may then repeat a hit  *)
(* or skip one.                                                             *)
SameEvidence == Evidence(limit + 1) = Evidence(MaxDepth)
PagesFollow ==
  LET all == search(MaxDepth)
  IN SameEvidence => /\ IsPrefix(shown, all)
                     /\ cursor = Done /\ wanted < MaxDepth => shown = all
=============================================================================
