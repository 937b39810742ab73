------------------------------- MODULE ToolHost -------------------------------
(***************************************************************************)
(* One call of a tool (mjj/tools/base.py: Registry.dispatch) with the      *)
(* parts it goes through: the permission policy (mjj/permissions.py), the  *)
(* project rules of directories entered for the first time                 *)
(* (mjj/project_docs.py: ScopedProjectDocs.discover) and the ledger that   *)
(* clips what the model is shown and counts it (mjj/ledger.py).  A text is *)
(* its number of characters; of a text that is cut the model keeps how     *)
(* many characters of its head and of its tail are shown.                  *)
(***************************************************************************)
EXTENDS Integers, Sequences, FiniteSets, SequencesExt

CONSTANTS
  DirOrder,            \* directories below the workspace, shallow ones first
  Above(_),            \* a directory and those above it, below the workspace
  DocSizes,            \* sizes of the rules a directory may have, 0 for none
  CHARS_PER_TOKEN,
  Limit,               \* characters of the tool's budget
  MarkerLen,           \* characters of the mark of a clip
  Banner,              \* characters of the heading of a directory's rules
  per_discovery_bytes,
  MaxDocBytes,         \* bytes of rules a session may still attach
  Lengths,             \* lengths of what tools and errors say
  MaxDispatch          \* bound: calls of tools

VARIABLES
  policy,        \* the permission mode
  docs,          \* the size of each directory's rules
  scanned, remaining,
  tool_calls, tool_tokens,
  drops,         \* results that were cut
  result,        \* what the last call gave the model
  shown,         \* estimated tokens of all that the model was given
  attached,      \* times a directory's rules were attached, even in part
  lost           \* directories whose rules a tool's exception took along

hostVars == <<policy, docs, scanned, remaining, tool_calls, tool_tokens, drops, result,
              shown, attached, lost>>

Dir == ToSet(DirOrder)
AllModes == {"none", "auto", "ask", "read-only"}   \* none: no policy is set

Least(a, b) == IF a < b THEN a ELSE b
Most(a, b) == IF a < b THEN b ELSE a

(* What is shown of a text: all of it, or a head, a mark and a tail. *)
Whole(n) == [head |-> n, mark |-> 0, tail |-> 0]
Size(t) == t.head + t.mark + t.tail
Nothing == Whole(0)

HostInit(sizes, modes) ==
  /\ policy \in modes /\ docs \in [Dir -> sizes]
  /\ scanned = {} /\ remaining = MaxDocBytes
  /\ tool_calls = 0 /\ tool_tokens = 0 /\ drops = 0
  /\ result = [text |-> Nothing, given |-> 0, size |-> 0]
  /\ shown = 0 /\ attached = [d \in Dir |-> 0] /\ lost = {}

estimate_tokens(n) == (n + CHARS_PER_TOKEN - 1) \div CHARS_PER_TOKEN

(* _clip_blob cuts to the room even a text that fits it. *)
_clip_blob(n, room) ==
  IF room <= 0 THEN Nothing
  ELSE IF room <= MarkerLen THEN Whole(Least(n, room))
  ELSE LET payload == room - MarkerLen
           head == (payload + 1) \div 2
       IN [head |-> Least(n, head), mark |-> MarkerLen,
           tail |-> Least(n, payload - head)]

(* clip: a text over the budget is aggregated, summarised or cut to some    *)
(* length within it.                                                        *)
clip(n) == IF n <= Limit THEN {n} ELSE 0..Limit

(* attach: the rules follow the output; when both do not fit, the rules get *)
(* two thirds of the budget and the output what is left.  What was counted  *)
(* for the output is taken back.                                            *)
attach(n, suffix) ==
  LET suffix_room == Least(suffix, Most(1, (Limit * 2) \div 3))
      kept == _clip_blob(suffix, suffix_room)
      rest == _clip_blob(n, Most(0, Limit - Size(kept) - 2))
      joiner == IF Size(rest) > 0 /\ Size(kept) > 0 THEN 2 ELSE 0
      both == Least(Limit, Size(rest) + joiner + Size(kept))
      Counted(size) == estimate_tokens(size) - estimate_tokens(n)
  IN IF suffix = 0 THEN [text |-> Whole(n), size |-> n, tokens |-> 0, cut |-> 0]
     ELSE IF Limit = 0
     THEN [text |-> Nothing, size |-> 0, tokens |-> -estimate_tokens(n), cut |-> 1]
     ELSE IF n + 2 + suffix <= Limit
     THEN [text |-> Whole(n), size |-> n + 2 + suffix,
           tokens |-> Counted(n + 2 + suffix), cut |-> 0]
     ELSE [text |-> rest, size |-> both, tokens |-> Counted(both), cut |-> 1]

(* Mutant: directories are visited again. *)
DiscoverAgain(dirs) ==
  LET bytes == Least(docs[CHOOSE d \in dirs : TRUE], Least(remaining, per_discovery_bytes))
  IN [seen |-> dirs, taken |-> IF bytes > 0 THEN {CHOOSE d \in dirs : TRUE} ELSE {},
      read |-> bytes, over |-> FALSE]

(* discover visits the directories of the arguments not visited before; it  *)
(* stops when the allowance is used up or cuts a file.                      *)
discover(dirs) ==
  LET todo == SelectSeq(DirOrder, LAMBDA d : d \in dirs \ scanned)
      allowance == Least(remaining, per_discovery_bytes)
      Visit(d, acc) ==
        IF acc.over THEN acc
        ELSE LET available == allowance - acc.read
                 bytes == Least(docs[d], available)
             IN IF docs[d] = 0 THEN [acc EXCEPT !.seen = @ \cup {d}]
                ELSE IF available <= 0
                THEN [acc EXCEPT !.seen = @ \cup {d}, !.over = TRUE]
                ELSE [seen |-> acc.seen \cup {d}, taken |-> acc.taken \cup {d},
                      read |-> acc.read + bytes, over |-> docs[d] > available]
  IN IF allowance <= 0 THEN [seen |-> {}, taken |-> {}, read |-> 0, over |-> FALSE]
     ELSE FoldSeq(Visit, [seen |-> {}, taken |-> {}, read |-> 0, over |-> FALSE],
                  Reverse(todo))

(* A result: what the tool or the error says, clipped, with rules attached. *)
Give(suffix) ==
  \E said \in Lengths : \E n \in clip(said) :
    LET whole == attach(n, suffix)
    IN /\ result' = [text |-> whole.text, given |-> n, size |-> whole.size]
       /\ tool_calls' = tool_calls + 1 /\ shown' = shown + estimate_tokens(whole.size)
       /\ tool_tokens' = tool_tokens + estimate_tokens(n) + whole.tokens
       /\ drops' = drops + whole.cut + IF said > Limit THEN 1 ELSE 0

(* __call__ of the policy: a prompt may be answered either way, or raise. *)
Approved(needs) == needs => policy \in {"none", "auto", "ask"}
Denied(needs) == needs /\ policy \in {"ask", "read-only"}

(* An unknown tool, arguments that are no object, paths that cannot be      *)
(* resolved, or a call that is denied: an error, and nothing is visited.    *)
DispatchRefused ==
  /\ tool_calls < MaxDispatch
  /\ \/ \E needs \in BOOLEAN : Denied(needs) /\ Give(0)
     \/ Give(0)
  /\ UNCHANGED <<policy, docs, scanned, remaining, attached, lost>>

Discovered(found) ==
  scanned' = scanned \cup found.seen /\ remaining' = remaining - found.read

DispatchReturns ==
  /\ tool_calls < MaxDispatch /\ \E needs \in BOOLEAN : Approved(needs)
  /\ \E d \in Dir :
       LET found == discover(Above(d))
       IN /\ Discovered(found) /\ Give(found.read + Banner * Cardinality(found.taken))
          /\ attached' = [e \in Dir |-> attached[e] + IF e \in found.taken THEN 1 ELSE 0]
  /\ UNCHANGED <<policy, docs, lost>>

(* The tool raises: the error is shown, the rules found for the call are not. *)
DispatchRaises ==
  /\ tool_calls < MaxDispatch /\ \E needs \in BOOLEAN : Approved(needs)
  /\ \E d \in Dir :
       LET found == discover(Above(d))
       IN Discovered(found) /\ lost' = lost \cup found.taken /\ Give(0)
  /\ UNCHANGED <<policy, docs, attached>>

set ==
  /\ policy # "none" /\ policy' \in AllModes \ {"none", policy}
  /\ UNCHANGED <<docs, scanned, remaining, tool_calls, tool_tokens, drops, result,
                 shown, attached, lost>>

HostNext == DispatchRefused \/ DispatchReturns \/ DispatchRaises \/ set

HostSpec == HostInit(DocSizes, AllModes) /\ [][HostNext]_hostVars

(* The ledger's count is what the model was given, whatever was clipped and *)
(* attached to it, and no result is longer than the tool's budget.          *)
LedgerExact == tool_tokens = shown /\ result.size <= Limit

(* A directory's rules reach the model at most once, and all of them        *)
(* together within the session's allowance.                                 *)
RulesOnce ==
  /\ \A d \in Dir : attached[d] <= 1 /\ (attached[d] = 1 => d \in scanned \ lost)
  /\ remaining >= 0
=============================================================================
