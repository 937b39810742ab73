-------------------------------- MODULE ListTree --------------------------------
(***************************************************************************)
(* The listing of a directory tree without what .gitignore files leave out *)
(* (mjj/tools/fs.py, ListTool).  A path is a sequence of names, and a      *)
(* pattern one of names and "*".                                           *)
(***************************************************************************)
EXTENDS Integers, Sequences, FiniteSets, SequencesExt

CONSTANTS
  Trees,         \* trees: functions from paths to "file" or "directory"
  Patterns,      \* the patterns of rules
  Holders,       \* the directories with a .gitignore, << >> the workspace
  _COLLAPSE_AT,  \* more entries than this are counted, not listed
  MaxDepth,      \* bound: depths asked for
  MaxRules       \* bound: rules in all

VARIABLES
  files,    \* the tree below the workspace
  ignores   \* the rules of each .gitignore

listVars == <<files, ignores>>

(* _read_ignore_file: a line of a .gitignore. *)
Rule == [pattern : Patterns, negated : BOOLEAN, directory_only : BOOLEAN, anchored : BOOLEAN]

ListInit == files \in Trees /\ ignores = [d \in Holders |-> << >>]

Written == FoldFunction(LAMBDA list, n : Len(list) + n, 0, ignores)
AddRule ==
  /\ Written < MaxRules
  /\ \E d \in Holders, rule \in Rule : ignores' = [ignores EXCEPT ![d] = Append(@, rule)]
  /\ UNCHANGED files

ListNext == AddRule
ListSpec == ListInit /\ [][ListNext]_listVars

(* fnmatch on the joined names: a "*" takes one name or more. *)
Takes(names, glob) == names # << >> /\ (glob = "*" \/ names = <<glob>>)
fnmatchcase(path, pattern) ==
  IF Len(pattern) = 1 THEN Takes(path, pattern[1])
  ELSE \E k \in 1..Len(path) :
         Takes(SubSeq(path, 1, k), pattern[1]) /\ Takes(SubSeq(path, k + 1, Len(path)), pattern[2])

(* _IgnoreRule.matches: a path below the rule's base, by its whole or, for a *)
(* pattern that is one name, by any of its names.                           *)
Slashed(rule) == rule.anchored \/ Len(rule.pattern) > 1

matches(rule, base, relative, is_dir) ==
  LET parts == SubSeq(relative, Len(base) + 1, Len(relative))
      matched == IF Slashed(rule)
                 THEN \/ fnmatchcase(parts, rule.pattern)
                      \/ rule.directory_only /\ \E k \in 1..(Len(parts) - 1) :
                           fnmatchcase(SubSeq(parts, 1, k), rule.pattern)
                 ELSE \E k \in DOMAIN parts : fnmatchcase(<<parts[k]>>, rule.pattern)
  IN /\ IsPrefix(base, relative) /\ parts # << >>
     /\ matched
     /\ rule.directory_only => is_dir \/ Len(parts) > 1

(* _ignored: the last rule that matches decides. *)
Hits(relative, is_dir, rules) ==
  {i \in DOMAIN rules : matches(rules[i].rule, rules[i].base, relative, is_dir)}

(* Mutant: the first rule that matches decides. *)
FirstDecides(relative, is_dir, rules) ==
  LET hits == Hits(relative, is_dir, rules)
  IN hits # {} /\ ~rules[CHOOSE i \in hits : \A j \in hits : i <= j].rule.negated

_ignored(relative, is_dir, rules) ==
  LET hits == Hits(relative, is_dir, rules)
  IN hits # {} /\ ~rules[CHOOSE i \in hits : \A j \in hits : j <= i].rule.negated

(* The rules of a .gitignore, with the directory they are relative to. *)
Based(directory, base) ==
  IF directory \notin Holders THEN << >>
  ELSE [i \in DOMAIN ignores[directory] |-> [rule |-> ignores[directory][i], base |-> base]]

(* _ancestor_rules: from the workspace down to the directory listed.        *)
_ancestor_rules(root) ==
  FlattenSeq([k \in 1..(Len(root) + 1) |->
                LET above == SubSeq(root, 1, k - 1) IN Based(above, above)])

Children(directory) ==
  {p \in DOMAIN files : Len(p) = Len(directory) + 1 /\ IsPrefix(directory, p)}

(* _walk: what is listed of a tree, and the directories with too many        *)
(* entries; names are relative to the directory listed.                     *)
_walk(root, max_depth) ==
  LET Below(d) == SubSeq(d, Len(root) + 1, Len(d))
      Local(d) == _ancestor_rules(root) \o
        FlattenSeq([k \in 1..(Len(d) - Len(root)) |->
                      LET dir == SubSeq(d, 1, Len(root) + k) IN Based(dir, Below(dir))])
      Entries(d) == {p \in Children(d) :
                       ~_ignored(Below(p), files[p] = "directory", Local(d))}
      Level[n \in 0..max_depth] ==
        IF n = 0 THEN {root}
        ELSE UNION {Entries(d) : d \in {d \in Level[n - 1] :
                       /\ d = root \/ files[d] = "directory"
                       /\ Cardinality(Entries(d)) <= _COLLAPSE_AT}}
      seen == UNION {Level[n] : n \in 0..max_depth}
  IN [listed |-> seen \ {root},
      collapsed |-> {d \in seen : /\ d = root \/ files[d] = "directory"
                                  /\ Len(d) - Len(root) < max_depth
                                  /\ Cardinality(Entries(d)) > _COLLAPSE_AT}]

-----------------------------------------------------------------------------
(* What Git leaves out: a pattern with a slash is matched name by name from  *)
(* its .gitignore, another one against the last name only.                  *)
GitMatches(r, p) ==
  LET parts == SubSeq(p, Len(r.base) + 1, Len(p))
      One(name, glob) == glob = "*" \/ name = glob
  IN /\ IsPrefix(r.base, p) /\ parts # << >>
     /\ r.rule.directory_only => files[p] = "directory"
     /\ IF Slashed(r.rule)
        THEN Len(parts) = Len(r.rule.pattern) /\ \A k \in DOMAIN parts : One(parts[k], r.rule.pattern[k])
        ELSE One(parts[Len(parts)], r.rule.pattern[1])

GitIgnores(p) ==
  \E k \in 1..Len(p) :
    LET q == SubSeq(p, 1, k)
        list == _ancestor_rules(SubSeq(p, 1, k - 1))
        hits == {i \in DOMAIN list : GitMatches(list[i], q)}
    IN hits # {} /\ ~list[CHOOSE i \in hits : \A j \in hits : j <= i].rule.negated

(* The rules that _IgnoreRule reads as Git does: no "*" in a pattern with a  *)
(* slash; no pattern for directories that names a file in a directory; and  *)
(* no negated one that names a directory, which would bring back all below. *)
Calls(d, rule, p) ==
  fnmatchcase(IF Slashed(rule) THEN SubSeq(p, Len(d) + 1, Len(p)) ELSE <<Last(p)>>, rule.pattern)

AsGit(d, rule) ==
  /\ Slashed(rule) => "*" \notin ToSet(rule.pattern)
  /\ \A p \in DOMAIN files : Len(p) > Len(d) /\ Calls(d, rule, p) =>
       /\ rule.directory_only => files[p] = "directory" \/ Len(p) = Len(d) + 1
       /\ rule.negated => files[p] = "file"

(* Listing the workspace shows what Git would not leave out, to the depth    *)
(* asked for: no more, and no less but below a directory of too many        *)
(* entries, for the rules that are read as Git reads them (ListTool).       *)
ListedAsGit ==
  (\A d \in Holders : \A i \in DOMAIN ignores[d] : AsGit(d, ignores[d][i])) =>
    \A depth \in 0..MaxDepth :
      LET list == _walk(<< >>, depth)
      IN /\ \A p \in list.listed : ~GitIgnores(p) /\ Len(p) <= depth
         /\ \A p \in DOMAIN files : ~GitIgnores(p) /\ Len(p) <= depth =>
              p \in list.listed \/ \E d \in list.collapsed : IsPrefix(d, p)
=============================================================================
