-------------------------------- MODULE KeyFile --------------------------------
(***************************************************************************)
(* The file of saved provider keys (mjj/auth.py: save_provider_key,        *)
(* remove_provider_key, _stored_provider_keys), changed by processes that  *)
(* take no lock and share one name for the new file.  A file that is       *)
(* written keeps its identity when it is renamed, so files are nodes here. *)
(***************************************************************************)
EXTENDS Integers, FiniteSets, Functions

CONSTANTS
  Process,        \* the processes that log in and out
  Provider,       \* the names in PROVIDER_DEFAULTS
  Key,            \* the keys saved
  InEnvironment,  \* the providers whose key the environment gives
  MaxChanges      \* bound: logins and logouts

VARIABLES
  nodes,     \* what each file holds: its keys by provider, or Torn
  named,     \* the node of each name, 0 if there is none
  keyjob,    \* each process: [at, kind, provider, key, doc, node]
  keys,      \* the keys that the changes done so far leave
  racing,    \* two changes were under way at once
  cut,       \* a removal died while it wrote
  unmade,    \* a save was told that its new file is gone
  changes    \* changes begun

keyVars == <<nodes, named, keyjob, keys, racing, cut, unmade, changes>>

Torn == [p \in {"torn"} |-> 0]
NoKeys == [p \in {} |-> 0]
AuthError == 0 \* no key
Node == 1..(Cardinality(Process) + 2)
Rest == [at |-> "rest", kind |-> "none", provider |-> "none", key |-> 0,
         doc |-> NoKeys, node |-> 0]

KeyInit ==
  /\ nodes = [n \in Node |-> NoKeys]
  /\ named = [name \in {"auth.json", "auth.json.tmp"} |-> 0]
  /\ keyjob = [p \in Process |-> Rest]
  /\ keys = NoKeys /\ racing = FALSE /\ cut = FALSE /\ unmade = FALSE /\ changes = 0

(* _stored_provider_keys: a file that is missing or no JSON has no keys.    *)
Document == IF named["auth.json"] = 0 THEN Torn ELSE nodes[named["auth.json"]]
_stored_provider_keys == IF Document = Torn THEN NoKeys ELSE Document

(* provider_credential: the environment, then the file, else an AuthError.  *)
provider_credential(provider) ==
  IF provider \in InEnvironment THEN "environment"
  ELSE IF provider \in DOMAIN _stored_provider_keys
  THEN _stored_provider_keys[provider] ELSE AuthError

With(doc, provider, key) ==
  [p \in DOMAIN doc \union {provider} |-> IF p = provider THEN key ELSE doc[p]]
Without(doc, provider) == Restrict(doc, DOMAIN doc \ {provider})

(* Where a save and a removal write. *)
(* Mutant: a save writes the file itself. *)
InPlace(kind) == "auth.json"
Target(kind) == IF kind = "save" THEN "auth.json.tmp" ELSE "auth.json"

Others(p) == {q \in Process \ {p} : keyjob[q].at # "rest"}
Go(p, at) == keyjob' = [keyjob EXCEPT ![p].at = at]

(* Reads the file and makes the new document. *)
read_text(p) ==
  /\ keyjob[p].at = "rest" /\ changes < MaxChanges
  /\ changes' = changes + 1
  /\ \E kind \in {"save", "remove"}, provider \in Provider, key \in Key :
       LET doc == IF kind = "save" THEN With(_stored_provider_keys, provider, key)
                  ELSE Without(_stored_provider_keys, provider)
       IN /\ kind = "remove" =>
               key = (CHOOSE k \in Key : TRUE) /\ provider \in DOMAIN _stored_provider_keys
          /\ keyjob' = [keyjob EXCEPT ![p] = [at |-> "open", kind |-> kind,
               provider |-> provider, key |-> key, doc |-> doc, node |-> 0]]
  /\ racing' = (racing \/ Others(p) # {})
  /\ UNCHANGED <<nodes, named, keys, cut, unmade>>

(* write_text opens the name, which empties its file or makes one ...       *)
InUse == {named[name] : name \in DOMAIN named} \union {keyjob[p].node : p \in Process}
open(p) ==
  LET job == keyjob[p]
      node == IF named[Target(job.kind)] # 0 THEN named[Target(job.kind)]
              ELSE CHOOSE n \in Node \ InUse : TRUE
  IN /\ job.at = "open"
     /\ named' = [named EXCEPT ![Target(job.kind)] = node]
     /\ nodes' = [nodes EXCEPT ![node] = Torn]
     /\ keyjob' = [keyjob EXCEPT ![p].node = node, ![p].at = "write"]
     /\ UNCHANGED <<keys, racing, cut, unmade, changes>>

(* ... and writes that file, whatever its name is by now and whatever       *)
(* another process wrote to it, of which an end may be left.                *)
Done(job) == IF job.kind = "save" THEN With(keys, job.provider, job.key)
             ELSE Without(keys, job.provider)

write_text(p) ==
  LET job == keyjob[p]
      ends == job.kind = "remove"
  IN /\ job.at = "write"
     /\ \E text \in IF nodes[job.node] = Torn THEN {job.doc} ELSE {job.doc, Torn} :
          nodes' = [nodes EXCEPT ![job.node] = text]
     /\ keyjob' = [keyjob EXCEPT ![p] = IF ends THEN Rest ELSE [job EXCEPT !.at = "replace", !.node = 0]]
     /\ keys' = IF ends THEN Done(job) ELSE keys
     /\ UNCHANGED <<named, racing, cut, unmade, changes>>

(* temporary.replace(path): an OSError when another process took the file.  *)
replace(p) ==
  LET job == keyjob[p]
      new == named["auth.json.tmp"]
  IN /\ job.at = "replace"
     /\ IF new = 0 THEN unmade' = TRUE /\ UNCHANGED <<named, keys>>
        ELSE /\ named' = [name \in DOMAIN named |-> IF name = "auth.json" THEN new ELSE 0]
             /\ keys' = Done(job)
             /\ UNCHANGED unmade
     /\ keyjob' = [keyjob EXCEPT ![p] = Rest]
     /\ UNCHANGED <<nodes, racing, cut, changes>>

Die(p) ==
  /\ keyjob[p].at # "rest"
  /\ cut' = (cut \/ (keyjob[p].at = "write" /\ keyjob[p].kind = "remove"))
  /\ keyjob' = [keyjob EXCEPT ![p] = Rest]
  /\ UNCHANGED <<nodes, named, keys, racing, unmade, changes>>

KeyNext == \E p \in Process :
  read_text(p) \/ open(p) \/ write_text(p) \/ replace(p) \/ Die(p)
KeySpec == KeyInit /\ [][KeyNext]_keyVars

-----------------------------------------------------------------------------
(* At every moment, also while a save is under way and after one that died,  *)
(* the file gives the keys that the saves and removals done so far leave,    *)
(* and no save fails for want of its file; unless two changes overlapped, or *)
(* a removal empties the file at the moment or died there (mjj/auth.py).    *)
KeysKept ==
  ~racing /\ ~cut =>
    /\ ~unmade
    /\ (\E p \in Process : keyjob[p].at = "write" /\ keyjob[p].kind = "remove")
       \/ \A provider \in Provider \ InEnvironment :
            provider_credential(provider) =
              IF provider \in DOMAIN keys THEN keys[provider] ELSE AuthError
=============================================================================
