--------------------------- MODULE AgentLoopProofs ---------------------------
(***************************************************************************)
(* Proofs about the turn loop for every value of the constants: the type   *)
(* invariant, that the rollout file always restores the live window, that  *)
(* calls, their outputs and the user's items keep their places in it, that *)
(* a run is bounded, and that steering is appended once, in order and      *)
(* before a run ends.                                                      *)
(***************************************************************************)
EXTENDS AgentLoop, SequenceTheorems, WellFoundedInduction, TLAPS

-----------------------------------------------------------------------------
(* Lemmas about prune_to_latest_compaction. *)

\* A non-empty set of indexes of a sequence has a greatest element.
LEMMA LastIndex ==
  ASSUME NEW n \in Nat, NEW C, C \subseteq 1..n, C # {}
  PROVE  \E m \in C : \A j \in C : j <= m
  <1> DEFINE D == {n - j : j \in C}
  <1>1. D \subseteq Nat /\ D # {}
    <2>1. \A j \in C : n - j \in Nat  OBVIOUS
    <2>2. QED  BY <2>1
  <1>2. IsWellFoundedOn(OpToRel(<, Nat), Nat)
    BY NatLessThanWellFounded
  <1>3. \E x \in D : \A y \in D : ~(<<y, x>> \in OpToRel(<, Nat))
    BY <1>1, <1>2, WFMin
  <1>4. PICK x \in D : \A y \in D : ~(y < x)
    BY <1>1, <1>3 DEF OpToRel
  <1>5. PICK m \in C : x = n - m
    OBVIOUS
  <1>6. \A j \in C : ~(n - j < n - m)
    BY <1>4, <1>5
  <1>7. QED  BY <1>6

\* At most one index is the latest compaction.
LEMMA CompactionsUnique ==
  ASSUME NEW s \in Seq(Item), NEW i \in Compactions(s)
  PROVE  /\ Compactions(s) = {i}
         /\ i \in 1..Len(s)
         /\ s[i].kind = "compaction"
  <1>1. \A j \in Compactions(s) : j = i
    BY DEF Compactions
  <1>2. QED  BY <1>1 DEF Compactions

\* The two cases of the pruned window, without the CHOOSE.
LEMMA PruneCases ==
  ASSUME NEW s \in Seq(Item)
  PROVE  /\ Compactions(s) = {} => prune_to_latest_compaction(s) = s
         /\ \A i \in Compactions(s) :
              prune_to_latest_compaction(s) = SubSeq(s, i, Len(s))
  <1>1. ASSUME NEW i \in Compactions(s)
        PROVE  prune_to_latest_compaction(s) = SubSeq(s, i, Len(s))
    <2>1. Compactions(s) = {i}  BY CompactionsUnique
    <2>2. (CHOOSE k \in Compactions(s) : TRUE) = i  BY <2>1
    <2>3. QED  BY <2>1, <2>2 DEF prune_to_latest_compaction
  <1>2. QED  BY <1>1 DEF prune_to_latest_compaction

\* Pruning keeps a sequence of items.
LEMMA PruneType ==
  ASSUME NEW s \in Seq(Item)
  PROVE  prune_to_latest_compaction(s) \in Seq(Item)
  <1>1. CASE Compactions(s) = {}
    BY <1>1, PruneCases
  <1>2. ASSUME NEW i \in Compactions(s)
        PROVE  SubSeq(s, i, Len(s)) \in Seq(Item)
    <2>1. i \in 1..Len(s)  BY CompactionsUnique
    <2>2. QED  BY <2>1, SubSeqProperties, ElementOfSeq
  <1>3. QED  BY <1>1, <1>2, PruneCases

\* An ordinary item extends the pruned window like the full log.
LEMMA PruneAppend ==
  ASSUME NEW s \in Seq(Item), NEW x \in Item, x.kind # "compaction"
  PROVE  prune_to_latest_compaction(Append(s, x))
           = Append(prune_to_latest_compaction(s), x)
  <1> DEFINE t == Append(s, x)
  <1>1. /\ t \in Seq(Item) /\ Len(t) = Len(s) + 1
        /\ t[Len(s) + 1] = x
        /\ \A j \in 1..Len(s) : t[j] = s[j]
    OBVIOUS
  <1>2. Compactions(t) = Compactions(s)
    BY <1>1 DEF Compactions
  <1>3. CASE Compactions(s) = {}
    BY <1>1, <1>2, <1>3, PruneCases
  <1>4. ASSUME NEW i \in Compactions(s)
        PROVE  prune_to_latest_compaction(t)
                 = Append(prune_to_latest_compaction(s), x)
    <2>1. i \in 1..Len(s)  BY CompactionsUnique
    <2>2. prune_to_latest_compaction(s) = SubSeq(s, i, Len(s))
      BY PruneCases
    <2>3. prune_to_latest_compaction(t) = SubSeq(t, i, Len(t))
      BY <1>1, <1>2, PruneCases
    <2>4. SubSeq(t, i, Len(s) + 1) = Append(SubSeq(s, i, Len(s)), x)
      <3> DEFINE a == SubSeq(t, i, Len(s) + 1)
                 b == SubSeq(s, i, Len(s))
      <3>1. \A j \in i..Len(s)+1 : t[j] \in Item
        BY <1>1, <2>1, ElementOfSeq
      <3>2. \A j \in i..Len(s) : s[j] \in Item
        BY <2>1, ElementOfSeq
      <3>3. /\ a \in Seq(Item) /\ Len(a) = Len(s) - i + 2
            /\ \A j \in 1..Len(s)-i+2 : a[j] = t[i + j - 1]
        BY <2>1, <3>1, SubSeqProperties
      <3>4. /\ b \in Seq(Item) /\ Len(b) = Len(s) - i + 1
            /\ \A j \in 1..Len(s)-i+1 : b[j] = s[i + j - 1]
        BY <2>1, <3>2, SubSeqProperties
      <3>5. /\ Append(b, x) \in Seq(Item) /\ Len(Append(b, x)) = Len(a)
            /\ Append(b, x)[Len(s) - i + 2] = x
            /\ \A j \in 1..Len(s)-i+1 : Append(b, x)[j] = b[j]
        BY <2>1, <3>3, <3>4
      <3>6. \A j \in 1..Len(a) : a[j] = Append(b, x)[j]
        <4> TAKE j \in 1..Len(a)
        <4>1. CASE j = Len(s) - i + 2
          BY <4>1, <1>1, <2>1, <3>3, <3>5
        <4>2. CASE j \in 1..Len(s)-i+1
          <5>1. i + j - 1 \in 1..Len(s)  BY <4>2, <2>1
          <5>2. a[j] = s[i + j - 1]  BY <4>2, <5>1, <1>1, <2>1, <3>3
          <5>3. QED  BY <4>2, <5>2, <3>4, <3>5
        <4>3. QED  BY <4>1, <4>2, <2>1, <3>3
      <3>7. QED  BY <3>3, <3>5, <3>6, SeqEqual
    <2>5. QED  BY <1>1, <2>2, <2>3, <2>4
  <1>5. QED  BY <1>3, <1>4

\* A compaction item is all that is left of the log it ends.
LEMMA PruneCompaction ==
  ASSUME NEW s \in Seq(Item), NEW x \in Item, x.kind = "compaction"
  PROVE  prune_to_latest_compaction(Append(s, x)) = <<x>>
  <1> DEFINE t == Append(s, x)
             n == Len(s) + 1
  <1>1. t \in Seq(Item) /\ Len(t) = n /\ t[n] = x /\ n \in Nat \ {0}
    OBVIOUS
  <1>2. n \in Compactions(t)
    BY <1>1 DEF Compactions
  <1>3. prune_to_latest_compaction(t) = SubSeq(t, n, n)
    BY <1>1, <1>2, PruneCases
  <1>4. /\ SubSeq(t, n, n) \in Seq(Item) /\ Len(SubSeq(t, n, n)) = 1
        /\ SubSeq(t, n, n)[1] = x
    BY <1>1, SubSeqProperties
  <1>5. <<x>> \in Seq(Item) /\ Len(<<x>>) = 1 /\ <<x>>[1] = x
    OBVIOUS
  <1>6. SubSeq(t, n, n) = <<x>>
    <2>1. \A i \in 1..Len(SubSeq(t, n, n)) : SubSeq(t, n, n)[i] = <<x>>[i]
      BY <1>4, <1>5
    <2>2. QED  BY <1>4, <1>5, <2>1, SeqEqual
  <1>7. QED  BY <1>3, <1>6

\* A prefix of a pruned window is its own pruned window.
LEMMA PrunePrefix ==
  ASSUME NEW s \in Seq(Item), NEW n \in 0..Len(prune_to_latest_compaction(s))
  PROVE  LET w == SubSeq(prune_to_latest_compaction(s), 1, n)
         IN  w \in Seq(Item) /\ prune_to_latest_compaction(w) = w
  <1> DEFINE p == prune_to_latest_compaction(s)
             w == SubSeq(p, 1, n)
  <1>1. p \in Seq(Item)  BY PruneType
  <1>2. \A i \in 2..Len(p) : p[i].kind # "compaction"
    <2>1. CASE Compactions(s) = {}
      <3>1. p = s  BY <2>1, PruneCases
      <3>2. \A i \in 1..Len(s) : s[i].kind # "compaction"
        <4> SUFFICES ASSUME NEW i \in 1..Len(s), s[i].kind = "compaction"
                     PROVE  FALSE
          OBVIOUS
        <4> DEFINE C == {j \in 1..Len(s) : s[j].kind = "compaction"}
        <4> HIDE DEF C
        <4>0. C \subseteq 1..Len(s) /\ C # {} /\ Len(s) \in Nat
          BY DEF C
        <4>1. \E m \in C : \A j \in C : j <= m
          BY <4>0, LastIndex
        <4>2. QED  BY <4>1, <2>1 DEF C, Compactions
      <3>3. QED  BY <3>1, <3>2
    <2>2. ASSUME NEW i \in Compactions(s)
          PROVE  \A j \in 2..Len(p) : p[j].kind # "compaction"
      <3>1. i \in 1..Len(s) /\ p = SubSeq(s, i, Len(s))
        BY CompactionsUnique, PruneCases
      <3>2. /\ Len(p) = Len(s) - i + 1
            /\ \A j \in 1..Len(s)-i+1 : p[j] = s[i + j - 1]
        BY <3>1, SubSeqProperties, ElementOfSeq
      <3>3. QED  BY <3>1, <3>2 DEF Compactions
    <2>3. QED  BY <2>1, <2>2
  <1>3. w \in Seq(Item) /\ Len(w) = n /\ \A j \in 1..n : w[j] = p[j]
    BY <1>1, SubSeqProperties, ElementOfSeq
  <1>4. \A i \in Compactions(w) : i = 1
    BY <1>1, <1>2, <1>3 DEF Compactions
  <1>5. prune_to_latest_compaction(w) = w
    <2>1. CASE Compactions(w) = {}
      BY <1>3, <2>1, PruneCases
    <2>2. CASE 1 \in Compactions(w)
      BY <1>3, <2>2, PruneCases, SubSeqFull
    <2>3. QED  BY <1>4, <2>1, <2>2
  <1>6. QED  BY <1>3, <1>5

-----------------------------------------------------------------------------
(* The type invariant. *)

\* An appended item keeps both sequences well typed.
LEMMA AppendType ==
  ASSUME TypeOK, NEW x \in Item, AppendItem(x)
  PROVE  /\ file' \in Seq(Item) /\ items' \in Seq(Item)
         /\ torn' \in BOOLEAN /\ skewed' \in BOOLEAN
  <1>1. file' \in Seq(Item) /\ items' \in Seq(Item)
    BY DEF TypeOK, SequencesOK, AppendItem, Record
  <1>2. torn' \in BOOLEAN /\ skewed' \in BOOLEAN
    BY Zenon DEF TypeOK, FlagsOK, AppendItem, Record
  <1>3. QED  BY <1>1, <1>2

\* Every entry the loop writes is an item.
LEMMA EntryType ==
  ASSUME NEW k \in Kinds, NEW n \in Nat
  PROVE  Entry(k, n) \in Item /\ Entry(k, n).kind = k
  BY DEF Entry, Item

\* The empty sequence, with which a run and a window start.
LEMMA EmptyType == <<>> \in Seq(Nat) /\ <<>> \in Seq(Item)
  OBVIOUS

\* The locals of a run that ended are well typed.
LEMMA ClearedType ==
  ASSUME ClearLocals
  PROVE  /\ calls' = <<>> /\ calls' \in Seq(Nat) /\ respStart' \in Nat
         /\ emittedText' \in BOOLEAN /\ toolRounds' \in 0..MaxSteps
         /\ autoTurns' \in Nat /\ sawAnswer' \in BOOLEAN /\ requests' \in Nat
  <1>1. calls' = <<>> /\ calls' \in Seq(Nat)
    BY EmptyType DEF ClearLocals
  <1>2. emittedText' \in BOOLEAN /\ sawAnswer' \in BOOLEAN
    BY DEF ClearLocals
  <1>3. respStart' \in Nat /\ autoTurns' \in Nat /\ requests' \in Nat
    BY DEF ClearLocals
  <1>4. toolRounds' \in 0..MaxSteps
    BY LoopAssumption DEF ClearLocals
  <1>5. QED  BY <1>1, <1>2, <1>3, <1>4

(* Every reachable state of the loop is well typed: the steering queue      *)
(* never exceeds its capacity, the tool budget never exceeds max_steps, and *)
(* a batch that is being invoked is never empty (agent.py:298-301).         *)
THEOREM TypeCorrect == Spec => []TypeOK
  <1> USE LoopAssumption
  <1>1. Init => TypeOK
    <2> SUFFICES ASSUME Init PROVE TypeOK
      OBVIOUS
    <2>a. SequencesOK
      BY EmptyType DEF Init, SequencesOK, FlagsOK, CountersOK, ControlOK,
        Running, Outcomes
    <2>b. FlagsOK
      BY Zenon, EmptyType DEF Init, SequencesOK, FlagsOK, CountersOK, ControlOK,
        Running, Outcomes
    <2>c. CountersOK
      BY EmptyType DEF Init, SequencesOK, FlagsOK, CountersOK, ControlOK,
        Running, Outcomes
    <2>d. ControlOK
      BY EmptyType DEF Init, SequencesOK, FlagsOK, CountersOK, ControlOK,
        Running, Outcomes
    <2>e. QED  BY <2>a, <2>b, <2>c, <2>d DEF TypeOK
  <1>2. TypeOK /\ [Next]_vars => TypeOK'
    <2> SUFFICES ASSUME TypeOK, [Next]_vars PROVE TypeOK'
      OBVIOUS
    <2> USE DEF TypeOK, SequencesOK, FlagsOK, CountersOK, ControlOK, Running,
                Outcomes
    <2>1. CASE run
      <3>1. Entry("prompt", 0) \in Item  BY EntryType DEF Kinds
      <3>2. CASE AppendItem(Entry("prompt", 0))
        BY <2>1, <3>1, <3>2, AppendType DEF run, bounds, locals, ids
      <3>3. CASE UNCHANGED <<disk, items, skewed>>
        BY <2>1, <3>3 DEF run, disk, bounds, locals, ids
      <3>4. QED  BY <2>1, <3>2, <3>3 DEF run
    <2>1a. CASE MentionError
      BY <2>1a DEF MentionError, disk, bounds, locals, ids
    <2>1b. CASE LastLook
      BY <2>1b DEF LastLook, disk, bounds, locals, ids
    <2>2. CASE DrainSteering
      <3>1. Head(steering) \in Nat /\ Tail(steering) \in Seq(Nat)
            /\ Len(Tail(steering)) <= SteerCap
        BY <2>2 DEF DrainSteering
      <3>2. Entry("steer", Head(steering)) \in Item
        BY <3>1, EntryType DEF Kinds
      <3>3. QED
        BY <2>2, <3>1, <3>2, AppendType DEF DrainSteering, bounds, locals, ids
    <2>3. CASE Request
      <3>a. SequencesOK'
        BY <2>3, EmptyType DEF Request, disk, bounds, ids
      <3>b. FlagsOK'
        BY Zenon, <2>3, EmptyType DEF Request, disk, bounds, ids
      <3>c. CountersOK'
        BY <2>3, EmptyType DEF Request, disk, bounds, ids
      <3>d. ControlOK'
        BY <2>3, EmptyType DEF Request, disk, bounds, ids
      <3>e. QED  BY <3>a, <3>b, <3>c, <3>d
    <2>4. CASE TextDelta
      BY <2>4 DEF TextDelta, disk, bounds, ids
    <2>5. CASE PlainItem
      <3>1. PICK k \in {"reasoning", "message"} :
              AppendItem(Entry(k, 0)) /\ sawAnswer' = (sawAnswer \/ k = "message")
        BY <2>5 DEF PlainItem
      <3>2. Entry(k, 0) \in Item  BY EntryType DEF Kinds
      <3>3. QED  BY <2>5, <3>1, <3>2, AppendType DEF PlainItem, ids
    <2>6. CASE CallItem
      <3>1. Entry("call", nextCall) \in Item  BY EntryType DEF Kinds
      <3>2. cut' \subseteq Nat
        <4>1. cut' \in {cut, cut \cup {nextCall}}
          BY <2>6 DEF CallItem
        <4>2. QED  BY <4>1
      <3>3. QED  BY <2>6, <3>1, <3>2, AppendType DEF CallItem
    <2>7. CASE CompactionItem
      <3>1. Entry("compaction", 0) \in Item  BY EntryType DEF Kinds
      <3>2. Append(items, Entry("compaction", 0)) \in Seq(Item)  BY <3>1
      <3>3. items' \in Seq(Item)
        BY <2>7, <3>2, PruneType DEF CompactionItem
      <3>4. SeqSet(calls) \subseteq Nat
        BY DEF SeqSet
      <3>a. SequencesOK'
        BY <2>7, <3>1, <3>3, <3>4 DEF CompactionItem, Record, ids
      <3>b. FlagsOK'
        BY Zenon, <2>7, <3>1, <3>3, <3>4 DEF CompactionItem, Record, ids
      <3>c. CountersOK'
        <4>1. /\ cut' = cut \cup SeqSet(calls) /\ out' = out + 1
              /\ UNCHANGED <<respStart, toolRounds, autoTurns, runs, crashes,
                             forks, nextCall, nextSteer, requests, mark>>
          BY <2>7 DEF CompactionItem, ids
        <4>2. cut' \subseteq Nat
          BY <3>4, <4>1
        <4>3. QED  BY <4>1, <4>2
      <3>d. ControlOK'
        BY <2>7, <3>1, <3>3, <3>4 DEF CompactionItem, Record, ids
      <3>e. QED  BY <3>a, <3>b, <3>c, <3>d
    <2>8. CASE StreamError
      <3>1. SeqSet(calls) \subseteq Nat
        BY DEF SeqSet
      <3>2. QED
        BY <2>8, <3>1, ClearedType DEF StreamError, EndRun, disk, bounds, ids
    <2>9. CASE StreamEnd
      <3>1. CASE UNCHANGED locals /\ (pc' = "answered" \/ (pc' = "invoke" /\ calls # <<>>))
        <4>1. /\ UNCHANGED <<disk, items, steering, pending, bounds, ids, skewed, cut>>
              /\ mark' \in {mark, nextSteer}
          BY <2>9 DEF StreamEnd
        <4>2. outcome' \in Outcomes
          BY <2>9 DEF StreamEnd, EndRun
        <4>3. QED
          BY <3>1, <4>1, <4>2 DEF disk, bounds, locals, ids
      <3>2. CASE EndRun("empty")
        BY <2>9, <3>2, ClearedType DEF StreamEnd, EndRun, disk, bounds, ids
      <3>3. QED  BY <2>9, <3>1, <3>2 DEF StreamEnd
    <2>10. CASE SteerAfterAnswer
      <3>1. Head(steering) \in Nat /\ Tail(steering) \in Seq(Nat)
            /\ Len(Tail(steering)) <= SteerCap
        BY <2>10 DEF SteerAfterAnswer
      <3>2. Entry("steer", Head(steering)) \in Item
        BY <3>1, EntryType DEF Kinds
      <3>3. /\ file' \in Seq(Item) /\ items' \in Seq(Item)
            /\ torn' \in BOOLEAN /\ skewed' \in BOOLEAN
        BY <2>10, <3>2, AppendType DEF SteerAfterAnswer, Continue
      <3>a. SequencesOK'
        BY <2>10, <3>1, <3>3 DEF SteerAfterAnswer, Continue
      <3>b. FlagsOK'
        BY <2>10, <3>3 DEF SteerAfterAnswer, Continue
      <3>c. CountersOK'
        BY <2>10 DEF SteerAfterAnswer, Continue, bounds, ids
      <3>d. ControlOK'
        BY <2>10 DEF SteerAfterAnswer, Continue
      <3>e. QED  BY <3>a, <3>b, <3>c, <3>d
    <2>11. CASE ContinueAlone
      <3>1. Entry("auto", 0) \in Item
        BY EntryType DEF Kinds
      <3>a. SequencesOK'
        BY <2>11, <3>1, AppendType DEF ContinueAlone, Continue, bounds, ids
      <3>b. FlagsOK'
        BY Zenon, <2>11, <3>1, AppendType DEF ContinueAlone, Continue, bounds, ids
      <3>c. CountersOK'
        <4>1. /\ autoTurns' = autoTurns + 1 /\ toolRounds' = 0
              /\ UNCHANGED <<respStart, runs, out, crashes, forks, nextCall,
                             nextSteer, requests, cut, mark>>
          BY <2>11 DEF ContinueAlone, Continue, bounds, ids
        <4>2. QED  BY <4>1
      <3>d. ControlOK'
        BY <2>11, <3>1, AppendType DEF ContinueAlone, Continue, bounds, ids
      <3>e. QED  BY <3>a, <3>b, <3>c, <3>d
    <2>12. CASE Return
      BY <2>12, ClearedType DEF Return, EndRun, disk, bounds, ids
    <2>13. CASE Invoke
      <3>1. Head(calls) \in Nat  BY <2>13 DEF Invoke
      <3>2. Entry("output", Head(calls)) \in Item
        BY <3>1, EntryType DEF Kinds
      <3>3. QED
        BY <2>13, <3>2, AppendType DEF Invoke, bounds, locals, ids
    <2>14. CASE AfterResult
      <3>1. Entry("vision", 0) \in Item  BY EntryType DEF Kinds
      <3>2. /\ file' \in Seq(Item) /\ items' \in Seq(Item)
            /\ torn' \in BOOLEAN /\ skewed' \in BOOLEAN
        BY <2>14, <3>1, AppendType DEF AfterResult, disk
      <3>3. Tail(calls) \in Seq(Nat)
        BY <2>14 DEF AfterResult
      <3>a. SequencesOK'
        BY <2>14, <3>2, <3>3, ClearedType, EmptyType DEF AfterResult, EndRun, bounds, ids
      <3>b. FlagsOK'
        BY Zenon, <2>14, <3>2, <3>3, ClearedType, EmptyType DEF AfterResult, EndRun, bounds, ids
      <3>c. CountersOK'
        <4>1. /\ UNCHANGED <<runs, out, crashes, forks, nextCall, nextSteer, cut, mark>>
              /\ \/ UNCHANGED <<respStart, autoTurns, requests>> /\ toolRounds' = toolRounds
                 \/ /\ UNCHANGED <<respStart, autoTurns, requests>>
                    /\ toolRounds' = toolRounds + 1 /\ toolRounds + 1 < MaxSteps
                 \/ ClearLocals
          BY <2>14 DEF AfterResult, EndRun, bounds, ids
        <4>2. CASE ClearLocals
          BY <4>1, <4>2, ClearedType
        <4>3. CASE ~ClearLocals
          <5>1. toolRounds' \in 0..MaxSteps
            BY <4>1, <4>3
          <5>2. QED  BY <4>1, <4>3, <5>1
        <4>4. QED  BY <4>2, <4>3
      <3>d. ControlOK'
        BY <2>14, <3>2, <3>3, ClearedType, EmptyType DEF AfterResult, EndRun, bounds, ids
      <3>e. QED  BY <3>a, <3>b, <3>c, <3>d
    <2>15. CASE steer
      BY <2>15 DEF steer, disk, bounds, locals
    <2>16. CASE Abort
      <3>1. Unanswered \subseteq Nat
        BY DEF Unanswered, SeqSet
      <3>2. QED
        BY <2>16, <3>1, ClearedType DEF Abort, EndRun, disk, bounds, ids
    <2>17. CASE Crash
      <3>1. Unanswered \subseteq Nat
        BY DEF Unanswered, SeqSet
      <3>a. SequencesOK'
        BY <2>17, <3>1, ClearedType, EmptyType DEF Crash, ids
      <3>b. FlagsOK'
        BY Zenon, <2>17, <3>1, ClearedType, EmptyType DEF Crash, ids
      <3>c. CountersOK'
        BY <2>17, <3>1, ClearedType, EmptyType DEF Crash, ids
      <3>d. ControlOK'
        BY <2>17, <3>1, ClearedType, EmptyType DEF Crash, ids
      <3>e. QED  BY <3>a, <3>b, <3>c, <3>d
    <2>18. CASE resume
      BY <2>18, PruneType DEF resume, load_items, disk, bounds, locals, ids
    <2>19. CASE fork_session
      <3>1. PICK n \in 0..Len(load_items(file)) :
              LET branch == SubSeq(load_items(file), 1, n)
              IN  /\ file' = branch /\ items' = branch
                  /\ cut' = cut \cup (CallIds(branch) \ OutputIds(branch))
        BY <2>19 DEF fork_session
      <3> DEFINE branch == SubSeq(load_items(file), 1, n)
      <3>2. branch \in Seq(Item)
        BY PrunePrefix DEF load_items
      <3>3. CallIds(branch) \subseteq Nat
        BY <3>2 DEF CallIds, Item
      <3>a. SequencesOK'
        BY <2>19, <3>1, <3>2, <3>3 DEF fork_session, locals, ids
      <3>b. FlagsOK'
        BY Zenon, <2>19, <3>1, <3>2, <3>3 DEF fork_session, locals, ids
      <3>c. CountersOK'
        <4>1. /\ forks' = forks + 1
              /\ cut' = cut \cup (CallIds(branch) \ OutputIds(branch))
              /\ UNCHANGED <<respStart, toolRounds, autoTurns, runs, out,
                             crashes, nextCall, nextSteer, requests, mark>>
          BY <2>19, <3>1 DEF fork_session, locals, ids
        <4>2. cut' \subseteq Nat
          BY <3>3, <4>1
        <4>3. QED  BY <4>1, <4>2
      <3>d. ControlOK'
        BY <2>19, <3>1, <3>2, <3>3 DEF fork_session, locals, ids
      <3>e. QED  BY <3>a, <3>b, <3>c, <3>d
    <2>20. CASE UNCHANGED vars
      BY <2>20 DEF vars, disk, locals, bounds, ids
    <2>21. QED
      BY <2>1, <2>1a, <2>1b, <2>2, <2>3, <2>4, <2>5, <2>6, <2>7, <2>8, <2>9, <2>10, <2>11,
         <2>12, <2>13, <2>14, <2>15, <2>16, <2>17, <2>18, <2>19, <2>20
      DEF Next
  <1>3. QED  BY <1>1, <1>2, PTL DEF Spec

-----------------------------------------------------------------------------
(* The rollout file restores the live window. *)

\* An ordinary appended item keeps memory and file in step.
LEMMA AppendResume ==
  ASSUME TypeOK, ResumeExact, pc # "down",
         NEW k \in Kinds \ {"compaction"}, NEW n \in Nat,
         AppendItem(Entry(k, n))
  PROVE  ResumeExact'
  <1> DEFINE x == Entry(k, n)
  <1>1. x \in Item /\ x.kind # "compaction"  BY EntryType
  <1>2. file \in Seq(Item) /\ torn \in BOOLEAN /\ skewed \in BOOLEAN
    BY DEF TypeOK, SequencesOK, FlagsOK
  <1>3. SUFFICES ASSUME ~skewed' PROVE items' = load_items(file')
    BY DEF ResumeExact
  <1>4. ~skewed /\ ~torn  BY <1>2, <1>3 DEF AppendItem, Record
  <1>5. file' = Append(file, x) /\ items' = Append(items, x)
    BY <1>4 DEF AppendItem, Record
  <1>6. items = load_items(file)  BY <1>4 DEF ResumeExact
  <1>7. QED  BY <1>1, <1>2, <1>5, <1>6, PruneAppend DEF load_items

\* A step that touches neither side, nor restarts the process, keeps them so.
LEMMA QuietResume ==
  ASSUME ResumeExact, pc # "down" \/ pc' = pc,
         UNCHANGED <<file, items, skewed>>
  PROVE  ResumeExact'
  BY DEF ResumeExact, load_items

(* Whatever was appended, compacted, forked, aborted or crashed before, the *)
(* window of a live process is what session.resume would rebuild from its   *)
(* file, unless a record was glued to a torn line.                          *)
THEOREM ResumeCorrect == Spec => []ResumeExact
  <1>1. Init => ResumeExact
    <2>1. Compactions(<<>>) = {}  BY DEF Compactions
    <2>2. QED  BY <2>1 DEF Init, ResumeExact, load_items,
                           prune_to_latest_compaction
  <1>2. TypeOK /\ ResumeExact /\ [Next]_vars => ResumeExact'
    <2> SUFFICES ASSUME TypeOK, ResumeExact, [Next]_vars PROVE ResumeExact'
      OBVIOUS
    <2> USE DEF Kinds
    <2>1. CASE run
      <3>1. CASE AppendItem(Entry("prompt", 0))
        BY <2>1, <3>1, AppendResume DEF run
      <3>2. CASE UNCHANGED <<disk, items, skewed>>
        BY <2>1, <3>2, QuietResume DEF run, disk
      <3>3. QED  BY <2>1, <3>1, <3>2 DEF run
    <2>2. CASE DrainSteering
      <3>1. Head(steering) \in Nat  BY <2>2 DEF DrainSteering, TypeOK, SequencesOK
      <3>2. QED  BY <2>2, <3>1, AppendResume DEF DrainSteering
    <2>3. CASE \/ Request \/ TextDelta \/ StreamError \/ StreamEnd \/ Return
               \/ MentionError \/ LastLook
      BY <2>3, QuietResume
      DEF MentionError, LastLook, Request, TextDelta, StreamError, StreamEnd, Return, disk
    <2>4. CASE PlainItem
      <3>1. PICK k \in {"reasoning", "message"} : AppendItem(Entry(k, 0))
        BY <2>4 DEF PlainItem
      <3>2. QED  BY <2>4, <3>1, AppendResume DEF PlainItem
    <2>5. CASE CallItem
      <3>1. nextCall \in Nat  BY DEF TypeOK, CountersOK
      <3>2. QED  BY <2>5, <3>1, AppendResume DEF CallItem
    <2>6. CASE CompactionItem
      <3> DEFINE x == Entry("compaction", 0)
      <3>1. x \in Item /\ x.kind = "compaction"  BY EntryType
      <3>2. file \in Seq(Item) /\ items \in Seq(Item)
            /\ torn \in BOOLEAN /\ skewed \in BOOLEAN
        BY DEF TypeOK, SequencesOK, FlagsOK
      <3>3. items' = <<x>>
        BY <2>6, <3>1, <3>2, PruneCompaction DEF CompactionItem
      <3>4. ~skewed' => file' = Append(file, x)
        BY <2>6, <3>2 DEF CompactionItem, Record
      <3>5. QED
        BY <3>1, <3>2, <3>3, <3>4, PruneCompaction DEF ResumeExact, load_items
    <2>7. CASE SteerAfterAnswer
      <3>1. Head(steering) \in Nat  BY <2>7 DEF SteerAfterAnswer, TypeOK,
                                              SequencesOK
      <3>2. QED  BY <2>7, <3>1, AppendResume DEF SteerAfterAnswer, Continue
    <2>8. CASE ContinueAlone
      <3>1. pc # "down" /\ AppendItem(Entry("auto", 0))
        BY <2>8 DEF ContinueAlone, Continue
      <3>2. QED  BY <3>1, AppendResume
    <2>9. CASE Invoke
      <3>1. Head(calls) \in Nat  BY <2>9 DEF Invoke, TypeOK, SequencesOK, ControlOK
      <3>2. QED  BY <2>9, <3>1, AppendResume DEF Invoke
    <2>10. CASE AfterResult
      <3>1. CASE pending
        BY <2>10, <3>1, AppendResume DEF AfterResult
      <3>2. CASE ~pending
        BY <2>10, <3>2, QuietResume DEF AfterResult, disk
      <3>3. QED  BY <3>1, <3>2
    <2>11. CASE steer
      BY <2>11, QuietResume DEF steer, disk
    <2>12. CASE Abort
      BY <2>12, QuietResume DEF Abort, Running, disk
    <2>13. CASE Crash
      BY <2>13 DEF Crash, ResumeExact
    <2>14. CASE resume
      BY <2>14 DEF resume, ResumeExact, load_items, disk
    <2>15. CASE fork_session
      <3>1. PICK n \in 0..Len(load_items(file)) :
              LET branch == SubSeq(load_items(file), 1, n)
              IN  file' = branch /\ items' = branch
        BY <2>15 DEF fork_session
      <3>2. file \in Seq(Item)  BY DEF TypeOK, SequencesOK
      <3>3. QED  BY <3>1, <3>2, PrunePrefix DEF ResumeExact, load_items
    <2>16. CASE UNCHANGED vars
      BY <2>16 DEF vars, disk, ResumeExact, load_items
    <2>17. QED
      BY <2>1, <2>2, <2>3, <2>4, <2>5, <2>6, <2>7, <2>8, <2>9, <2>10, <2>11,
         <2>12, <2>13, <2>14, <2>15, <2>16
      DEF Next
  <1>3. QED  BY <1>1, <1>2, TypeCorrect, PTL DEF Spec

-----------------------------------------------------------------------------
(* Calls and their outputs, in a log s where U are the calls that wait for  *)
(* an output, C the ones that lost their partner, and n is the next id.     *)

Asking == {"call", "output"}
UserSide == {"prompt", "steer", "auto"}

\* The ids of calls and outputs come from the counter.
Numbered(s, n) ==
  \A i \in 1..Len(s) : s[i].kind \in Asking => 1 <= s[i].id /\ s[i].id < n

\* No item of a call follows its output.
Once(s) ==
  \A i, j \in 1..Len(s) :
    i < j /\ s[i].kind = "output" /\ s[j].id = s[i].id => s[j].kind \notin Asking

\* No user-side item stands between a call and its output.
Together(s) ==
  \A i, j, k \in 1..Len(s) :
    i <= k /\ k <= j /\ s[i].kind = "call" /\ s[j].kind = "output" /\ s[i].id = s[j].id
      => s[k].kind \notin UserSide

\* A call that waits has no output, and no user-side item came after it.
Waiting(s, U) ==
  \A i \in 1..Len(s) :
    s[i].kind \in Asking /\ s[i].id \in U =>
      s[i].kind = "call" /\ \A k \in i..Len(s) : s[k].kind \notin UserSide

Transcript(s, n, U) == Numbered(s, n) /\ Once(s) /\ Together(s) /\ Waiting(s, U)

\* Every call has its output and every output its call, but for those.
Paired(s, U, C) ==
  /\ CallIds(s) \subseteq OutputIds(s) \cup C \cup U
  /\ OutputIds(s) \subseteq CallIds(s) \cup C
  /\ U \subseteq CallIds(s) \cup C

LEMMA Appended ==
  ASSUME NEW s \in Seq(Item), NEW x \in Item
  PROVE  LET t == Append(s, x)
         IN  /\ t \in Seq(Item) /\ Len(s) \in Nat /\ Len(t) = Len(s) + 1
             /\ \A i \in 1..Len(t) : i \in 1..Len(s) \/ i = Len(t)
             /\ \A i \in 1..Len(s) : i \in 1..Len(t) /\ i < Len(t) /\ t[i] = s[i]
             /\ Len(t) \in 1..Len(t) /\ t[Len(t)] = x
             /\ \A i \in 1..Len(t) : t[i] \in Item /\ t[i].id \in Nat
  <1> DEFINE t == Append(s, x)
  <1>1. /\ t \in Seq(Item) /\ Len(s) \in Nat /\ Len(t) = Len(s) + 1
        /\ t[Len(s) + 1] = x /\ \A i \in 1..Len(s) : t[i] = s[i]
    OBVIOUS
  <1>2. \A i \in 1..Len(t) : t[i] \in Item
    BY <1>1, ElementOfSeq
  <1> HIDE DEF t
  <1>3. \A i \in 1..Len(t) : t[i].id \in Nat
    BY <1>2 DEF Item
  <1>4. QED  BY <1>1, <1>2, <1>3 DEF t

\* The calls and outputs of a log with one item more.
LEMMA AppendedIds ==
  ASSUME NEW s \in Seq(Item), NEW x \in Item
  PROVE  /\ CallIds(Append(s, x)) = CallIds(s) \cup IF x.kind = "call" THEN {x.id} ELSE {}
         /\ OutputIds(Append(s, x)) =
              OutputIds(s) \cup IF x.kind = "output" THEN {x.id} ELSE {}
  <1> DEFINE t == Append(s, x)
  <1>1. /\ \A i \in 1..Len(t) : i \in 1..Len(s) \/ i = Len(t)
        /\ \A i \in 1..Len(s) : i \in 1..Len(t) /\ t[i] = s[i]
        /\ Len(t) \in 1..Len(t) /\ t[Len(t)] = x
    BY Appended
  <1> HIDE DEF t
  <1>2. CallIds(t) = CallIds(s) \cup IF x.kind = "call" THEN {x.id} ELSE {}
    BY <1>1 DEF CallIds
  <1>3. OutputIds(t) = OutputIds(s) \cup IF x.kind = "output" THEN {x.id} ELSE {}
    BY <1>1 DEF OutputIds
  <1>4. QED  BY <1>2, <1>3 DEF t

LEMMA OtherTranscript ==
  ASSUME NEW s \in Seq(Item), NEW x \in Item, NEW n \in Nat, NEW U, Transcript(s, n, U),
         x.kind \notin Asking, x.kind \in UserSide => U = {}
  PROVE  Transcript(Append(s, x), n, U)
  <1> DEFINE t == Append(s, x)
  <1>1. /\ Len(s) \in Nat /\ Len(t) = Len(s) + 1
        /\ \A i \in 1..Len(t) : i \in 1..Len(s) \/ i = Len(t)
        /\ \A i \in 1..Len(s) : i \in 1..Len(t) /\ i < Len(t) /\ t[i] = s[i]
        /\ t[Len(t)] = x
    BY Appended
  <1> HIDE DEF t
  <1>2. \A i \in 1..Len(t) : t[i].kind \in Asking => i \in 1..Len(s)
    BY <1>1
  <1>3. Numbered(t, n) /\ Once(t)
    BY <1>1, <1>2 DEF Transcript, Numbered, Once
  <1>4. Together(t)
    <2>1. \A j \in 1..Len(s), k \in 1..Len(t) : k <= j => k \in 1..Len(s)
      BY <1>1
    <2>2. QED  BY <1>1, <1>2, <2>1 DEF Transcript, Together, Asking
  <1>5. Waiting(t, U)
    <2> SUFFICES ASSUME NEW i \in 1..Len(t), t[i].kind \in Asking, t[i].id \in U
                 PROVE  t[i].kind = "call" /\ \A k \in i..Len(t) : t[k].kind \notin UserSide
      BY DEF Waiting
    <2>1. i \in 1..Len(s) /\ t[i] = s[i] /\ x.kind \notin UserSide
      BY <1>1, <1>2
    <2>2. s[i].kind = "call" /\ \A k \in i..Len(s) : s[k].kind \notin UserSide
      BY <2>1 DEF Transcript, Waiting
    <2>3. \A k \in i..Len(t) : (k \in i..Len(s) /\ t[k] = s[k]) \/ k = Len(t)
      BY <1>1, <2>1
    <2>4. QED  BY <1>1, <2>1, <2>2, <2>3
  <1>6. QED  BY <1>3, <1>4, <1>5 DEF Transcript, t

LEMMA CallTranscript ==
  ASSUME NEW s \in Seq(Item), NEW x \in Item, NEW n \in Nat \ {0}, NEW U, Transcript(s, n, U),
         x.kind = "call", x.id = n
  PROVE  Transcript(Append(s, x), n + 1, U \cup {n})
  <1> DEFINE t == Append(s, x)
  <1>1. /\ Len(s) \in Nat /\ Len(t) = Len(s) + 1
        /\ \A i \in 1..Len(t) : i \in 1..Len(s) \/ i = Len(t)
        /\ \A i \in 1..Len(s) : i \in 1..Len(t) /\ i < Len(t) /\ t[i] = s[i]
        /\ t[Len(t)] = x
        /\ \A i \in 1..Len(t) : t[i].id \in Nat
    BY Appended
  <1> HIDE DEF t
  <1>2. \A i \in 1..Len(s) : s[i].kind \in Asking => 1 <= s[i].id /\ s[i].id < n
    BY DEF Transcript, Numbered
  <1>3. \A i \in 1..Len(s) : s[i].kind \in Asking => s[i].id # n
    BY <1>1, <1>2
  <1>4. Numbered(t, n + 1)
    BY <1>1, <1>2 DEF Numbered
  <1>5. Once(t)
    BY <1>1, <1>3 DEF Transcript, Once, Asking
  <1>6. Together(t)
    <2>1. \A j \in 1..Len(s), k \in 1..Len(t) : k <= j => k \in 1..Len(s)
      BY <1>1
    <2>2. \A j \in 1..Len(t) : t[j].kind = "output" => j \in 1..Len(s)
      BY <1>1
    <2>3. QED  BY <1>1, <2>1, <2>2 DEF Transcript, Together, Asking
  <1>7. Waiting(t, U \cup {n})
    <2> SUFFICES ASSUME NEW i \in 1..Len(t), t[i].kind \in Asking, t[i].id \in U \cup {n}
                 PROVE  t[i].kind = "call" /\ \A k \in i..Len(t) : t[k].kind \notin UserSide
      BY DEF Waiting
    <2>1. x.kind \notin UserSide
      BY DEF UserSide
    <2>2. CASE i = Len(t)
      BY <1>1, <2>1, <2>2
    <2>3. CASE i \in 1..Len(s)
      <3>1. t[i] = s[i] /\ s[i].id \in U
        BY <1>1, <1>3, <2>3
      <3>2. s[i].kind = "call" /\ \A k \in i..Len(s) : s[k].kind \notin UserSide
        BY <2>3, <3>1 DEF Transcript, Waiting
      <3>3. \A k \in i..Len(t) : (k \in i..Len(s) /\ t[k] = s[k]) \/ k = Len(t)
        BY <1>1, <2>3
      <3>4. QED  BY <1>1, <2>1, <3>1, <3>2, <3>3
    <2>4. QED  BY <1>1, <2>2, <2>3
  <1>8. QED  BY <1>4, <1>5, <1>6, <1>7 DEF Transcript, t

LEMMA OutputTranscript ==
  ASSUME NEW s \in Seq(Item), NEW x \in Item, NEW n \in Nat, NEW U, Transcript(s, n, U),
         x.kind = "output", x.id \in U, 1 <= x.id, x.id < n
  PROVE  Transcript(Append(s, x), n, U \ {x.id})
  <1> DEFINE t == Append(s, x)
  <1>1. /\ Len(s) \in Nat /\ Len(t) = Len(s) + 1
        /\ \A i \in 1..Len(t) : i \in 1..Len(s) \/ i = Len(t)
        /\ \A i \in 1..Len(s) : i \in 1..Len(t) /\ i < Len(t) /\ t[i] = s[i]
        /\ t[Len(t)] = x
    BY Appended
  <1> HIDE DEF t
  <1>2. \A i \in 1..Len(s) : s[i].kind \in Asking /\ s[i].id = x.id =>
          s[i].kind = "call" /\ \A k \in i..Len(s) : s[k].kind \notin UserSide
    BY DEF Transcript, Waiting
  <1>3. x.kind \notin UserSide
    BY DEF UserSide
  <1>4. Numbered(t, n)
    BY <1>1 DEF Transcript, Numbered
  <1>5. Once(t)
    BY <1>1, <1>2 DEF Transcript, Once, Asking
  <1>6. Together(t)
    <2> SUFFICES ASSUME NEW i \in 1..Len(t), NEW j \in 1..Len(t), NEW k \in 1..Len(t),
                        i <= k, k <= j, t[i].kind = "call", t[j].kind = "output",
                        t[i].id = t[j].id
                 PROVE  t[k].kind \notin UserSide
      BY DEF Together
    <2>1. CASE j \in 1..Len(s)
      <3>1. i \in 1..Len(s) /\ k \in 1..Len(s)
        BY <1>1, <2>1
      <3>2. QED  BY <1>1, <2>1, <3>1 DEF Transcript, Together
    <2>2. CASE j = Len(t)
      <3>1. i \in 1..Len(s) /\ t[i] = s[i]
        BY <1>1
      <3>2. \A l \in i..Len(s) : s[l].kind \notin UserSide
        BY <1>1, <1>2, <2>2, <3>1 DEF Asking
      <3>3. (k \in i..Len(s) /\ t[k] = s[k]) \/ k = Len(t)
        BY <1>1, <3>1
      <3>4. QED  BY <1>1, <1>3, <3>2, <3>3
    <2>3. QED  BY <1>1, <2>1, <2>2
  <1>7. Waiting(t, U \ {x.id})
    <2> SUFFICES ASSUME NEW i \in 1..Len(t), t[i].kind \in Asking, t[i].id \in U \ {x.id}
                 PROVE  t[i].kind = "call" /\ \A k \in i..Len(t) : t[k].kind \notin UserSide
      BY DEF Waiting
    <2>1. i \in 1..Len(s) /\ t[i] = s[i]
      BY <1>1
    <2>2. s[i].kind = "call" /\ \A k \in i..Len(s) : s[k].kind \notin UserSide
      BY <2>1 DEF Transcript, Waiting
    <2>3. \A k \in i..Len(t) : (k \in i..Len(s) /\ t[k] = s[k]) \/ k = Len(t)
      BY <1>1, <2>1
    <2>4. QED  BY <1>1, <1>3, <2>1, <2>2, <2>3
  <1>8. QED  BY <1>4, <1>5, <1>6, <1>7 DEF Transcript, t

\* A part of a log, when no call waits.
LEMMA PartTranscript ==
  ASSUME NEW s \in Seq(Item), NEW n \in Nat, Transcript(s, n, {}),
         NEW a \in 1..(Len(s) + 1), NEW b \in 0..Len(s)
  PROVE  Transcript(SubSeq(s, a, b), n, {})
  <1> DEFINE t == SubSeq(s, a, b)
             at(i) == a + i - 1
  <1>1. /\ Len(s) \in Nat /\ a \in Nat /\ b \in Nat
        /\ \A i \in a..b : s[i] \in Item
    BY ElementOfSeq
  <1>2. Len(t) = IF a <= b THEN b - a + 1 ELSE 0
    BY <1>1, SubSeqProperties
  <1>3. \A i \in 1..Len(t) : t[i] = s[at(i)]
    BY <1>1, SubSeqProperties
  <1> HIDE DEF t
  <1>4. \A i \in 1..Len(t) : at(i) \in 1..Len(s)
    BY <1>1, <1>2
  <1>5. \A i, j \in 1..Len(t) : (i < j => at(i) < at(j)) /\ (i <= j => at(i) <= at(j))
    BY <1>1
  <1> HIDE DEF at
  <1>6. Numbered(t, n)
    BY <1>3, <1>4 DEF Transcript, Numbered
  <1>7. Once(t)
    BY <1>3, <1>4, <1>5 DEF Transcript, Once
  <1>8. Together(t)
    <2> SUFFICES ASSUME NEW i \in 1..Len(t), NEW j \in 1..Len(t), NEW k \in 1..Len(t),
                        i <= k, k <= j, t[i].kind = "call", t[j].kind = "output",
                        t[i].id = t[j].id
                 PROVE  t[k].kind \notin UserSide
      BY DEF Together
    <2>1. /\ at(i) \in 1..Len(s) /\ at(j) \in 1..Len(s) /\ at(k) \in 1..Len(s)
          /\ at(i) <= at(k) /\ at(k) <= at(j)
          /\ t[i] = s[at(i)] /\ t[j] = s[at(j)] /\ t[k] = s[at(k)]
      BY <1>3, <1>4, <1>5
    <2>2. s[at(k)].kind \notin UserSide
      BY <2>1 DEF Transcript, Together
    <2>3. QED  BY <2>1, <2>2
  <1>9. QED  BY <1>6, <1>7, <1>8 DEF Transcript, Waiting, t

\* Fewer calls wait.
LEMMA FewerWait ==
  ASSUME NEW s, NEW n, NEW U, Transcript(s, n, U), NEW V \in SUBSET U
  PROVE  Transcript(s, n, V)
  BY DEF Transcript, Waiting

-----------------------------------------------------------------------------
(* Windows: the calls and outputs that lack their partner. *)

LEMMA OtherPaired ==
  ASSUME NEW s \in Seq(Item), NEW x \in Item, NEW U, NEW C, Paired(s, U, C),
         x.kind \notin Asking
  PROVE  Paired(Append(s, x), U, C)
  BY AppendedIds DEF Paired, Asking

LEMMA CallPaired ==
  ASSUME NEW s \in Seq(Item), NEW x \in Item, NEW U, NEW C, Paired(s, U, C),
         x.kind = "call"
  PROVE  Paired(Append(s, x), U \cup {x.id}, C)
  BY AppendedIds DEF Paired

\* A call that reached only one of the windows is cut off.
LEMMA GluedPaired ==
  ASSUME NEW s, NEW U, NEW C, NEW n, Paired(s, U, C)
  PROVE  Paired(s, U, C \cup {n}) /\ Paired(s, U \cup {n}, C \cup {n})
  BY DEF Paired

LEMMA OutputPaired ==
  ASSUME NEW s \in Seq(Item), NEW x \in Item, NEW U, NEW C, Paired(s, U, C),
         x.kind = "output", x.id \in U
  PROVE  Paired(Append(s, x), U \ {x.id}, C)
  BY AppendedIds DEF Paired

\* The calls that waited are cut off.
LEMMA CutPaired ==
  ASSUME NEW s, NEW U, NEW C, Paired(s, U, C)
  PROVE  Paired(s, {}, C \cup U)
  BY DEF Paired

LEMMA CompactionPaired ==
  ASSUME NEW x \in Item, x.kind = "compaction", NEW U, NEW C
  PROVE  Paired(<<x>>, U, C \cup U)
  <1>1. Len(<<x>>) = 1 /\ <<x>>[1] = x
    OBVIOUS
  <1>2. \A i \in 1..Len(<<x>>) : <<x>>[i].kind \notin Asking
    BY <1>1 DEF Asking
  <1>3. CallIds(<<x>>) = {} /\ OutputIds(<<x>>) = {}
    BY <1>2 DEF CallIds, OutputIds, Asking
  <1>4. QED  BY <1>3 DEF Paired

LEMMA EmptyPaired ==
  ASSUME NEW C
  PROVE  Paired(<<>>, {}, C)
  BY DEF Paired, CallIds, OutputIds

\* A prefix of a window: what it cuts off is a call without its output.
LEMMA BranchPaired ==
  ASSUME NEW s \in Seq(Item), NEW C, Once(s), Paired(s, {}, C), NEW n \in 0..Len(s)
  PROVE  LET t == SubSeq(s, 1, n)
         IN  Paired(t, {}, C \cup (CallIds(t) \ OutputIds(t)))
  <1> DEFINE t == SubSeq(s, 1, n)
  <1>1. Len(s) \in Nat /\ n \in Nat /\ \A i \in 1..n : s[i] \in Item
    BY ElementOfSeq
  <1>2. Len(t) = n /\ \A i \in 1..n : i \in 1..Len(s) /\ t[i] = s[i]
    BY <1>1, SubSeqProperties
  <1> HIDE DEF t
  <1>3. ASSUME NEW d \in OutputIds(t)
        PROVE  d \in CallIds(t) \cup C
    <2>1. PICK j \in 1..n : s[j].kind = "output" /\ s[j].id = d
      BY <1>2, <1>3 DEF OutputIds
    <2>2. d \in CallIds(s) \cup C
      BY <1>2, <2>1 DEF Paired, OutputIds
    <2>3. ASSUME NEW i \in 1..Len(s), s[i].kind = "call", s[i].id = d
          PROVE  d \in CallIds(t)
      <3>1. ~(j < i)
        BY <1>2, <2>1, <2>3 DEF Once, Asking
      <3>2. i \in 1..n
        BY <1>1, <3>1
      <3>3. QED  BY <1>2, <2>3, <3>2 DEF CallIds
    <2>4. QED  BY <2>2, <2>3 DEF CallIds
  <1>4. Paired(t, {}, C \cup (CallIds(t) \ OutputIds(t)))
    BY <1>3 DEF Paired
  <1>5. QED  BY <1>4 DEF t

\* The window of a log is a part of it.
LEMMA WindowTranscript ==
  ASSUME NEW s \in Seq(Item), NEW n \in Nat, Transcript(s, n, {})
  PROVE  load_items(s) \in Seq(Item) /\ Transcript(load_items(s), n, {})
  <1>1. load_items(s) \in Seq(Item)
    BY PruneType DEF load_items
  <1>2. CASE Compactions(s) = {}
    BY <1>2, <1>1, PruneCases DEF load_items
  <1>3. ASSUME NEW i \in Compactions(s)
        PROVE  Transcript(load_items(s), n, {})
    <2>1. i \in 1..Len(s) /\ load_items(s) = SubSeq(s, i, Len(s))
      BY PruneCases DEF load_items, Compactions
    <2>2. Len(s) \in Nat /\ i \in 1..(Len(s) + 1) /\ Len(s) \in 0..Len(s)
      BY <2>1
    <2>3. QED  BY <2>1, <2>2, PartTranscript
  <1>4. QED  BY <1>1, <1>2, <1>3

-----------------------------------------------------------------------------
(* The batch of the current response. *)

\* Only a response has a batch and its calls are distinct.  The line that a
\* torn file swallows is the first of a process: no call of a batch precedes it.
BatchInv ==
  /\ pc \notin {"streaming", "invoke", "yielded"} => calls = <<>>
  /\ \A i, j \in 1..Len(calls) : i < j => calls[i] < calls[j]
  /\ \A i \in 1..Len(calls) : 1 <= calls[i] /\ calls[i] < nextCall
  /\ torn => calls = <<>>

\* What the log and the windows say of the batch.
LogInv ==
  /\ Transcript(file, nextCall, Unanswered)
  /\ Paired(items, Unanswered, cut)
  /\ Paired(load_items(file), Unanswered, cut)

LEMMA NoBatch ==
  ASSUME calls = <<>>
  PROVE  Unanswered = {}
  BY DEF Unanswered, SeqSet

\* Without its first call, a batch is one id less.
LEMMA RestOfBatch ==
  ASSUME NEW b \in Seq(Nat), b # <<>>,
         \A i, j \in 1..Len(b) : i < j => b[i] < b[j]
  PROVE  /\ {b[i] : i \in 2..Len(b)} = SeqSet(b) \ {Head(b)}
         /\ {b[i] : i \in 2..Len(b)} = SeqSet(Tail(b))
         /\ Head(b) \in SeqSet(b) /\ Tail(b) \in Seq(Nat)
         /\ \A i \in 1..Len(Tail(b)) :
              i \in 1..Len(b) /\ i + 1 \in 1..Len(b) /\ Tail(b)[i] = b[i + 1]
  <1>1. /\ Len(b) \in Nat \ {0} /\ Head(b) = b[1] /\ Tail(b) \in Seq(Nat)
        /\ Len(Tail(b)) = Len(b) - 1
        /\ \A i \in 1..Len(Tail(b)) : Tail(b)[i] = b[i + 1]
    OBVIOUS
  <1>2. \A i \in 1..Len(b) : b[i] \in Nat
    OBVIOUS
  <1>3. \A i \in 2..Len(b) : i \in 1..Len(b) /\ b[i] # b[1]
    BY <1>1, <1>2
  <1>4. \A i \in 1..Len(b) : i = 1 \/ i \in 2..Len(b)
    BY <1>1
  <1>5. {b[i] : i \in 2..Len(b)} = SeqSet(b) \ {Head(b)}
    BY <1>1, <1>3, <1>4 DEF SeqSet
  <1>6. \A i \in 1..Len(Tail(b)) : i \in 1..Len(b) /\ i + 1 \in 1..Len(b) /\ i + 1 \in 2..Len(b)
    BY <1>1
  <1>7. \A i \in 2..Len(b) : i - 1 \in 1..Len(Tail(b)) /\ b[i] = Tail(b)[i - 1]
    BY <1>1
  <1>8. {b[i] : i \in 2..Len(b)} = SeqSet(Tail(b))
    <2>1. ASSUME NEW i \in 2..Len(b)
          PROVE  b[i] \in SeqSet(Tail(b))
      BY <1>7 DEF SeqSet
    <2>2. ASSUME NEW i \in 1..Len(Tail(b))
          PROVE  Tail(b)[i] \in {b[j] : j \in 2..Len(b)}
      BY <1>1, <1>6
    <2>3. QED  BY <2>1, <2>2 DEF SeqSet
  <1>9. Head(b) \in SeqSet(b)
    BY <1>1 DEF SeqSet
  <1>10. QED  BY <1>1, <1>5, <1>6, <1>8, <1>9

\* A step that leaves the batch as it was, or ends it.
LEMMA BatchKeeps ==
  ASSUME TypeOK, BatchInv, nextCall' = nextCall,
         \/ calls' = <<>>
         \/ calls' = calls /\ pc' \in {"streaming", "invoke", "yielded"}
         \/ calls' = calls /\ pc \notin {"streaming", "invoke", "yielded"},
         torn' => calls' = <<>>
  PROVE  BatchInv'
  <1>1. CASE calls' = <<>>
    BY <1>1 DEF BatchInv
  <1>2. CASE calls' = calls
    BY <1>2 DEF BatchInv
  <1>3. QED  BY <1>1, <1>2

LEMMA BatchNext == TypeOK /\ BatchInv /\ [Next]_vars => BatchInv'
  <1> SUFFICES ASSUME TypeOK, BatchInv, [Next]_vars PROVE BatchInv'
    OBVIOUS
  <1>1. CASE run \/ DrainSteering \/ SteerAfterAnswer \/ ContinueAlone
    <2>1. CASE UNCHANGED <<disk, items, skewed>> /\ run
      BY <2>1, BatchKeeps DEF run, disk, locals, ids, BatchInv
    <2>2. CASE \/ run /\ AppendItem(Entry("prompt", 0))
               \/ DrainSteering \/ SteerAfterAnswer \/ ContinueAlone
      BY <2>2, BatchKeeps
      DEF run, DrainSteering, SteerAfterAnswer, ContinueAlone, Continue, AppendItem,
          Record, locals, ids
    <2>3. QED  BY <1>1, <2>1, <2>2 DEF run
  <1>2. CASE Request \/ TextDelta \/ MentionError \/ LastLook
    BY <1>2, BatchKeeps
    DEF Request, TextDelta, MentionError, LastLook, BatchInv, disk, locals, ids
  <1>3. CASE PlainItem \/ CompactionItem \/ Invoke
    BY <1>3, BatchKeeps
    DEF PlainItem, CompactionItem, Invoke, AppendItem, Record, locals, ids
  <1>4. CASE CallItem
    <2>1. /\ calls \in Seq(Nat) /\ Len(calls) \in Nat /\ nextCall \in Nat \ {0}
          /\ \A i \in 1..Len(calls) : calls[i] \in Nat
      BY DEF TypeOK, SequencesOK, CountersOK
    <2>2. /\ calls' = Append(calls, nextCall) /\ nextCall' = nextCall + 1
          /\ pc' = "streaming" /\ torn' = FALSE
      BY <1>4 DEF CallItem, AppendItem, Record
    <2>3. /\ Len(calls') = Len(calls) + 1 /\ calls'[Len(calls) + 1] = nextCall
          /\ \A i \in 1..Len(calls) : calls'[i] = calls[i]
          /\ \A i \in 1..Len(calls') : i \in 1..Len(calls) \/ i = Len(calls) + 1
      BY <2>1, <2>2
    <2>4. /\ \A i, j \in 1..Len(calls) : i < j => calls[i] < calls[j]
          /\ \A i \in 1..Len(calls) : 1 <= calls[i] /\ calls[i] < nextCall
      BY DEF BatchInv
    <2>5. \A i \in 1..Len(calls') : 1 <= calls'[i] /\ calls'[i] < nextCall + 1
      BY <2>1, <2>3, <2>4
    <2>6. \A i, j \in 1..Len(calls') : i < j => calls'[i] < calls'[j]
      BY <2>1, <2>3, <2>4
    <2>7. QED  BY <2>2, <2>5, <2>6 DEF BatchInv
  <1>5. CASE StreamEnd
    BY <1>5, BatchKeeps DEF StreamEnd, EndRun, ClearLocals, BatchInv, disk, locals, ids
  <1>6. CASE StreamError \/ Return \/ Abort
    BY <1>6, BatchKeeps
    DEF StreamError, Return, Abort, EndRun, ClearLocals, disk, ids
  <1>7. CASE Crash
    BY <1>7, BatchKeeps DEF Crash, ClearLocals, ids
  <1>8. CASE AfterResult
    <2>1. pc = "yielded" /\ nextCall' = nextCall
      BY <1>8 DEF AfterResult, ids
    <2>2. torn' = FALSE
      <3>1. ~torn /\ torn \in BOOLEAN
        BY <2>1 DEF BatchInv, TypeOK, ControlOK, FlagsOK
      <3>2. torn' = FALSE \/ torn' = torn
        BY <1>8 DEF AfterResult, AppendItem, Record, disk
      <3>3. QED  BY <3>1, <3>2
    <2>3. CASE calls' = <<>>
      BY <2>1, <2>2, <2>3, BatchKeeps
    <2>4. CASE calls' = Tail(calls) /\ pc' = "invoke"
      <3>1. calls \in Seq(Nat) /\ calls # <<>>
        BY <2>1 DEF TypeOK, SequencesOK, ControlOK
      <3>2. /\ \A i, j \in 1..Len(calls) : i < j => calls[i] < calls[j]
            /\ \A i \in 1..Len(calls) : 1 <= calls[i] /\ calls[i] < nextCall
        BY DEF BatchInv
      <3>3. /\ calls' \in Seq(Nat) /\ Len(calls') \in Nat
            /\ \A i \in 1..Len(calls') : i + 1 \in 1..Len(calls) /\ calls'[i] = calls[i + 1]
        BY <2>4, <3>1, <3>2, RestOfBatch
      <3>4. \A i, j \in 1..Len(calls') : i < j => calls'[i] < calls'[j]
        BY <3>2, <3>3
      <3>5. \A i \in 1..Len(calls') : 1 <= calls'[i] /\ calls'[i] < nextCall'
        BY <2>1, <3>2, <3>3
      <3>6. QED  BY <2>2, <2>4, <3>4, <3>5 DEF BatchInv
    <2>5. QED  BY <1>8, <2>3, <2>4 DEF AfterResult, EndRun, ClearLocals
  <1>9. CASE steer \/ resume \/ fork_session \/ UNCHANGED vars
    <2>1. nextCall' = nextCall /\ calls' = calls
      BY <1>9 DEF steer, resume, fork_session, vars, locals, ids
    <2>2. CASE steer \/ UNCHANGED vars
      BY <2>1, <2>2 DEF steer, vars, disk, BatchInv
    <2>3. CASE resume \/ fork_session
      BY <2>1, <2>3, BatchKeeps DEF resume, fork_session, disk, BatchInv
    <2>4. QED  BY <1>9, <2>2, <2>3
  <1>10. QED
    BY <1>1, <1>2, <1>3, <1>4, <1>5, <1>6, <1>7, <1>8, <1>9 DEF Next

-----------------------------------------------------------------------------
(* Steps of the log and of the windows. *)

LEMMA LogTypes ==
  ASSUME TypeOK
  PROVE  /\ file \in Seq(Item) /\ items \in Seq(Item) /\ load_items(file) \in Seq(Item)
         /\ torn \in BOOLEAN /\ nextCall \in Nat \ {0} /\ calls \in Seq(Nat)
  <1>1. file \in Seq(Item) /\ items \in Seq(Item) /\ torn \in BOOLEAN
        /\ nextCall \in Nat \ {0} /\ calls \in Seq(Nat)
    BY DEF TypeOK, SequencesOK, FlagsOK, CountersOK
  <1>2. QED  BY <1>1, PruneType DEF load_items

\* An item reaches the live window, the file and the window of the file.
LEMMA AppendWindows ==
  ASSUME TypeOK, NEW x \in Item, x.kind # "compaction", AppendItem(x), ~torn
  PROVE  /\ file' = Append(file, x) /\ items' = Append(items, x)
         /\ load_items(file') = Append(load_items(file), x)
  <1>1. file' = Append(file, x) /\ items' = Append(items, x)
    BY DEF AppendItem, Record
  <1>2. QED  BY <1>1, LogTypes, PruneAppend DEF load_items

\* An item that is neither call nor output; if it is on the user's side, no
\* call waits.
LEMMA LogOther ==
  ASSUME TypeOK, LogInv, NEW k \in Kinds \ {"call", "output", "compaction"},
         NEW d \in Nat, AppendItem(Entry(k, d)), k \in UserSide => Unanswered = {},
         Unanswered' = Unanswered, UNCHANGED <<nextCall, cut>>
  PROVE  LogInv'
  <1> DEFINE x == Entry(k, d)
  <1>1. x \in Item /\ x.kind = k
    BY EntryType
  <1>2. x.kind \notin Asking /\ x.kind # "compaction"
    BY <1>1 DEF Asking
  <1> HIDE DEF x
  <1>3. Paired(items', Unanswered, cut)
    BY <1>1, <1>2, LogTypes, OtherPaired DEF LogInv, AppendItem, x
  <1>4. CASE torn
    <2>1. file' = file
      BY <1>4 DEF AppendItem, Record
    <2>2. Transcript(file', nextCall, Unanswered) /\ Paired(load_items(file'), Unanswered, cut)
      BY <2>1 DEF LogInv
    <2>3. QED  BY <1>3, <2>2 DEF LogInv
  <1>5. CASE ~torn
    <2>1. file' = Append(file, x) /\ load_items(file') = Append(load_items(file), x)
      BY <1>1, <1>2, <1>5, AppendWindows DEF x
    <2>2. Transcript(file', nextCall, Unanswered)
      BY <1>1, <1>2, <2>1, LogTypes, OtherTranscript DEF LogInv
    <2>3. Paired(load_items(file'), Unanswered, cut)
      BY <1>1, <1>2, <2>1, LogTypes, OtherPaired DEF LogInv
    <2>4. QED  BY <1>3, <2>2, <2>3 DEF LogInv
  <1>6. QED  BY <1>4, <1>5, LogTypes

\* A step that writes nothing and keeps the batch, or cuts it off.
LEMMA LogQuiet ==
  ASSUME TypeOK, LogInv, UNCHANGED <<file, nextCall>>,
         \/ items' \in {items, load_items(file)}
         \/ items' = <<>> /\ Unanswered' = {},
         \/ Unanswered' = Unanswered /\ cut' = cut
         \/ Unanswered' = {} /\ cut' = cut \cup Unanswered
  PROVE  LogInv'
  <1>1. CASE Unanswered' = Unanswered /\ cut' = cut
    <2>1. Paired(items', Unanswered', cut')
      <3>1. CASE items' = <<>> /\ Unanswered' = {}
        BY <3>1, EmptyPaired
      <3>2. CASE items' \in {items, load_items(file)}
        BY <1>1, <3>2 DEF LogInv
      <3>3. QED  BY <3>1, <3>2
    <2>2. Transcript(file', nextCall', Unanswered') /\ Paired(load_items(file'), Unanswered', cut')
      BY <1>1 DEF LogInv
    <2>3. QED  BY <2>1, <2>2 DEF LogInv
  <1>2. CASE Unanswered' = {} /\ cut' = cut \cup Unanswered
    <2>1. Paired(items', Unanswered', cut')
      <3>1. CASE items' = <<>>
        BY <1>2, <3>1, EmptyPaired
      <3>2. CASE items' \in {items, load_items(file)}
        BY <1>2, <3>2, CutPaired DEF LogInv
      <3>3. QED  BY <3>1, <3>2
    <2>2. Transcript(file', nextCall', {}) /\ Paired(load_items(file'), {}, cut \cup Unanswered)
      BY FewerWait, CutPaired DEF LogInv
    <2>3. QED  BY <1>2, <2>1, <2>2 DEF LogInv
  <1>3. QED  BY <1>1, <1>2

\* A call whose line is lost leaves the log as it was, with its number used.
LEMMA GluedTranscript ==
  ASSUME NEW s \in Seq(Item), NEW n \in Nat \ {0}, NEW U, Transcript(s, n, U)
  PROVE  Transcript(s, n + 1, U \cup {n})
  <1>1. \A i \in 1..Len(s) : s[i].id \in Nat
    <2>1. \A i \in 1..Len(s) : s[i] \in Item  OBVIOUS
    <2>2. QED  BY <2>1 DEF Item
  <1>2. \A i \in 1..Len(s) : s[i].kind \in Asking => 1 <= s[i].id /\ s[i].id < n
    BY DEF Transcript, Numbered
  <1>3. Numbered(s, n + 1)
    BY <1>1, <1>2 DEF Numbered
  <1>4. Waiting(s, U \cup {n})
    BY <1>1, <1>2 DEF Transcript, Waiting
  <1>5. QED  BY <1>3, <1>4 DEF Transcript

LEMMA LogCall ==
  ASSUME TypeOK, BatchInv, LogInv, CallItem
  PROVE  LogInv'
  <1> DEFINE x == Entry("call", nextCall)
  <1>1. x \in Item /\ x.kind = "call" /\ x.id = nextCall
    BY LogTypes, EntryType DEF Kinds, Entry
  <1>2. AppendItem(x) /\ pc = "streaming" /\ pc' = "streaming"
        /\ calls' = Append(calls, nextCall) /\ nextCall' = nextCall + 1
        /\ cut' = IF torn THEN cut \cup {nextCall} ELSE cut
    BY DEF CallItem
  <1> HIDE DEF x
  <1>3. Unanswered' = Unanswered \cup {nextCall}
    <2>1. Unanswered = SeqSet(calls) /\ Unanswered' = SeqSet(calls')
      BY <1>2 DEF Unanswered
    <2>2. /\ \A i \in 1..Len(calls') : i \in 1..Len(calls) \/ calls'[i] = nextCall
          /\ \A i \in 1..Len(calls) : i \in 1..Len(calls') /\ calls'[i] = calls[i]
          /\ \E i \in 1..Len(calls') : calls'[i] = nextCall
      <3>1. /\ Len(calls) \in Nat /\ Len(calls') = Len(calls) + 1
            /\ calls'[Len(calls) + 1] = nextCall
            /\ \A i \in 1..Len(calls) : calls'[i] = calls[i]
        BY <1>2, LogTypes
      <3>2. QED  BY <3>1
    <2>3. QED  BY <2>1, <2>2 DEF SeqSet
  <1>4. items' = Append(items, x)
    BY <1>2 DEF AppendItem
  <1>5. Paired(items', Unanswered', cut)
    BY <1>1, <1>3, <1>4, LogTypes, CallPaired DEF LogInv
  <1>6. CASE torn
    <2>1. file' = file /\ cut' = cut \cup {nextCall}
      BY <1>2, <1>6 DEF AppendItem, Record
    <2>2. Transcript(file', nextCall', Unanswered')
      BY <1>2, <1>3, <2>1, LogTypes, GluedTranscript DEF LogInv
    <2>3. Paired(load_items(file'), Unanswered', cut')
      BY <1>3, <2>1, GluedPaired DEF LogInv
    <2>4. Paired(items', Unanswered', cut')
      BY <1>5, <2>1, GluedPaired
    <2>5. QED  BY <2>2, <2>3, <2>4 DEF LogInv
  <1>7. CASE ~torn
    <2>1. /\ file' = Append(file, x) /\ cut' = cut
          /\ load_items(file') = Append(load_items(file), x)
      BY <1>1, <1>2, <1>7, AppendWindows
    <2>2. Transcript(file', nextCall', Unanswered')
      BY <1>1, <1>2, <1>3, <2>1, LogTypes, CallTranscript DEF LogInv
    <2>3. Paired(load_items(file'), Unanswered', cut')
      BY <1>1, <1>3, <2>1, LogTypes, CallPaired DEF LogInv
    <2>4. QED  BY <1>5, <2>1, <2>2, <2>3 DEF LogInv
  <1>8. QED  BY <1>6, <1>7

LEMMA LogOutput ==
  ASSUME TypeOK, BatchInv, LogInv, Invoke
  PROVE  LogInv'
  <1> DEFINE x == Entry("output", Head(calls))
  <1>1. AppendItem(x) /\ ~torn /\ pc = "invoke" /\ pc' = "yielded"
        /\ calls \in Seq(Nat) /\ calls # <<>> /\ UNCHANGED <<calls, nextCall, cut>>
    BY LogTypes DEF Invoke, BatchInv, TypeOK, ControlOK, locals, ids
  <1>2. Head(calls) \in Nat /\ Head(calls) = calls[1] /\ 1 \in 1..Len(calls)
    BY <1>1
  <1>3. 1 <= Head(calls) /\ Head(calls) < nextCall
    BY <1>2 DEF BatchInv
  <1>4. x \in Item /\ x.kind = "output" /\ x.id = Head(calls)
    BY <1>2, EntryType DEF Kinds, Entry
  <1> HIDE DEF x
  <1>5. x.id \in Unanswered /\ Unanswered' = Unanswered \ {x.id}
    <2>1. /\ {calls[i] : i \in 2..Len(calls)} = SeqSet(calls) \ {Head(calls)}
          /\ Head(calls) \in SeqSet(calls)
      BY <1>1, RestOfBatch DEF BatchInv
    <2>2. Unanswered = SeqSet(calls) /\ Unanswered' = {calls[i] : i \in 2..Len(calls)}
      BY <1>1 DEF Unanswered
    <2>3. QED  BY <1>4, <2>1, <2>2
  <1>6. /\ file' = Append(file, x) /\ items' = Append(items, x)
        /\ load_items(file') = Append(load_items(file), x)
    BY <1>1, <1>4, AppendWindows
  <1>7. Transcript(file', nextCall', Unanswered')
    BY <1>1, <1>3, <1>4, <1>5, <1>6, LogTypes, OutputTranscript DEF LogInv
  <1>8. Paired(items', Unanswered', cut') /\ Paired(load_items(file'), Unanswered', cut')
    BY <1>1, <1>4, <1>5, <1>6, LogTypes, OutputPaired DEF LogInv
  <1>9. QED  BY <1>7, <1>8 DEF LogInv

LEMMA LogCompaction ==
  ASSUME TypeOK, BatchInv, LogInv, CompactionItem
  PROVE  LogInv'
  <1> DEFINE x == Entry("compaction", 0)
  <1>1. x \in Item /\ x.kind = "compaction"
    BY EntryType DEF Kinds
  <1>2. /\ Record(x) /\ UNCHANGED <<nextCall, calls>> /\ cut' = cut \cup SeqSet(calls)
        /\ items' = prune_to_latest_compaction(Append(items, x))
        /\ pc = "streaming" /\ pc' = "streaming"
    BY LogTypes DEF CompactionItem, BatchInv, ids
  <1> HIDE DEF x
  <1>3. Unanswered' = Unanswered /\ cut' = cut \cup Unanswered
    BY <1>2 DEF Unanswered
  <1>4. items' = <<x>>
    BY <1>1, <1>2, LogTypes, PruneCompaction
  <1>5. x.kind \notin Asking /\ x.kind \notin UserSide
    BY <1>1 DEF Asking, UserSide
  <1>6. Paired(items', Unanswered', cut')
    BY <1>1, <1>3, <1>4, CompactionPaired
  <1>7. CASE torn
    <2>1. file' = file
      BY <1>2, <1>7 DEF Record
    <2>2. calls = <<>>
      BY <1>7 DEF BatchInv
    <2>3. Unanswered = {}
      BY <1>2, <2>2 DEF Unanswered, SeqSet
    <2>4. Unanswered' = Unanswered /\ cut' = cut
      BY <1>3, <2>3
    <2>5. Transcript(file', nextCall', Unanswered') /\ Paired(load_items(file'), Unanswered', cut')
      BY <1>2, <2>1, <2>4 DEF LogInv
    <2>6. QED  BY <1>6, <2>5 DEF LogInv
  <1>8. CASE ~torn
    <2>1. file' = Append(file, x)
      BY <1>2, <1>8 DEF Record
    <2>2. load_items(file') = <<x>>
      BY <1>1, <2>1, LogTypes, PruneCompaction DEF load_items
    <2>3. Transcript(file', nextCall', Unanswered')
      BY <1>1, <1>2, <1>3, <1>5, <2>1, LogTypes, OtherTranscript DEF LogInv
    <2>4. Paired(load_items(file'), Unanswered', cut')
      BY <1>1, <1>3, <2>2, CompactionPaired
    <2>5. QED  BY <1>6, <2>3, <2>4 DEF LogInv
  <1>9. QED  BY <1>7, <1>8

LEMMA LogFork ==
  ASSUME TypeOK, BatchInv, LogInv, fork_session
  PROVE  LogInv'
  <1> DEFINE w == load_items(file)
  <1>1. PICK n \in 0..Len(w) :
          LET branch == SubSeq(w, 1, n)
          IN  /\ file' = branch /\ items' = branch
              /\ cut' = cut \cup (CallIds(branch) \ OutputIds(branch))
    BY DEF fork_session
  <1>2. pc = "idle" /\ pc' = "idle" /\ calls = <<>> /\ calls' = <<>> /\ nextCall' = nextCall
    BY DEF fork_session, BatchInv, locals, ids
  <1>3. Unanswered = {} /\ Unanswered' = {}
    BY <1>2 DEF Unanswered, SeqSet
  <1>4. w \in Seq(Item) /\ Transcript(w, nextCall, {})
    BY <1>3, LogTypes, WindowTranscript DEF LogInv
  <1>5. 1 \in 1..(Len(w) + 1) /\ load_items(file') = file'
    BY <1>1, <1>4, LogTypes, PrunePrefix DEF load_items
  <1>6. Paired(w, {}, cut)
    BY <1>3 DEF LogInv
  <1> HIDE DEF w
  <1>7. Transcript(file', nextCall', Unanswered')
    BY <1>1, <1>2, <1>3, <1>4, <1>5, LogTypes, PartTranscript
  <1>8. Paired(file', {}, cut')
    BY <1>1, <1>4, <1>6, BranchPaired DEF Transcript
  <1>9. QED  BY <1>1, <1>3, <1>5, <1>7, <1>8 DEF LogInv

LEMMA LogNext == TypeOK /\ BatchInv /\ LogInv /\ [Next]_vars => LogInv'
  <1> SUFFICES ASSUME TypeOK, BatchInv, LogInv, [Next]_vars PROVE LogInv'
    OBVIOUS
  <1> USE DEF Kinds
  <1>1. CASE run
    <2>1. UNCHANGED <<calls, nextCall, cut>> /\ calls = <<>>
      BY <1>1 DEF run, BatchInv, locals, ids
    <2>2. Unanswered = {} /\ Unanswered' = {}
      BY <2>1 DEF Unanswered, SeqSet
    <2>3. CASE AppendItem(Entry("prompt", 0))
      BY <2>1, <2>2, <2>3, LogOther
    <2>4. CASE UNCHANGED <<disk, items, skewed>>
      BY <2>1, <2>2, <2>4, LogQuiet DEF disk
    <2>5. QED  BY <1>1, <2>3, <2>4 DEF run
  <1>2. CASE DrainSteering \/ SteerAfterAnswer
    <2>1. /\ AppendItem(Entry("steer", Head(steering))) /\ UNCHANGED <<calls, nextCall, cut>>
          /\ calls = <<>> /\ steering # <<>>
      BY <1>2 DEF DrainSteering, SteerAfterAnswer, Continue, BatchInv, locals, ids
    <2>2. Head(steering) \in Nat
      BY <2>1 DEF TypeOK, SequencesOK
    <2>3. Unanswered = {} /\ Unanswered' = {}
      BY <2>1 DEF Unanswered, SeqSet
    <2>4. QED  BY <2>1, <2>2, <2>3, LogOther
  <1>3. CASE ContinueAlone
    <2>1. /\ AppendItem(Entry("auto", 0))
          /\ UNCHANGED <<calls, nextCall, cut>> /\ calls = <<>>
      BY <1>3 DEF ContinueAlone, Continue, BatchInv, ids
    <2>2. Unanswered = {} /\ Unanswered' = {}
      BY <2>1 DEF Unanswered, SeqSet
    <2>3. QED  BY <2>1, <2>2, LogOther
  <1>4. CASE PlainItem
    <2>1. PICK k \in {"reasoning", "message"} : AppendItem(Entry(k, 0))
      BY <1>4 DEF PlainItem
    <2>2. UNCHANGED <<pc, calls, nextCall, cut>>
      BY <1>4 DEF PlainItem, ids
    <2>3. Unanswered' = Unanswered
      BY <2>2 DEF Unanswered, SeqSet
    <2>4. k \in Kinds \ {"call", "output", "compaction"} /\ k \notin UserSide
      BY DEF UserSide
    <2>5. QED  BY <2>1, <2>2, <2>3, <2>4, LogOther
  <1>5. CASE AfterResult
    <2>1. /\ pc = "yielded" /\ UNCHANGED <<nextCall, cut>>
          /\ calls \in Seq(Nat) /\ calls # <<>>
      BY <1>5 DEF AfterResult, ids, TypeOK, SequencesOK, ControlOK
    <2>2. calls' = Tail(calls) /\ pc' \in {"invoke", "boundary", "idle"}
      BY <1>5 DEF AfterResult, EndRun, ClearLocals
    <2>3. Unanswered = SeqSet(Tail(calls)) /\ Unanswered' = SeqSet(Tail(calls))
      BY <2>1, <2>2, RestOfBatch DEF Unanswered, BatchInv
    <2>4. CASE pending
      <3>1. AppendItem(Entry("vision", 0)) /\ "vision" \notin UserSide
        BY <1>5, <2>4 DEF AfterResult, UserSide
      <3>2. QED  BY <2>1, <2>3, <3>1, LogOther
    <2>5. CASE ~pending
      <3>1. UNCHANGED <<file, items>>
        BY <1>5, <2>5 DEF AfterResult, disk
      <3>2. QED  BY <2>1, <2>3, <3>1, LogQuiet
    <2>6. QED  BY <2>4, <2>5
  <1>6. CASE \/ Request \/ TextDelta \/ StreamEnd \/ steer \/ MentionError
             \/ LastLook \/ UNCHANGED vars
    <2>1. UNCHANGED <<file, items, nextCall, cut>>
      BY <1>6 DEF Request, TextDelta, StreamEnd, steer, MentionError, LastLook,
         vars, disk, ids
    <2>2. Unanswered' = Unanswered
      <3>1. calls' = calls
        BY <1>6
        DEF Request, TextDelta, StreamEnd, EndRun, ClearLocals, steer, MentionError,
            LastLook, vars, locals, BatchInv
      <3>2. pc = "yielded" <=> pc' = "yielded"
        BY <1>6 DEF Request, TextDelta, StreamEnd, EndRun, steer, MentionError,
           LastLook, vars
      <3>3. QED  BY <3>1, <3>2 DEF Unanswered, SeqSet
    <2>3. QED  BY <2>1, <2>2 DEF LogInv
  <1>7. CASE StreamError \/ Abort \/ Crash \/ Return
    <2>1. /\ UNCHANGED <<file, nextCall>> /\ items' \in {items, <<>>}
          /\ calls' = <<>> /\ pc' # "yielded"
      BY <1>7 DEF StreamError, Abort, Crash, Return, EndRun, ClearLocals, disk, ids
    <2>2. Unanswered' = {}
      BY <2>1 DEF Unanswered, SeqSet
    <2>3. cut' = cut \cup Unanswered
      <3>1. CASE StreamError
        BY <3>1 DEF StreamError, Unanswered
      <3>2. CASE Abort \/ Crash
        BY <3>2 DEF Abort, Crash
      <3>3. CASE Return
        BY <3>3 DEF Return, BatchInv, Unanswered, SeqSet
      <3>4. QED  BY <1>7, <3>1, <3>2, <3>3
    <2>4. QED  BY <2>1, <2>2, <2>3, LogQuiet
  <1>8. CASE resume
    <2>1. /\ UNCHANGED <<file, nextCall, cut>> /\ items' = load_items(file)
          /\ calls = <<>> /\ calls' = <<>>
      BY <1>8 DEF resume, BatchInv, disk, locals, ids
    <2>2. Unanswered = {} /\ Unanswered' = {}
      BY <2>1 DEF Unanswered, SeqSet
    <2>3. QED  BY <2>1, <2>2, LogQuiet
  <1>9. QED
    BY <1>1, <1>2, <1>3, <1>4, <1>5, <1>6, <1>7, <1>8, LogCall, LogOutput,
       LogCompaction, LogFork
    DEF Next

LEMMA CallsInv == Spec => [](TypeOK /\ BatchInv /\ LogInv)
  <1>1. Init => BatchInv /\ LogInv
    <2> SUFFICES ASSUME Init PROVE BatchInv /\ LogInv
      OBVIOUS
    <2>1. calls = <<>> /\ Unanswered = {} /\ file = <<>> /\ items = <<>>
      BY DEF Init, Unanswered, SeqSet
    <2>2. load_items(file) = <<>>
      BY <2>1 DEF load_items, prune_to_latest_compaction, Compactions
    <2>3. BatchInv
      BY DEF Init, BatchInv
    <2>4. Transcript(<<>>, nextCall, {})
      BY DEF Transcript, Numbered, Once, Together, Waiting
    <2>5. QED  BY <2>1, <2>2, <2>3, <2>4, EmptyPaired DEF LogInv
  <1>2. TypeOK /\ BatchInv /\ LogInv /\ [Next]_vars => BatchInv' /\ LogInv'
    BY BatchNext, LogNext
  <1>3. QED  BY <1>1, <1>2, TypeCorrect, PTL DEF Spec

(* _consume and _invoke (agent.py): whatever aborts, crashes, resumes and   *)
(* branches come between, the rollout file answers no call twice and holds  *)
(* no output before its call.                                               *)
THEOREM CallsAnsweredOnce == Spec => []AnsweredOnce
  <1>1. LogInv => AnsweredOnce
    BY DEF LogInv, Transcript, Once, Asking, AnsweredOnce
  <1>2. QED  BY <1>1, CallsInv, PTL

(* docs/server.md: guidance is appended after the current response or tool  *)
(* batch.  No prompt, steering or continuation stands between a call and    *)
(* its output in the file, whichever thread queued it and whenever.         *)
THEOREM SteeringAtBoundaries == Spec => []SteeringAtBoundary
  <1>1. TypeOK /\ LogInv => SteeringAtBoundary
    <2> SUFFICES ASSUME TypeOK, LogInv, NEW i \in 1..Len(file), NEW j \in 1..Len(file),
                        file[i].kind = "call", file[j].kind = "output",
                        file[i].id = file[j].id, NEW k \in i..j
                 PROVE  file[k].kind \notin UserSide
      BY DEF SteeringAtBoundary, UserSide
    <2>1. k \in 1..Len(file) /\ i <= k /\ k <= j
      BY LogTypes
    <2>2. QED  BY <2>1 DEF LogInv, Transcript, Together
  <1>2. QED  BY <1>1, CallsInv, PTL

(* The window of every model request (Agent.run) pairs each function call   *)
(* with an output and each output with a call, but for the calls that a     *)
(* stream error, an abort, a crash, a branch point or a compaction cut off. *)
THEOREM RequestsPaired == Spec => []RequestPaired
  <1>1. BatchInv /\ LogInv => RequestPaired
    <2> SUFFICES ASSUME BatchInv, LogInv, pc \in {"boundary", "answered", "ending"}
                 PROVE  /\ CallIds(items) \ OutputIds(items) \subseteq cut
                        /\ OutputIds(items) \ CallIds(items) \subseteq cut
      BY DEF RequestPaired
    <2>1. calls = <<>>
      BY DEF BatchInv
    <2>2. Unanswered = {}
      BY <2>1, NoBatch
    <2>3. QED  BY <2>2 DEF LogInv, Paired
  <1>2. QED  BY <1>1, CallsInv, PTL

-----------------------------------------------------------------------------
(* Runs are bounded. *)

\* What restarted the tool budget of this run, at most: autonomous turns and
\* the steering that has left the queue.
Turns == autoTurns + (nextSteer - 1 - Len(steering))
Budget == MaxSteps * Turns

\* Within a budget every request but the first follows a finished round.
BudgetInv ==
  /\ Len(steering) < nextSteer
  /\ pc \in {"idle", "down"} => requests = 0 /\ autoTurns = 0 /\ toolRounds = 0
  /\ pc \in Running => toolRounds < MaxSteps
  /\ pc = "boundary" => requests <= Budget + toolRounds
  /\ pc \in Running => requests <= Budget + toolRounds + 1
  /\ MaxAuto # 0 => autoTurns <= MaxAuto

LEMMA OneTurnMore ==
  ASSUME NEW n \in Nat, NEW t \in Int
  PROVE  n * t \in Int /\ n * (t + 1) = n * t + n
  OBVIOUS

LEMMA MoreTurns ==
  ASSUME NEW n \in Nat, NEW t \in Int, NEW u \in Int, t <= u
  PROVE  n * t <= n * u
  OBVIOUS

\* What the types say of the variables a budget is made of.
LEMMA BudgetTypes ==
  ASSUME TypeOK
  PROVE  /\ steering \in Seq(Nat) /\ Len(steering) \in Nat /\ nextSteer \in Nat \ {0}
         /\ autoTurns \in Nat /\ toolRounds \in Nat /\ requests \in Nat
         /\ Turns \in Int /\ Budget \in Int
  <1>1. /\ steering \in Seq(Nat) /\ Len(steering) \in Nat /\ nextSteer \in Nat \ {0}
        /\ autoTurns \in Nat /\ toolRounds \in Nat /\ requests \in Nat
    BY LoopAssumption DEF TypeOK, SequencesOK, CountersOK
  <1>2. Turns \in Int  BY <1>1 DEF Turns
  <1>3. Budget \in Int  BY <1>2, OneTurnMore, LoopAssumption DEF Budget
  <1>4. QED  BY <1>1, <1>2, <1>3

\* A message that leaves the queue is a turn, one that joins it is none yet.
LEMMA TurnTaken ==
  ASSUME TypeOK, Len(steering') = Len(steering) - 1,
         UNCHANGED <<autoTurns, nextSteer>>
  PROVE  Turns' = Turns + 1
  <1>1. Len(steering) \in Nat /\ nextSteer \in Nat /\ autoTurns \in Nat
    BY BudgetTypes
  <1>2. QED  BY <1>1 DEF Turns

LEMMA TurnQueued ==
  ASSUME TypeOK, Len(steering') = Len(steering) + 1,
         nextSteer' = nextSteer + 1, autoTurns' = autoTurns
  PROVE  Turns' = Turns
  <1>1. Len(steering) \in Nat /\ nextSteer \in Nat /\ autoTurns \in Nat
    BY BudgetTypes
  <1>2. QED  BY <1>1 DEF Turns

LEMMA BudgetGrows ==
  ASSUME TypeOK, Turns' = Turns + 1
  PROVE  Budget' = Budget + MaxSteps
  <1>1. Turns \in Int  BY BudgetTypes
  <1>2. QED  BY <1>1, OneTurnMore, LoopAssumption DEF Budget

LEMMA BudgetSame ==
  ASSUME Turns' = Turns
  PROVE  Budget' = Budget
  BY DEF Budget

LEMMA BudgetEnds ==
  ASSUME TypeOK, BudgetInv, ClearLocals, pc' \in {"idle", "down"},
         nextSteer' = nextSteer, steering' = steering \/ steering' = <<>>
  PROVE  BudgetInv'
  <1>1. Len(steering') < nextSteer'
    BY BudgetTypes DEF BudgetInv
  <1>2. requests' = 0 /\ autoTurns' = 0 /\ toolRounds' = 0
    BY DEF ClearLocals
  <1>3. QED  BY <1>1, <1>2, LoopAssumption DEF BudgetInv, Running

\* A step of the run that appends, streams or dispatches within one round.
LEMMA BudgetKeeps ==
  ASSUME TypeOK, BudgetInv, pc \in Running, pc' \in Running \ {"boundary"},
         UNCHANGED <<steering, nextSteer, autoTurns, toolRounds>>,
         requests' = requests \/ (pc = "boundary" /\ requests' = requests + 1)
  PROVE  BudgetInv'
  <1>1. Budget' = Budget  BY BudgetSame DEF Turns
  <1>2. QED  BY <1>1, BudgetTypes DEF BudgetInv, Running

LEMMA NoRoundsYet ==
  ASSUME NEW n \in Nat, NEW b \in Int, NEW t, t = 0, n <= b
  PROVE  n <= b + t /\ n <= b + t + 1
  OBVIOUS

\* A fresh budget: the turn or message it is for is counted.
LEMMA BudgetRenewed ==
  ASSUME TypeOK, BudgetInv, pc \in {"answered", "ending"}, pc' = "boundary",
         toolRounds' = 0, requests' = requests, nextSteer' = nextSteer,
         Turns' = Turns + 1, Len(steering') <= Len(steering),
         MaxAuto # 0 => autoTurns' <= MaxAuto
  PROVE  BudgetInv'
  <1>0. /\ requests \in Nat /\ toolRounds \in Nat /\ Budget \in Int
        /\ MaxSteps \in Nat
    BY BudgetTypes, LoopAssumption
  <1>1. requests <= Budget + toolRounds + 1 /\ toolRounds < MaxSteps
    BY DEF BudgetInv, Running
  <1>2. Budget' = Budget + MaxSteps
    BY BudgetGrows
  <1>3. requests' <= Budget'
    BY <1>0, <1>1, <1>2
  <1>4. requests' \in Nat /\ toolRounds' \in Nat /\ Budget' \in Int
    BY <1>0, <1>2
  <1>5. Len(steering') < nextSteer'
    BY BudgetTypes DEF BudgetInv
  <1>6. requests' <= Budget' + toolRounds' /\ requests' <= Budget' + toolRounds' + 1
    BY Zenon, <1>3, <1>4, NoRoundsYet
  <1>7. toolRounds' < MaxSteps
    BY LoopAssumption
  <1>8. QED
    BY <1>5, <1>6, <1>7 DEF BudgetInv, Running

LEMMA BudgetNext == TypeOK /\ TypeOK' /\ BudgetInv /\ [Next]_vars => BudgetInv'
  <1> SUFFICES ASSUME TypeOK, TypeOK', BudgetInv, [Next]_vars PROVE BudgetInv'
    OBVIOUS
  <1>1. CASE run
    <2>1. /\ UNCHANGED <<steering, nextSteer, autoTurns, toolRounds, requests>>
          /\ pc = "idle" /\ pc' = "boundary"
      BY <1>1 DEF run, locals, ids
    <2>2. 0 <= Turns
      BY <2>1, BudgetTypes DEF BudgetInv, Turns
    <2>3. 0 <= Budget
      <3>1. Turns \in Int /\ MaxSteps \in Nat  BY BudgetTypes, LoopAssumption
      <3>2. MaxSteps * 0 <= MaxSteps * Turns  BY <2>2, <3>1, MoreTurns
      <3>3. MaxSteps * 0 = 0  BY <3>1
      <3>4. QED  BY <3>2, <3>3 DEF Budget
    <2>4. Budget' = Budget
      BY <2>1, BudgetSame DEF Turns
    <2>5. QED
      BY <2>1, <2>3, <2>4, BudgetTypes, LoopAssumption DEF BudgetInv, Running
  <1>2. CASE DrainSteering
    <2>1. Len(steering') = Len(steering) - 1
      BY <1>2, BudgetTypes DEF DrainSteering
    <2>2. UNCHANGED <<pc, autoTurns, toolRounds, requests, nextSteer>> /\ pc = "boundary"
      BY <1>2 DEF DrainSteering, locals, ids
    <2>3. Turns' = Turns + 1
      BY <2>1, <2>2, TurnTaken
    <2>4. Budget' = Budget + MaxSteps
      BY <2>3, BudgetGrows
    <2>5. /\ requests' <= Budget' + toolRounds' /\ Budget' \in Int
          /\ requests' <= Budget' + toolRounds' + 1
      <3>1. /\ requests \in Nat /\ toolRounds \in Nat /\ Budget \in Int
            /\ MaxSteps \in Nat
        BY BudgetTypes, LoopAssumption
      <3>2. requests <= Budget + toolRounds  BY <2>2 DEF BudgetInv
      <3>3. QED  BY <2>2, <2>4, <3>1, <3>2
    <2>6. Len(steering') < nextSteer'
      BY <2>1, <2>2, BudgetTypes DEF BudgetInv
    <2>7. QED
      BY <2>2, <2>5, <2>6 DEF BudgetInv, Running
  <1>3. CASE Request \/ LastLook
    BY <1>3, BudgetKeeps DEF Request, LastLook, locals, ids, Running
  <1>4. CASE TextDelta \/ PlainItem \/ CallItem \/ CompactionItem
    BY <1>4, BudgetKeeps DEF TextDelta, PlainItem, CallItem, CompactionItem, ids, Running
  <1>5. CASE StreamError \/ Return \/ Abort
    BY <1>5, BudgetEnds DEF StreamError, Return, Abort, EndRun, ids
  <1>6. CASE StreamEnd
    <2>1. CASE pc' \in {"invoke", "answered"} /\ UNCHANGED locals
      BY <1>6, <2>1, BudgetKeeps DEF StreamEnd, locals, ids, Running
    <2>2. CASE EndRun("empty")
      BY <1>6, <2>2, BudgetEnds DEF StreamEnd, EndRun, ids
    <2>3. QED  BY <1>6, <2>1, <2>2 DEF StreamEnd
  <1>7. CASE SteerAfterAnswer
    <2>1. Len(steering') = Len(steering) - 1
      BY <1>7, BudgetTypes DEF SteerAfterAnswer
    <2>2. /\ UNCHANGED <<autoTurns, requests, nextSteer>> /\ toolRounds' = 0
          /\ pc = "answered" /\ pc' = "boundary"
      BY <1>7 DEF SteerAfterAnswer, Continue, ids
    <2>3. Turns' = Turns + 1
      BY <2>1, <2>2, TurnTaken
    <2>4. QED
      BY <2>1, <2>2, <2>3, BudgetRenewed, BudgetTypes DEF BudgetInv
  <1>8. CASE ContinueAlone
    <2>1. /\ UNCHANGED <<steering, requests, nextSteer>> /\ toolRounds' = 0
          /\ pc = "ending" /\ pc' = "boundary" /\ autoTurns' = autoTurns + 1
          /\ MaxAuto # 0 => autoTurns < MaxAuto
      BY <1>8 DEF ContinueAlone, Continue, UnderLimit, ids
    <2>2. Turns' = Turns + 1
      BY <2>1, BudgetTypes DEF Turns
    <2>3. QED
      BY <2>1, <2>2, BudgetRenewed, BudgetTypes, LoopAssumption DEF BudgetInv
  <1>9. CASE Invoke
    BY <1>9, BudgetKeeps DEF Invoke, locals, ids, Running
  <1>10. CASE AfterResult
    <2>1. UNCHANGED <<steering, nextSteer>> /\ pc = "yielded"
      BY <1>10 DEF AfterResult, ids
    <2>2. CASE pc' = "invoke" /\ UNCHANGED <<toolRounds, autoTurns, requests>>
      BY <2>1, <2>2, BudgetKeeps DEF Running
    <2>3. CASE /\ pc' = "boundary" /\ toolRounds' = toolRounds + 1
               /\ toolRounds + 1 < MaxSteps /\ UNCHANGED <<autoTurns, requests>>
      <3>1. Budget' = Budget  BY <2>1, <2>3, BudgetSame DEF Turns
      <3>2. QED
        BY <2>1, <2>3, <3>1, BudgetTypes DEF BudgetInv, Running
    <2>4. CASE EndRun("exceeded")
      BY <2>1, <2>4, BudgetEnds DEF EndRun
    <2>5. QED  BY <1>10, <2>2, <2>3, <2>4 DEF AfterResult
  <1>11. CASE steer
    <2>1. /\ Len(steering') = Len(steering) + 1 /\ nextSteer' = nextSteer + 1
          /\ UNCHANGED <<pc, autoTurns, toolRounds, requests>>
      BY <1>11, BudgetTypes DEF steer, locals
    <2>2. Turns' = Turns
      BY <2>1, TurnQueued
    <2>3. QED  BY <2>1, <2>2, BudgetSame, BudgetTypes DEF BudgetInv
  <1>12. CASE Crash
    BY <1>12, BudgetEnds DEF Crash, ids
  <1>13. CASE resume \/ fork_session \/ MentionError
    BY <1>13, BudgetSame DEF resume, fork_session, MentionError, locals, ids, BudgetInv, Running, Turns
  <1>14. CASE UNCHANGED vars
    BY <1>14, BudgetSame DEF vars, locals, ids, BudgetInv, Turns
  <1>15. QED
    BY <1>1, <1>2, <1>3, <1>4, <1>5, <1>6, <1>7, <1>8, <1>9, <1>10, <1>11, <1>12,
       <1>13, <1>14 DEF Next

(* Whatever restarts its budget, a run sends at most max_steps requests    *)
(* for the prompt, for each autonomous turn and for each steering message, *)
(* and takes no more autonomous turns than allowed (agent.py: run).        *)
THEOREM RunsBounded == Spec => []RunBounded
  <1>1. Init => BudgetInv
    BY LoopAssumption DEF Init, BudgetInv, Running
  <1>2. TypeOK /\ BudgetInv => RunBounded
    <2> SUFFICES ASSUME TypeOK, BudgetInv PROVE RunBounded
      OBVIOUS
    <2>1. MaxAuto # 0 => autoTurns <= MaxAuto
      BY DEF BudgetInv
    <2>2. Turns + 1 <= autoTurns + nextSteer /\ 0 <= Turns + 1
      BY BudgetTypes DEF Turns, BudgetInv
    <2>3. /\ Turns + 1 \in Int /\ autoTurns + nextSteer \in Nat /\ MaxSteps \in Nat
      BY BudgetTypes, LoopAssumption
    <2>4. MaxSteps * (Turns + 1) <= MaxSteps * (autoTurns + nextSteer)
      BY <2>2, <2>3, MoreTurns
    <2>5. MaxSteps * (Turns + 1) = Budget + MaxSteps
      BY OneTurnMore, BudgetTypes, LoopAssumption DEF Budget
    <2> DEFINE limit == MaxSteps * (autoTurns + nextSteer)
    <2>6. limit \in Nat /\ Budget + MaxSteps <= limit
      BY <2>3, <2>4, <2>5
    <2> HIDE DEF limit
    <2>7. CASE pc \in Running
      <3>1. requests <= Budget + MaxSteps
        BY <2>7, BudgetTypes, LoopAssumption DEF BudgetInv
      <3>2. requests <= limit
        BY <2>6, <3>1, BudgetTypes, LoopAssumption
      <3>3. QED  BY <2>1, <3>2 DEF limit, RunBounded
    <2>8. CASE pc \in {"idle", "down"}
      <3>1. requests <= limit
        BY <2>6, <2>8 DEF BudgetInv
      <3>2. QED  BY <2>1, <3>1 DEF limit, RunBounded
    <2>9. QED  BY <2>7, <2>8 DEF TypeOK, ControlOK
  <1>3. QED  BY <1>1, <1>2, BudgetNext, TypeCorrect, PTL DEF Spec

-----------------------------------------------------------------------------
(* No steering is skipped. *)

\* What is in the queue came after the mark.
Fresh == \A i \in 1..Len(steering) : steering[i] >= mark

\* Where the queue has been found empty since the mark was set, what it holds
\* is newer; a new process has an empty queue.
Looked == {"streaming", "invoke", "yielded", "ending"}
ReadInv ==
  /\ mark <= nextSteer
  /\ pc \in Looked => Fresh
  /\ NoSteeringSkipped
  /\ pc = "down" => outcome = "none"

\* A message that is accepted is newer than the mark.
LEMMA FreshQueued ==
  ASSUME TypeOK, mark <= nextSteer, steer, Fresh
  PROVE  Fresh'
  <1>1. /\ steering \in Seq(Nat) /\ nextSteer \in Nat /\ mark \in Nat
        /\ steering' = Append(steering, nextSteer) /\ mark' = mark
    BY DEF TypeOK, SequencesOK, CountersOK, steer
  <1>2. /\ Len(steering') = Len(steering) + 1
        /\ steering'[Len(steering) + 1] = nextSteer
        /\ \A i \in 1..Len(steering) : steering'[i] = steering[i]
    BY <1>1
  <1>3. \A i \in 1..Len(steering') : i \in 1..Len(steering) \/ i = Len(steering) + 1
    BY <1>1, <1>2
  <1>4. QED  BY <1>1, <1>2, <1>3 DEF Fresh

\* An empty queue holds nothing older.
LEMMA FreshEmpty == steering' = <<>> => Fresh'
  BY DEF Fresh

\* A step that leaves queue and mark alone.
LEMMA FreshKept == UNCHANGED <<steering, mark>> /\ Fresh => Fresh'
  BY DEF Fresh

LEMMA ReadNext == TypeOK /\ ReadInv /\ [Next]_vars => ReadInv'
  <1> SUFFICES ASSUME TypeOK, ReadInv, [Next]_vars PROVE ReadInv'
    OBVIOUS
  <1>0. /\ nextSteer \in Nat /\ mark \in Nat /\ mark <= nextSteer
        /\ pc \in Looked => Fresh
        /\ pc = "idle" /\ outcome \in EndsByItself => Fresh
        /\ pc = "down" => outcome = "none"
    BY DEF TypeOK, CountersOK, ReadInv, NoSteeringSkipped, Fresh
  <1>a. SUFFICES /\ mark' <= nextSteer'
                 /\ pc' \in Looked => Fresh'
                 /\ pc' = "idle" /\ outcome' \in EndsByItself => Fresh'
                 /\ pc' = "down" => outcome' = "none"
    BY DEF ReadInv, NoSteeringSkipped, Fresh
  <1> USE DEF Looked, EndsByItself, Outcomes
  <1>1. CASE run \/ MentionError \/ DrainSteering \/ SteerAfterAnswer \/ ContinueAlone
    BY <1>0, <1>1 DEF run, MentionError, DrainSteering, SteerAfterAnswer,
       ContinueAlone, Continue, ids, locals
  <1>2. CASE Request \/ LastLook
    BY <1>0, <1>2, FreshEmpty DEF Request, LastLook, ids
  <1>3. CASE TextDelta \/ PlainItem \/ CallItem \/ CompactionItem \/ Invoke
    BY <1>0, <1>3, FreshKept
    DEF TextDelta, PlainItem, CallItem, CompactionItem, Invoke, ids, locals
  <1>4. CASE StreamError \/ Return \/ AfterResult
    BY <1>0, <1>4, FreshKept DEF StreamError, Return, AfterResult, EndRun, ids
  <1>5. CASE StreamEnd
    BY <1>0, <1>5, FreshKept DEF StreamEnd, EndRun, ids, locals
  <1>6. CASE Abort \/ Crash
    BY <1>0, <1>6, FreshKept DEF Abort, Crash, EndRun, ids
  <1>7. CASE steer
    BY <1>0, <1>7, FreshQueued DEF steer
  <1>8. CASE resume \/ fork_session
    BY <1>0, <1>8, FreshKept DEF resume, fork_session, ids, locals
  <1>9. CASE UNCHANGED vars
    BY <1>0, <1>9, FreshKept DEF vars, ids
  <1>10. QED
    BY <1>1, <1>2, <1>3, <1>4, <1>5, <1>6, <1>7, <1>8, <1>9 DEF Next

(* When a run that asked the model is over by itself, what is left in the   *)
(* queue was accepted after its answer was complete or, without an answer,  *)
(* after its last request was sent (agent.py:186, 235-301).                 *)
THEOREM NoneSkipped == Spec => []NoSteeringSkipped
  <1>1. Init => ReadInv
    BY DEF Init, ReadInv, NoSteeringSkipped, EndsByItself, Looked, Fresh
  <1>2. ReadInv => NoSteeringSkipped  BY DEF ReadInv
  <1>3. QED  BY <1>1, <1>2, ReadNext, TypeCorrect, PTL DEF Spec

-----------------------------------------------------------------------------
(* Steering is appended in order. *)

\* The steering of a file f and of a queue q, numbered below n, in order.
Ordered(f, q, n) ==
  /\ \A i, j \in SteerIndexes(f) : i < j => f[i].id < f[j].id
  /\ \A i \in SteerIndexes(f) : 1 <= f[i].id /\ f[i].id < n
  /\ \A i \in SteerIndexes(f), k \in 1..Len(q) : f[i].id < q[k]
  /\ \A k, l \in 1..Len(q) : k < l => q[k] < q[l]
  /\ \A k \in 1..Len(q) : 1 <= q[k] /\ q[k] < n

\* Every number below n is in the file or in the queue.
Complete(f, q, n) ==
  \A m \in 1..(n - 1) : \/ \E i \in SteerIndexes(f) : f[i].id = m
                        \/ \E k \in 1..Len(q) : q[k] = m

LEMMA OtherItem ==
  ASSUME NEW f \in Seq(Item), NEW q \in Seq(Nat), NEW n \in Nat,
         NEW x \in Item, x.kind # "steer"
  PROVE  /\ Ordered(f, q, n) => Ordered(Append(f, x), q, n)
         /\ Complete(f, q, n) => Complete(Append(f, x), q, n)
  <1> DEFINE g == Append(f, x)
  <1>1. Len(g) = Len(f) + 1 /\ g[Len(f) + 1] = x /\ \A i \in 1..Len(f) : g[i] = f[i]
    OBVIOUS
  <1> HIDE DEF g
  <1>2. 1..Len(g) = 1..Len(f) \cup {Len(f) + 1}
    BY <1>1
  <1>3. SteerIndexes(g) = SteerIndexes(f)
    BY <1>1, <1>2 DEF SteerIndexes
  <1>4. \A i \in SteerIndexes(f) : g[i] = f[i]
    BY <1>1 DEF SteerIndexes
  <1>5. ASSUME Ordered(f, q, n) PROVE Ordered(g, q, n)
    <2>1. ASSUME NEW i \in SteerIndexes(g), NEW j \in SteerIndexes(g), i < j
          PROVE  g[i].id < g[j].id
      <3>1. f[i].id < f[j].id  BY <1>3, <1>5, <2>1 DEF Ordered
      <3>2. QED  BY <1>3, <1>4, <3>1
    <2>2. ASSUME NEW i \in SteerIndexes(g)
          PROVE  /\ 1 <= g[i].id /\ g[i].id < n
                 /\ \A k \in 1..Len(q) : g[i].id < q[k]
      <3>1. /\ 1 <= f[i].id /\ f[i].id < n
            /\ \A k \in 1..Len(q) : f[i].id < q[k]
        BY <1>3, <1>5 DEF Ordered
      <3>2. QED  BY <1>3, <1>4, <3>1
    <2>3. /\ \A k, l \in 1..Len(q) : k < l => q[k] < q[l]
          /\ \A k \in 1..Len(q) : 1 <= q[k] /\ q[k] < n
      BY <1>5 DEF Ordered
    <2>4. QED  BY <2>1, <2>2, <2>3 DEF Ordered
  <1>6. Complete(f, q, n) => Complete(g, q, n)
    BY <1>3, <1>4 DEF Complete
  <1>7. QED  BY <1>5, <1>6 DEF g

LEMMA SteerIds ==
  ASSUME NEW f \in Seq(Item)
  PROVE  \A i \in SteerIndexes(f) :
           i \in 1..Len(f) /\ f[i] \in Item /\ f[i].id \in Nat
  <1> TAKE i \in SteerIndexes(f)
  <1>1. i \in 1..Len(f)  BY DEF SteerIndexes
  <1>2. f[i] \in Item    BY <1>1, ElementOfSeq
  <1>3. f[i].id \in Nat  BY <1>2 DEF Item
  <1>4. QED  BY <1>1, <1>2, <1>3

LEMMA TakenItem ==
  ASSUME NEW f \in Seq(Item), NEW q \in Seq(Nat), NEW n \in Nat, q # <<>>,
         Ordered(f, q, n)
  PROVE  /\ Ordered(f, Tail(q), n)
         /\ Ordered(Append(f, Entry("steer", Head(q))), Tail(q), n)
         /\ Complete(f, q, n) => Complete(Append(f, Entry("steer", Head(q))), Tail(q), n)
  <1> DEFINE x == Entry("steer", Head(q))
             g == Append(f, x)
             r == Tail(q)
             last == Len(f) + 1
  <1>1. /\ Head(q) = q[1] /\ 1 \in 1..Len(q) /\ Len(q) \in Nat /\ Len(f) \in Nat
        /\ \A k \in 1..Len(q) : q[k] \in Nat
    OBVIOUS
  <1>2. x \in Item /\ x.kind = "steer" /\ x.id = q[1]
    BY <1>1 DEF Entry, Item, Kinds
  <1>3. Len(r) = Len(q) - 1 /\ \A k \in 1..Len(r) : r[k] = q[k + 1]
    BY <1>1
  <1>4. Len(g) = Len(f) + 1 /\ g[Len(f) + 1] = x /\ \A i \in 1..Len(f) : g[i] = f[i]
    BY <1>2
  <1> HIDE DEF g, r, x
  <1>5. SteerIndexes(g) = SteerIndexes(f) \cup {last}
    BY <1>1, <1>2, <1>4 DEF SteerIndexes
  <1>6. \A i \in SteerIndexes(f) :
          i \in 1..Len(f) /\ i # last /\ i < last /\ g[i] = f[i] /\ f[i].id \in Nat
    BY <1>1, <1>4, SteerIds
  <1>7. g[last].id = q[1] /\ last \in SteerIndexes(g)
    BY <1>2, <1>4, <1>5
  <1> HIDE DEF last
  <1>8. \A k \in 1..Len(r) : k + 1 \in 1..Len(q) /\ 1 < k + 1 /\ r[k] = q[k + 1]
    BY <1>1, <1>3
  <1>9. \A k, l \in 1..Len(r) : k < l => r[k] < r[l]
    <2> SUFFICES ASSUME NEW k \in 1..Len(r), NEW l \in 1..Len(r), k < l
                 PROVE  q[k + 1] < q[l + 1]
      BY <1>8
    <2>1. k + 1 < l + 1  OBVIOUS
    <2>2. QED  BY <1>8, <2>1 DEF Ordered
  <1>10. Ordered(f, r, n)
    <2>1. \A i \in SteerIndexes(f), k \in 1..Len(r) : f[i].id < r[k]
      BY <1>8 DEF Ordered
    <2>2. \A k \in 1..Len(r) : 1 <= r[k] /\ r[k] < n
      BY <1>8 DEF Ordered
    <2>3. QED  BY <1>9, <2>1, <2>2 DEF Ordered
  <1>11. Ordered(g, r, n)
    <2>1. ASSUME NEW i \in SteerIndexes(g), NEW j \in SteerIndexes(g), i < j
          PROVE  g[i].id < g[j].id
      <3>1. i \in SteerIndexes(f)
        BY <1>5, <1>6, <2>1 DEF last
      <3>2. CASE j = last
        BY <1>1, <1>6, <1>7, <3>1, <3>2 DEF Ordered
      <3>3. CASE j \in SteerIndexes(f)
        BY <1>6, <2>1, <3>1, <3>3 DEF Ordered
      <3>4. QED  BY <1>5, <3>2, <3>3
    <2>2. ASSUME NEW i \in SteerIndexes(g)
          PROVE  1 <= g[i].id /\ g[i].id < n
      <3>1. CASE i = last
        BY <1>1, <1>7, <3>1 DEF Ordered
      <3>2. CASE i \in SteerIndexes(f)
        BY <1>6, <3>2 DEF Ordered
      <3>3. QED  BY <1>5, <3>1, <3>2
    <2>3. ASSUME NEW i \in SteerIndexes(g), NEW k \in 1..Len(r)
          PROVE  g[i].id < r[k]
      <3>1. CASE i = last
        BY <1>1, <1>7, <1>8, <3>1 DEF Ordered
      <3>2. CASE i \in SteerIndexes(f)
        BY <1>6, <1>8, <3>2 DEF Ordered
      <3>3. QED  BY <1>5, <3>1, <3>2
    <2>4. QED  BY <1>10, <2>1, <2>2, <2>3 DEF Ordered
  <1>12. ASSUME Complete(f, q, n) PROVE Complete(g, r, n)
    <2> SUFFICES ASSUME NEW m \in 1..(n - 1)
                 PROVE  \/ \E i \in SteerIndexes(g) : g[i].id = m
                        \/ \E k \in 1..Len(r) : r[k] = m
      BY DEF Complete
    <2>1. CASE \E i \in SteerIndexes(f) : f[i].id = m
      BY <1>5, <1>6, <2>1
    <2>2. ASSUME NEW k \in 1..Len(q), q[k] = m
          PROVE  \/ \E i \in SteerIndexes(g) : g[i].id = m
                 \/ \E l \in 1..Len(r) : r[l] = m
      <3>1. CASE k = 1
        BY <1>7, <2>2, <3>1
      <3>2. CASE k # 1
        <4>1. k - 1 \in 1..Len(r) /\ (k - 1) + 1 = k
          BY <1>1, <1>3, <3>2
        <4>2. r[k - 1] = q[k]
          BY <1>8, <4>1
        <4>3. QED  BY <2>2, <4>1, <4>2
      <3>3. QED  BY <3>1, <3>2
    <2>3. QED  BY <1>12, <2>1, <2>2 DEF Complete
  <1>13. QED  BY <1>10, <1>11, <1>12 DEF g, r, x

LEMMA QueuedItem ==
  ASSUME NEW f \in Seq(Item), NEW q \in Seq(Nat), NEW n \in Nat \ {0},
         Ordered(f, q, n)
  PROVE  /\ Ordered(f, Append(q, n), n + 1)
         /\ Complete(f, q, n) => Complete(f, Append(q, n), n + 1)
  <1> DEFINE r == Append(q, n)
  <1>1. /\ Len(r) = Len(q) + 1 /\ r[Len(q) + 1] = n /\ Len(q) \in Nat
        /\ \A k \in 1..Len(q) : r[k] = q[k] /\ q[k] \in Nat
    OBVIOUS
  <1> HIDE DEF r
  <1>2. \A k \in 1..Len(r) : k \in 1..Len(q) \/ k = Len(q) + 1
    BY <1>1
  <1>3. \A k \in 1..Len(q) : k \in 1..Len(r) /\ k < Len(q) + 1
    BY <1>1
  <1>4. Len(q) + 1 \in 1..Len(r)
    BY <1>1
  <1>5. Ordered(f, r, n + 1)
    <2>1. ASSUME NEW i \in SteerIndexes(f)
          PROVE  1 <= f[i].id /\ f[i].id < n /\ f[i].id < n + 1
      BY SteerIds DEF Ordered
    <2>2. ASSUME NEW i \in SteerIndexes(f), NEW k \in 1..Len(r)
          PROVE  f[i].id < r[k]
      BY <1>1, <1>2, <2>1 DEF Ordered
    <2>3. ASSUME NEW k \in 1..Len(q)
          PROVE  1 <= q[k] /\ q[k] < n
      BY DEF Ordered
    <2>4. ASSUME NEW k \in 1..Len(r), NEW l \in 1..Len(r), k < l
          PROVE  r[k] < r[l]
      <3>1. k \in 1..Len(q)  BY <1>1, <2>4
      <3>2. CASE l \in 1..Len(q)
        BY <1>1, <2>4, <3>1, <3>2 DEF Ordered
      <3>3. CASE l = Len(q) + 1
        BY <1>1, <2>3, <3>1, <3>3
      <3>4. QED  BY <1>2, <3>2, <3>3
    <2>5. ASSUME NEW k \in 1..Len(r)
          PROVE  1 <= r[k] /\ r[k] < n + 1
      <3>1. CASE k \in 1..Len(q)
        BY <1>1, <2>3, <3>1
      <3>2. CASE k = Len(q) + 1
        BY <1>1, <3>2
      <3>3. QED  BY <1>2, <3>1, <3>2
    <2>6. \A i, j \in SteerIndexes(f) : i < j => f[i].id < f[j].id
      BY DEF Ordered
    <2>7. QED  BY <2>1, <2>2, <2>4, <2>5, <2>6 DEF Ordered
  <1>6. ASSUME Complete(f, q, n) PROVE Complete(f, r, n + 1)
    <2>0. (n + 1) - 1 = n  OBVIOUS
    <2> SUFFICES ASSUME NEW m \in 1..n
                 PROVE  \/ \E i \in SteerIndexes(f) : f[i].id = m
                        \/ \E k \in 1..Len(r) : r[k] = m
      BY <2>0 DEF Complete
    <2>1. CASE m = n
      BY <1>1, <1>4, <2>1
    <2>2. CASE m # n
      <3>1. m \in 1..(n - 1)  BY <2>2
      <3>2. QED  BY <1>1, <1>3, <1>6, <3>1 DEF Complete
    <2>3. QED  BY <2>1, <2>2
  <1>7. QED  BY <1>5, <1>6 DEF r

LEMMA FewerItems ==
  ASSUME NEW f \in Seq(Item), NEW q \in Seq(Nat), NEW n \in Nat,
         Ordered(f, q, n), NEW a \in 1..(Len(f) + 1), NEW b \in 0..Len(f)
  PROVE  Ordered(SubSeq(f, a, b), q, n) /\ Ordered(f, <<>>, n)
  <1> DEFINE g == SubSeq(f, a, b)
  <1>1. /\ Len(f) \in Nat /\ a \in Nat /\ b \in Nat
        /\ \A i \in a..b : f[i] \in Item
    BY ElementOfSeq
  <1>2. Len(g) = IF a <= b THEN b - a + 1 ELSE 0
    BY <1>1, SubSeqProperties
  <1>3. \A i \in 1..Len(g) : g[i] = f[a + i - 1]
    BY <1>1, SubSeqProperties
  <1> HIDE DEF g
  <1>4. \A i \in 1..Len(g) : a + i - 1 \in 1..Len(f)
    BY <1>1, <1>2
  <1>5. ASSUME NEW i \in SteerIndexes(g)
        PROVE  i \in Int /\ a + i - 1 \in SteerIndexes(f) /\ g[i] = f[a + i - 1]
    <2>1. i \in 1..Len(g) /\ g[i].kind = "steer"  BY DEF SteerIndexes
    <2>2. a + i - 1 \in 1..Len(f) /\ g[i] = f[a + i - 1]  BY <1>3, <1>4, <2>1
    <2>3. QED  BY <2>1, <2>2 DEF SteerIndexes
  <1>6. ASSUME NEW i \in SteerIndexes(g), NEW j \in SteerIndexes(g), i < j
        PROVE  g[i].id < g[j].id
    <2>1. a + i - 1 < a + j - 1  BY <1>1, <1>5, <1>6
    <2>2. f[a + i - 1].id < f[a + j - 1].id
      BY <1>5, <2>1 DEF Ordered
    <2>3. QED  BY <1>5, <2>2
  <1>7. Ordered(g, q, n)
    BY <1>5, <1>6 DEF Ordered
  <1>8. Ordered(f, <<>>, n)
    BY DEF Ordered
  <1>9. QED  BY <1>7, <1>8 DEF g

\* Without a crash no line is torn; without a crash or a branch none is lost.
FifoInv ==
  /\ Ordered(file, steering, nextSteer)
  /\ crashes = 0 => ~torn
  /\ crashes = 0 /\ forks = 0 => Complete(file, steering, nextSteer)

LEMMA FifoWrite ==
  ASSUME TypeOK, FifoInv, NEW x \in Item, x.kind # "steer", Record(x),
         UNCHANGED <<steering, nextSteer, crashes, forks>>
  PROVE  FifoInv'
  <1>1. file \in Seq(Item) /\ steering \in Seq(Nat) /\ nextSteer \in Nat
    BY DEF TypeOK, SequencesOK, CountersOK
  <1>2. CASE torn
    BY <1>2 DEF Record, FifoInv
  <1>3. CASE ~torn
    <2>1. file' = Append(file, x) /\ torn' = FALSE
      BY <1>3 DEF Record
    <2>2. QED  BY <1>1, <2>1, OtherItem DEF FifoInv
  <1>4. QED  BY <1>2, <1>3

LEMMA FifoTake ==
  ASSUME TypeOK, FifoInv, steering # <<>>,
         Record(Entry("steer", Head(steering))), steering' = Tail(steering),
         UNCHANGED <<nextSteer, crashes, forks>>
  PROVE  FifoInv'
  <1> DEFINE x == Entry("steer", Head(steering))
  <1>1. file \in Seq(Item) /\ steering \in Seq(Nat) /\ nextSteer \in Nat
    BY DEF TypeOK, SequencesOK, CountersOK
  <1>2. Ordered(file, steering, nextSteer)
    BY DEF FifoInv
  <1>3. CASE torn
    <2>1. file' = file /\ torn' = FALSE /\ crashes # 0
      BY <1>3 DEF Record, FifoInv
    <2>2. Ordered(file, Tail(steering), nextSteer)
      BY <1>1, <1>2, TakenItem
    <2>3. QED  BY <2>1, <2>2 DEF FifoInv
  <1>4. CASE ~torn
    <2>1. file' = Append(file, x) /\ torn' = FALSE
      BY <1>4 DEF Record
    <2>2. /\ Ordered(Append(file, x), Tail(steering), nextSteer)
          /\ Complete(file, steering, nextSteer) =>
               Complete(Append(file, x), Tail(steering), nextSteer)
      BY <1>1, <1>2, TakenItem
    <2>3. QED  BY <2>1, <2>2 DEF FifoInv
  <1>5. QED  BY <1>3, <1>4

LEMMA FifoFork ==
  ASSUME TypeOK, FifoInv, fork_session
  PROVE  FifoInv'
  <1>1. file \in Seq(Item) /\ steering \in Seq(Nat) /\ nextSteer \in Nat
        /\ forks \in Nat
    BY DEF TypeOK, SequencesOK, CountersOK
  <1> DEFINE w == load_items(file)
  <1>2. w \in Seq(Item)
    BY <1>1, PruneType DEF load_items
  <1>3. Ordered(w, steering, nextSteer)
    <2>1. CASE Compactions(file) = {}
      BY <1>1, <2>1, PruneCases DEF load_items, FifoInv
    <2>2. ASSUME NEW i \in Compactions(file)
          PROVE  Ordered(w, steering, nextSteer)
      <3>1. i \in 1..Len(file) /\ w = SubSeq(file, i, Len(file))
        BY <1>1, PruneCases DEF load_items, Compactions
      <3>2. Len(file) \in Nat /\ i \in 1..(Len(file) + 1) /\ Len(file) \in 0..Len(file)
        BY <1>1, <3>1
      <3>3. QED  BY <1>1, <3>1, <3>2, FewerItems DEF FifoInv
    <2>3. QED  BY <2>1, <2>2
  <1> HIDE DEF w
  <1>4. PICK n \in 0..Len(w) : file' = SubSeq(w, 1, n)
    BY DEF fork_session, w
  <1>5. 1 \in 1..(Len(w) + 1)
    BY <1>2
  <1>6. Ordered(file', steering, nextSteer)
    BY <1>1, <1>2, <1>3, <1>4, <1>5, FewerItems
  <1>7. /\ torn' = FALSE /\ forks' # 0
        /\ UNCHANGED <<steering, nextSteer, crashes>>
    BY <1>1 DEF fork_session, ids
  <1>8. QED  BY <1>6, <1>7 DEF FifoInv

LEMMA FifoNext == TypeOK /\ FifoInv /\ [Next]_vars => FifoInv'
  <1> SUFFICES ASSUME TypeOK, FifoInv, [Next]_vars PROVE FifoInv'
    OBVIOUS
  <1>0. /\ file \in Seq(Item) /\ steering \in Seq(Nat) /\ calls \in Seq(Nat)
        /\ nextSteer \in Nat \ {0} /\ nextCall \in Nat /\ crashes \in Nat
    BY DEF TypeOK, SequencesOK, CountersOK
  <1> USE DEF bounds, ids, disk, locals
  <1>1. \A k \in Kinds, n \in Nat : Entry(k, n) \in Item /\ Entry(k, n).kind = k
    BY DEF Entry, Item
  <1>2. CASE run
    <2>1. CASE AppendItem(Entry("prompt", 0))
      BY <1>1, <1>2, <2>1, FifoWrite DEF run, AppendItem, Kinds
    <2>2. CASE UNCHANGED <<disk, items, skewed>>
      BY <1>2, <2>2 DEF run, FifoInv
    <2>3. QED  BY <1>2, <2>1, <2>2 DEF run
  <1>3. CASE PlainItem
    <2>1. PICK k \in {"reasoning", "message"} : AppendItem(Entry(k, 0))
      BY <1>3 DEF PlainItem
    <2>2. QED  BY <1>1, <1>3, <2>1, FifoWrite DEF PlainItem, AppendItem, Kinds
  <1>4. CASE CallItem
    BY <1>0, <1>1, <1>4, FifoWrite DEF CallItem, AppendItem, Kinds
  <1>5. CASE CompactionItem
    BY <1>1, <1>5, FifoWrite DEF CompactionItem, Kinds
  <1>6. CASE ContinueAlone
    BY <1>1, <1>6, FifoWrite DEF ContinueAlone, Continue, AppendItem, Kinds
  <1>7. CASE Invoke
    <2>1. Head(calls) \in Nat
      BY <1>0, <1>7 DEF Invoke, TypeOK, ControlOK
    <2>2. QED  BY <1>1, <1>7, <2>1, FifoWrite DEF Invoke, AppendItem, Kinds
  <1>8. CASE AfterResult
    <2>1. UNCHANGED <<steering, nextSteer, crashes, forks>>
      BY <1>8 DEF AfterResult
    <2>2. CASE pending
      BY <1>1, <1>8, <2>1, <2>2, FifoWrite DEF AfterResult, AppendItem, Kinds
    <2>3. CASE ~pending
      BY <1>8, <2>1, <2>3 DEF AfterResult, FifoInv
    <2>4. QED  BY <2>2, <2>3
  <1>9. CASE DrainSteering
    BY <1>9, FifoTake DEF DrainSteering, AppendItem
  <1>10. CASE SteerAfterAnswer
    BY <1>10, FifoTake DEF SteerAfterAnswer, Continue, AppendItem
  <1>11. CASE steer
    <2>1. /\ steering' = Append(steering, nextSteer) /\ nextSteer' = nextSteer + 1
          /\ UNCHANGED <<file, torn, crashes, forks>>
      BY <1>11 DEF steer
    <2>2. QED  BY <1>0, <2>1, QueuedItem DEF FifoInv
  <1>12. CASE Crash
    <2>1. steering' = <<>> /\ crashes' # 0 /\ UNCHANGED <<file, nextSteer>>
      BY <1>0, <1>12 DEF Crash
    <2>2. Ordered(file, <<>>, nextSteer)
      BY DEF Ordered, FifoInv
    <2>3. QED  BY <2>1, <2>2 DEF FifoInv
  <1>13. CASE fork_session
    BY <1>13, FifoFork
  <1>14. CASE \/ Request \/ TextDelta \/ StreamError \/ StreamEnd \/ Return
             \/ Abort \/ resume \/ MentionError \/ LastLook \/ UNCHANGED vars
    <2>1. UNCHANGED <<file, torn, steering, nextSteer, crashes, forks>>
      BY <1>14 DEF Request, TextDelta, StreamError, StreamEnd, Return, Abort,
         resume, MentionError, LastLook, vars
    <2>2. QED  BY <2>1 DEF FifoInv
  <1>15. QED
    BY <1>2, <1>3, <1>4, <1>5, <1>6, <1>7, <1>8, <1>9, <1>10, <1>11, <1>12,
       <1>13, <1>14 DEF Next

LEMMA FifoHolds == TypeOK /\ FifoInv => SteeringFifo
  <1> SUFFICES ASSUME TypeOK, FifoInv PROVE SteeringFifo
    OBVIOUS
  <1>0. file \in Seq(Item) /\ steering \in Seq(Nat) /\ nextSteer \in Nat
    BY DEF TypeOK, SequencesOK, CountersOK
  <1>1. \A i, j \in SteerIndexes(file) : i < j => file[i].id < file[j].id
    BY DEF FifoInv, Ordered
  <1>2. \A i \in SteerIndexes(file), q \in SeqSet(steering) : file[i].id < q
    BY DEF FifoInv, Ordered, SeqSet
  <1>3. \A i, j \in 1..Len(steering) : i < j => steering[i] < steering[j]
    BY DEF FifoInv, Ordered
  <1>4. ASSUME crashes = 0, forks = 0
        PROVE  1..(nextSteer - 1) =
                 {file[i].id : i \in SteerIndexes(file)} \cup SeqSet(steering)
    <2>1. Complete(file, steering, nextSteer)
      BY <1>4 DEF FifoInv
    <2>2. 1..(nextSteer - 1) \subseteq
            {file[i].id : i \in SteerIndexes(file)} \cup SeqSet(steering)
      BY <2>1 DEF Complete, SeqSet
    <2>3. ASSUME NEW i \in SteerIndexes(file)
          PROVE  file[i].id \in 1..(nextSteer - 1)
      <3>1. file[i].id \in Nat /\ 1 <= file[i].id /\ file[i].id < nextSteer
        BY <1>0, SteerIds DEF FifoInv, Ordered
      <3>2. QED  BY <1>0, <3>1
    <2>4. ASSUME NEW k \in 1..Len(steering)
          PROVE  steering[k] \in 1..(nextSteer - 1)
      <3>1. steering[k] \in Nat /\ 1 <= steering[k] /\ steering[k] < nextSteer
        BY <1>0 DEF FifoInv, Ordered
      <3>2. QED  BY <1>0, <3>1
    <2>5. QED  BY <2>2, <2>3, <2>4 DEF SeqSet
  <1>5. QED  BY <1>1, <1>2, <1>3, <1>4 DEF SteeringFifo

(* Steering reaches the rollout once, in the order it was accepted, and    *)
(* without a crash or a branch none is lost (agent.py: steer,              *)
(* _drain_steering; session.py: record).                                   *)
THEOREM SteeringInOrder == Spec => []SteeringFifo
  <1>1. Init => FifoInv
    BY DEF Init, FifoInv, Ordered, Complete, SteerIndexes
  <1>2. QED  BY <1>1, FifoNext, FifoHolds, TypeCorrect, PTL DEF Spec
=============================================================================
