--------------------------- MODULE PatchUndoProofs ---------------------------
(***************************************************************************)
(* Proofs about patches, formatter runs and undo for any set of files and  *)
(* contents, any retention and any number of calls, edits, faults and      *)
(* crashes: patches are atomic, what the user wrote is kept, and undoing   *)
(* every live checkpoint brings back the first contents.                   *)
(***************************************************************************)
EXTENDS PatchUndo, FiniteSetTheorems, SequenceTheorems, TLAPS

-----------------------------------------------------------------------------
(* The store as a set of checkpoints with distinct ids.                     *)

Partial == UNION {[D -> Values] : D \in SUBSET Files}

Checkpoints ==
  [id : Nat \ {0}, before : Partial, after : Partial,
   complete : BOOLEAN, undone : BOOLEAN]

Keyed(s) ==
  /\ s \in Seq(Checkpoints)
  /\ \A i, j \in 1..Len(s) : s[i].id = s[j].id => i = j

LEMMA RangeOf ==
  ASSUME NEW S, NEW s \in Seq(S)
  PROVE  /\ Range(s) = {s[i] : i \in 1..Len(s)} /\ Range(s) \subseteq S
         /\ Len(s) \in Nat /\ \A i \in 1..Len(s) : s[i] \in S
  BY DEF Range

LEMMA RangeFinite ==
  ASSUME NEW S, NEW s \in Seq(S)
  PROVE  /\ IsFiniteSet(Range(s)) /\ Cardinality(Range(s)) <= Len(s)
         /\ Cardinality(Range(s)) \in Nat
  <1>1. Len(s) \in Nat /\ 1 \in Int /\ Len(s) \in Int
    OBVIOUS
  <1>2. IsFiniteSet(1..Len(s)) /\ Cardinality(1..Len(s)) = Len(s)
    <2>1. IsFiniteSet(1..Len(s))
          /\ Cardinality(1..Len(s)) = IF 1 > Len(s) THEN 0 ELSE Len(s) - 1 + 1
      BY <1>1, FS_Interval
    <2>2. (IF 1 > Len(s) THEN 0 ELSE Len(s) - 1 + 1) = Len(s)
      BY <1>1
    <2>3. QED  BY <2>1, <2>2
  <1> DEFINE g == [i \in 1..Len(s) |-> s[i]]
  <1>3. g \in Surjection(1..Len(s), Range(s))
    BY RangeOf DEF Surjection
  <1>4. QED
    BY <1>2, <1>3, FS_Surjection, FS_CardinalityType

\* What is left of a sequence without its i-th element.
LEMMA RemoveAtOf ==
  ASSUME NEW S, NEW s \in Seq(S), NEW i \in 1..Len(s)
  PROVE  /\ RemoveAt(s, i) \in Seq(S) /\ Len(RemoveAt(s, i)) = Len(s) - 1
         /\ \A j \in 1..(Len(s) - 1) :
              RemoveAt(s, i)[j] = IF j < i THEN s[j] ELSE s[j + 1]
  <1> DEFINE a == SubSeq(s, 1, i - 1)
             b == SubSeq(s, i + 1, Len(s))
  <1>1. Len(s) \in Nat /\ i \in Nat /\ 1 <= i /\ i <= Len(s)
    OBVIOUS
  <1>2. \A j \in 1..Len(s) : s[j] \in S
    OBVIOUS
  <1>3. /\ a \in Seq(S) /\ Len(a) = i - 1
        /\ \A j \in 1..(i - 1) : a[j] = s[1 + j - 1]
    BY <1>1, <1>2, SubSeqProperties
  <1>4. /\ b \in Seq(S) /\ Len(b) = Len(s) - i
        /\ \A j \in 1..(Len(s) - i) : b[j] = s[i + 1 + j - 1]
    BY <1>1, <1>2, SubSeqProperties
  <1>5. RemoveAt(s, i) = a \o b
    BY DEF RemoveAt
  <1> HIDE DEF a, b
  <1>6. /\ a \o b \in Seq(S) /\ Len(a \o b) = Len(a) + Len(b)
        /\ \A j \in 1..(Len(a) + Len(b)) :
             (a \o b)[j] = IF j <= Len(a) THEN a[j] ELSE b[j - Len(a)]
    BY <1>3, <1>4, ConcatProperties
  <1>7. Len(a \o b) = Len(s) - 1
    BY <1>1, <1>3, <1>4, <1>6
  <1>8. ASSUME NEW j \in 1..(Len(s) - 1)
        PROVE  (a \o b)[j] = IF j < i THEN s[j] ELSE s[j + 1]
    <2>1. CASE j < i
      BY <1>1, <1>3, <1>4, <1>6, <2>1
    <2>2. CASE ~(j < i)
      <3>1. (a \o b)[j] = b[j - (i - 1)] /\ j - (i - 1) \in 1..(Len(s) - i)
        BY <1>1, <1>3, <1>4, <1>6, <2>2
      <3>2. i + 1 + (j - (i - 1)) - 1 = j + 1
        BY <1>1
      <3>3. QED  BY <1>4, <2>2, <3>1, <3>2
    <2>3. QED  BY <2>1, <2>2
  <1>9. QED  BY <1>5, <1>6, <1>7, <1>8

LEMMA OneMatch ==
  ASSUME Keyed(store), NEW i \in 1..Len(store)
  PROVE  Without(store[i].id) = RemoveAt(store, i)
  <1> DEFINE Test(c) == c.id = store[i].id
             I == {j \in 1..Len(store) : Test(store[j])}
  <1>1. I = {i}
    BY DEF Keyed
  <1>2. Min(I) = i
    BY <1>1 DEF Min
  <1>3. SelectInSeq(store, Test) = i
    BY <1>1, <1>2 DEF SelectInSeq
  <1>4. QED
    BY <1>1, <1>3 DEF Without, RemoveFirstMatch

LEMMA NoMatch ==
  ASSUME NEW id, \A i \in 1..Len(store) : store[i].id # id
  PROVE  Without(id) = store
  BY DEF Without, RemoveFirstMatch

LEMMA KeyedIds ==
  ASSUME NEW s, Keyed(s), NEW c \in Range(s), NEW d \in Range(s), c.id = d.id
  PROVE  c = d
  BY RangeOf DEF Keyed

LEMMA WithoutOf ==
  ASSUME Keyed(store), NEW id
  PROVE  /\ Keyed(Without(id)) /\ Range(Without(id)) = {c \in Range(store) : c.id # id}
         /\ Len(Without(id)) <= Len(store)
         /\ (\E c \in Range(store) : c.id = id) => Len(Without(id)) = Len(store) - 1
  <1>1. /\ store \in Seq(Checkpoints) /\ Range(store) = {store[i] : i \in 1..Len(store)}
        /\ Len(store) \in Nat
        /\ \A i, j \in 1..Len(store) : store[i].id = store[j].id => i = j
    BY RangeOf DEF Keyed
  <1>2. CASE \A i \in 1..Len(store) : store[i].id # id
    BY <1>1, <1>2, NoMatch
  <1>3. CASE ~(\A i \in 1..Len(store) : store[i].id # id)
    <2>1. PICK i \in 1..Len(store) : store[i].id = id
      BY <1>3
    <2> DEFINE t == RemoveAt(store, i)
    <2>2. Without(id) = t
      BY <2>1, OneMatch
    <2>3. /\ t \in Seq(Checkpoints) /\ Len(t) = Len(store) - 1
          /\ \A j \in 1..(Len(store) - 1) : t[j] = IF j < i THEN store[j] ELSE store[j + 1]
      BY <1>1, RemoveAtOf
    <2> HIDE DEF t
    <2> DEFINE at(j) == IF j < i THEN j ELSE j + 1
    <2>4. \A j \in 1..Len(t) : at(j) \in 1..Len(store) /\ at(j) # i
      BY <1>1, <2>3
    <2>5. \A j, k \in 1..Len(t) : at(j) = at(k) => j = k
      BY <1>1, <2>3
    <2>6. \A j \in 1..Len(t) : t[j] = store[at(j)]
      BY <2>3
    <2> HIDE DEF at
    <2>7. \A j, k \in 1..Len(t) : t[j].id = t[k].id => j = k
      BY <1>1, <2>4, <2>5, <2>6
    <2>8. Range(t) = {t[j] : j \in 1..Len(t)}
      BY <2>3, RangeOf
    <2>9. \A c \in Range(t) : c \in Range(store) /\ c.id # id
      BY <1>1, <2>1, <2>4, <2>8, <2>6
    <2>10. ASSUME NEW c \in Range(store), c.id # id PROVE c \in Range(t)
      <3>1. PICK j \in 1..Len(store) : c = store[j]
        BY <1>1
      <3>2. j # i
        BY <2>1, <2>10, <3>1
      <3>3. CASE j < i
        <4>1. j \in 1..Len(t)
          BY <1>1, <2>3, <3>3
        <4>2. t[j] = c
          BY <2>3, <3>1, <3>3, <4>1
        <4>3. QED  BY <2>8, <4>1, <4>2
      <3>4. CASE j > i
        <4>1. j - 1 \in 1..Len(t) /\ ~(j - 1 < i) /\ (j - 1) + 1 = j
          BY <1>1, <2>3, <3>4
        <4>2. t[j - 1] = c
          BY <2>3, <3>1, <4>1
        <4>3. QED  BY <2>8, <4>1, <4>2
      <3>5. QED  BY <3>2, <3>3, <3>4
    <2>11. Len(t) <= Len(store)
      BY <1>1, <2>3
    <2>12. QED  BY <2>2, <2>3, <2>7, <2>9, <2>10, <2>11 DEF Keyed
  <1>4. QED  BY <1>2, <1>3

LEMMA AppendedOf ==
  ASSUME NEW s, Keyed(s), NEW c \in Checkpoints, \A d \in Range(s) : d.id # c.id
  PROVE  /\ Keyed(Append(s, c)) /\ Range(Append(s, c)) = Range(s) \cup {c}
         /\ Len(Append(s, c)) = Len(s) + 1 /\ Append(s, c)[Len(s) + 1] = c
  <1>1. /\ s \in Seq(Checkpoints) /\ Range(s) = {s[i] : i \in 1..Len(s)}
        /\ Len(s) \in Nat
        /\ \A i, j \in 1..Len(s) : s[i].id = s[j].id => i = j
    BY RangeOf DEF Keyed
  <1> DEFINE t == Append(s, c)
  <1>2. /\ t \in Seq(Checkpoints) /\ Len(t) = Len(s) + 1 /\ t[Len(s) + 1] = c
        /\ \A i \in 1..Len(s) : t[i] = s[i]
    BY <1>1
  <1> HIDE DEF t
  <1>3. Range(t) = {t[i] : i \in 1..Len(t)}
    BY <1>2, RangeOf
  <1>4. \A i \in 1..Len(t) : i \in 1..Len(s) \/ i = Len(s) + 1
    BY <1>1, <1>2
  <1>5. \A i \in 1..Len(s) : i \in 1..Len(t)
    BY <1>1, <1>2
  <1>6. Len(s) + 1 \in 1..Len(t)
    BY <1>1, <1>2
  <1>7. Range(t) = Range(s) \cup {c}
    <2>1. \A x \in Range(t) : x \in Range(s) \cup {c}
      BY <1>1, <1>2, <1>3, <1>4
    <2>2. \A x \in Range(s) : x \in Range(t)
      BY <1>1, <1>2, <1>3, <1>5
    <2>3. c \in Range(t)
      BY <1>2, <1>3, <1>6
    <2>4. QED  BY <2>1, <2>2, <2>3
  <1>8. ASSUME NEW i \in 1..Len(t), NEW j \in 1..Len(t), t[i].id = t[j].id PROVE i = j
    <2>1. \A k \in 1..Len(s) : t[k].id # c.id
      BY <1>1, <1>2
    <2>2. QED  BY <1>1, <1>2, <1>4, <1>8, <2>1
  <1>9. QED  BY <1>2, <1>7, <1>8 DEF Keyed, t

LEMMA CleanupOf ==
  ASSUME NEW s, Keyed(s)
  PROVE  /\ Keyed(cleanup(s)) /\ Range(cleanup(s)) \subseteq Range(s)
         /\ Len(cleanup(s)) <= MAX_CHECKPOINTS
         /\ s # <<>> => s[Len(s)] \in Range(cleanup(s))
  <1>1. /\ s \in Seq(Checkpoints) /\ Range(s) = {s[i] : i \in 1..Len(s)}
        /\ Len(s) \in Nat /\ \A i \in 1..Len(s) : s[i] \in Checkpoints
        /\ \A i, j \in 1..Len(s) : s[i].id = s[j].id => i = j
    BY RangeOf DEF Keyed
  <1>2. MAX_CHECKPOINTS \in Nat /\ MAX_CHECKPOINTS >= 1
    BY PatchAssumption
  <1>3. s # <<>> => Len(s) \in 1..Len(s)
    BY <1>1
  <1>4. CASE Len(s) <= MAX_CHECKPOINTS
    BY <1>1, <1>3, <1>4 DEF cleanup
  <1>5. CASE ~(Len(s) <= MAX_CHECKPOINTS)
    <2> DEFINE k == Len(s) - MAX_CHECKPOINTS
               t == SubSeq(s, k + 1, Len(s))
    <2>1. k \in Nat /\ k + 1 \in 1..Len(s) + 1 /\ Len(s) - (k + 1) + 1 = MAX_CHECKPOINTS
      BY <1>1, <1>2, <1>5
    <2>2. cleanup(s) = t
      BY <1>5 DEF cleanup
    <2>3. /\ t \in Seq(Checkpoints) /\ Len(t) = MAX_CHECKPOINTS
          /\ \A i \in 1..MAX_CHECKPOINTS : t[i] = s[k + i]
      <3>1. \A i \in (k + 1)..Len(s) : s[i] \in Checkpoints
        BY <1>1, <2>1
      <3>2. /\ t \in Seq(Checkpoints)
            /\ Len(t) = IF k + 1 <= Len(s) THEN Len(s) - (k + 1) + 1 ELSE 0
            /\ \A i \in 1..(Len(s) - (k + 1) + 1) : t[i] = s[(k + 1) + i - 1]
        <4>1. k + 1 \in Nat /\ Len(s) \in Nat
          BY <1>1, <2>1
        <4> HIDE DEF k
        <4>2. QED  BY <1>1, <3>1, <4>1, SubSeqProperties DEF t
      <3>3. k + 1 <= Len(s) /\ \A i \in 1..MAX_CHECKPOINTS : (k + 1) + i - 1 = k + i
        BY <1>1, <1>2, <2>1
      <3>4. QED  BY <2>1, <3>2, <3>3
    <2> HIDE DEF t
    <2>4. \A i \in 1..MAX_CHECKPOINTS : k + i \in 1..Len(s)
      BY <1>1, <1>2, <2>1
    <2>5. k + MAX_CHECKPOINTS = Len(s) /\ MAX_CHECKPOINTS \in 1..MAX_CHECKPOINTS
      BY <1>1, <1>2
    <2>6. \A i, j \in 1..MAX_CHECKPOINTS : k + i = k + j => i = j
      BY <1>2, <2>1
    <2> HIDE DEF k
    <2>7. Range(t) = {t[i] : i \in 1..MAX_CHECKPOINTS}
      BY <2>3, RangeOf
    <2>8. Range(t) \subseteq Range(s) /\ s[Len(s)] \in Range(t)
      BY <1>1, <2>3, <2>4, <2>5, <2>7
    <2>9. \A i, j \in 1..Len(t) : t[i].id = t[j].id => i = j
      BY <1>1, <2>3, <2>4, <2>6
    <2>10. QED  BY <1>2, <2>2, <2>3, <2>8, <2>9 DEF Keyed
  <1>6. QED  BY <1>4, <1>5

LEMMA PendingIs ==
  ASSUME Keyed(store), NEW c \in Range(store), c.id = pending
  PROVE  Pending = c
  BY KeyedIds DEF Pending

LEMMA PartialOf ==
  ASSUME NEW p
  PROVE  p \in Partial <=> IsPartial(p)
  BY DEF Partial, IsPartial

LEMMA CheckpointOf ==
  ASSUME Keyed(store), NEW c \in Range(store)
  PROVE  /\ c \in Checkpoints
         /\ DOMAIN c.before \subseteq Files /\ c.before \in [DOMAIN c.before -> Values]
         /\ DOMAIN c.after \subseteq Files /\ c.after \in [DOMAIN c.after -> Values]
  <1>1. c \in Checkpoints
    BY RangeOf DEF Keyed
  <1>2. c.before \in Partial /\ c.after \in Partial
    BY <1>1 DEF Checkpoints
  <1>3. QED  BY <1>1, <1>2, PartialOf DEF IsPartial

LEMMA BumpedOf ==
  ASSUME Keyed(store), NEW c \in Checkpoints, \E d \in Range(store) : d.id = c.id
  PROVE  /\ Keyed(Bumped(c)) /\ Len(Bumped(c)) = Len(store)
         /\ Range(Bumped(c)) = {d \in Range(store) : d.id # c.id} \cup {c}
         /\ Keyed(cleanup(Bumped(c))) /\ Len(cleanup(Bumped(c))) <= MAX_CHECKPOINTS
         /\ Range(cleanup(Bumped(c))) \subseteq Range(Bumped(c))
         /\ c \in Range(cleanup(Bumped(c)))
  <1> DEFINE w == Without(c.id)
             b == Append(w, c)
  <1>1. /\ Keyed(w) /\ Range(w) = {d \in Range(store) : d.id # c.id}
        /\ Len(w) = Len(store) - 1
    BY WithoutOf
  <1>2. Bumped(c) = b
    BY DEF Bumped
  <1>3. Len(store) \in Nat /\ w \in Seq(Checkpoints) /\ Len(w) \in Nat
    BY <1>1, RangeOf DEF Keyed
  <1> HIDE DEF w
  <1>4. /\ Keyed(b) /\ Range(b) = Range(w) \cup {c}
        /\ Len(b) = Len(w) + 1 /\ b[Len(w) + 1] = c
    BY <1>1, AppendedOf
  <1> HIDE DEF b
  <1>5. b # <<>> /\ Len(b) = Len(store)
    BY <1>1, <1>3, <1>4
  <1>6. b[Len(b)] = c
    BY <1>4
  <1>7. QED
    BY <1>1, <1>2, <1>4, <1>5, <1>6, CleanupOf

LEMMA ForgottenOf ==
  ASSUME Keyed(store), NEW s
  PROVE  /\ Forgotten(s) \subseteq Files
         /\ \A c \in Range(store) : \A f \in DOMAIN c.before :
              Live(c) /\ f \notin Forgotten(s) => \E e \in Range(s) : e.id = c.id
  <1>1. \A c \in Range(store) : DOMAIN c.before \subseteq Files
    BY CheckpointOf
  <1>2. QED  BY <1>1 DEF Forgotten

-----------------------------------------------------------------------------
(* The inductive invariant.                                                 *)

\* A checkpoint that is begun and neither finished nor cancelled.
InProgress == pending # 0 /\ pc \in {"committing", "restoring", "formatting"}

WorkspaceInv ==
  /\ files \in [Files -> Values] /\ origin \in [Files -> Values]
  /\ author \in [Files -> {"user", "agent"}]
  /\ tainted \subseteq Files /\ dirty \subseteq tainted
  /\ nextId \in Nat \ {0} /\ faults \in Nat /\ crashes \in Nat

\* Ids name checkpoints, and each call leaves the store within its bound.
StoreInv ==
  /\ Keyed(store)
  /\ \A c \in Range(store) :
       /\ c.id < nextId /\ (c.undone => c.complete)
       /\ c.complete => DOMAIN c.after = DOMAIN c.before
  /\ Len(store) <= MAX_CHECKPOINTS + faults + IF InProgress THEN 1 ELSE 0
  /\ Cardinality({c \in Range(store) : c.complete}) <= MAX_CHECKPOINTS

\* What the variables of a call hold at each point of it.
CallInv ==
  /\ pc \in {"idle", "planning", "committing", "restoring", "formatting",
             "checking", "undoing", "recapturing"}
  /\ Touched \subseteq Files /\ plan \in [Touched -> Values] /\ snap \in [Touched -> Values]
  /\ todo \subseteq Files
  /\ pc \in {"idle", "formatting", "checking"} => Touched = {}
  /\ pc \in {"committing", "restoring", "undoing", "recapturing"} => todo \subseteq Touched

\* The checkpoint a call works on is in the store, in the state it needs.
PendingInv ==
  /\ pc \in {"idle", "planning"} => pending = 0
  /\ pc \in {"formatting", "checking", "undoing", "recapturing"} => pending # 0
  /\ pending # 0 => Pending \in Range(store) /\ Pending.id = pending
  /\ InProgress => ~Pending.complete
  /\ pc \in {"checking", "undoing", "recapturing"} => Live(Pending)
  /\ pc \in {"committing", "restoring"} /\ pending # 0 => DOMAIN Pending.before = Touched
  /\ pc \in {"undoing", "recapturing"} => Pending.before = plan
  /\ pc \in {"formatting", "checking"} => todo \subseteq DOMAIN Pending.before

\* What a file holds at each point of a call that the user does not disturb.
FileAsExpected(f) ==
  /\ f \in Touched =>
       /\ pc = "planning" => files[f] = snap[f]
       /\ pc \in {"committing", "undoing"} =>
            IF f \in todo THEN files[f] = snap[f]
                          ELSE files[f] = plan[f] /\ author[f] = "agent"
       /\ pc \in {"restoring", "recapturing"} =>
            IF f \in todo THEN files[f] = snap[f] \/ author[f] = "agent"
                          ELSE files[f] = snap[f] \/ f \in tainted
       /\ pc = "committing" /\ pending # 0 => Pending.before[f] = snap[f]
       /\ pc = "undoing" => Pending.after[f] = snap[f]
  /\ pc = "formatting" /\ f \in todo => files[f] = Pending.before[f]
  /\ pc = "checking" /\ f \in DOMAIN Pending.before \ todo => files[f] = Pending.after[f]
FileInv == \A f \in Files \ dirty : FileAsExpected(f)

\* The value of a file when the call in progress leaves no trace.
Base(f) ==
  IF f \in Touched THEN snap[f]
  ELSE IF pc = "formatting" /\ f \in DOMAIN Pending.before THEN Pending.before[f]
  ELSE files[f]

Recorded(f) == {c \in Range(store) : Live(c) /\ f \in DOMAIN c.before}
From(f, v) == {c \in Recorded(f) : c.before[f] = v}
To(f, v) == {c \in Recorded(f) : c.after[f] = v}
One(b) == IF b THEN 1 ELSE 0

\* The live changes of a file, in whatever order they were made and others
\* undone, lead from its first value to its present one: each value is left
\* as often as it is reached, but for the two ends.
Balanced(f, v) ==
  Cardinality(From(f, v)) + One(Base(f) = v) = Cardinality(To(f, v)) + One(origin[f] = v)
BalanceInv == \A f \in Files \ tainted, v \in Values : Balanced(f, v)

IInv ==
  /\ WorkspaceInv /\ StoreInv /\ CallInv /\ PendingInv /\ FileInv /\ BalanceInv

-----------------------------------------------------------------------------
(* The workspace and the variables of the call.                             *)

LEMMA PendingOf ==
  ASSUME StoreInv, PendingInv, pending # 0
  PROVE  /\ Pending \in Range(store) /\ Pending.id = pending /\ Pending \in Checkpoints
         /\ DOMAIN Pending.before \subseteq Files
         /\ Pending.before \in [DOMAIN Pending.before -> Values]
         /\ pc \in {"checking", "undoing", "recapturing"} =>
              DOMAIN Pending.after = DOMAIN Pending.before
  BY CheckpointOf DEF StoreInv, PendingInv, Live

LEMMA WorkspaceNext == IInv /\ [Next]_vars => WorkspaceInv'
  <1> SUFFICES ASSUME IInv, [Next]_vars PROVE WorkspaceInv'
    OBVIOUS
  <1>1. /\ WorkspaceInv /\ CallInv /\ Keyed(store) /\ StoreInv /\ PendingInv
        /\ \A s : Forgotten(s) \subseteq Files
    BY ForgottenOf DEF IInv, StoreInv
  <1> USE DEF WorkspaceInv, bounds, history, locals, EndCall, Fault
  <1>2. CASE PlanOperation \/ Reject \/ Begin \/ StageFails \/ CommitFailed
    BY <1>1, <1>2 DEF PlanOperation, Reject, Begin, StageFails, CommitFailed
  <1>3. CASE Finish \/ FinishFormat
    BY <1>1, <1>3 DEF Finish, FinishFormat
  <1>4. CASE FinishWithout \/ MarkUndone
    BY <1>1, <1>4 DEF FinishWithout, MarkUndone, CallInv
  <1>5. CASE BeginFormat \/ Undo \/ Conflict \/ Capture \/ UndoRaises \/ UndoFailed
    BY <1>1, <1>5 DEF BeginFormat, Undo, Conflict, Capture, UndoRaises, UndoFailed
  <1>6. CASE FinishFormatRaises
    <2>1. DOMAIN Pending.before \subseteq Files
      BY <1>1, <1>6, PendingOf DEF FinishFormatRaises, PendingInv
    <2>2. QED  BY <1>1, <1>6, <2>1 DEF FinishFormatRaises
  <1>7. ASSUME NEW f \in Files, Replace(f) \/ RestoreFile(f) \/ UndoFile(f)
        PROVE  WorkspaceInv'
    <2>1. f \in todo => plan[f] \in Values /\ snap[f] \in Values
      BY <1>1, <1>7 DEF CallInv, Replace, RestoreFile, UndoFile
    <2>2. ASSUME NEW v \in Values, Write(f, v)
          PROVE  files' \in [Files -> Values] /\ author' \in [Files -> {"user", "agent"}]
      BY <1>1, <2>2 DEF Write
    <2>3. CASE Replace(f)
      BY <1>1, <2>1, <2>2, <2>3 DEF Replace
    <2>4. CASE RestoreFile(f)
      BY <1>1, <2>1, <2>2, <2>4 DEF RestoreFile
    <2>5. CASE UndoFile(f)
      BY <1>1, <2>1, <2>2, <2>5 DEF UndoFile
    <2>6. QED  BY <1>7, <2>3, <2>4, <2>5
  <1>8. ASSUME NEW f \in Files, FormatFile(f) PROVE WorkspaceInv'
    BY <1>1, <1>8 DEF FormatFile, Write, Values
  <1>9. ASSUME NEW f \in Files, ReplaceRaises(f) \/ CheckFile(f) PROVE WorkspaceInv'
    BY <1>1, <1>9 DEF ReplaceRaises, CheckFile
  <1>10. ASSUME NEW f \in Files, Edit(f) PROVE WorkspaceInv'
    BY <1>1, <1>10 DEF Edit
  <1>11. CASE Crash
    <2>1. pc = "formatting" => DOMAIN Pending.before \subseteq Files
      BY <1>1, PendingOf DEF PendingInv
    <2>2. Touched \subseteq Files
      BY <1>1 DEF CallInv
    <2>3. QED  BY <1>1, <1>11, <2>1, <2>2 DEF Crash
  <1>12. CASE UNCHANGED vars
    BY <1>1, <1>12 DEF vars
  <1>13. QED
    BY <1>2, <1>3, <1>4, <1>5, <1>6, <1>7, <1>8, <1>9, <1>10, <1>11, <1>12 DEF Next

LEMMA CallNext == IInv /\ [Next]_vars => CallInv'
  <1> SUFFICES ASSUME IInv, [Next]_vars PROVE CallInv'
    OBVIOUS
  <1>1. WorkspaceInv /\ CallInv /\ StoreInv /\ PendingInv
    BY DEF IInv
  <1>2. DOMAIN Nothing = {} /\ Nothing \in [{} -> Values]
    BY DEF Nothing
  <1>3. EndCall => CallInv'
    BY <1>1, <1>2 DEF EndCall, CallInv, Touched
  <1>4. CASE Reject \/ StageFails \/ CommitFailed \/ Finish \/ FinishWithout
             \/ FinishFormatRaises \/ Conflict \/ UndoFailed \/ MarkUndone \/ Crash
    BY <1>3, <1>4 DEF Reject, StageFails, CommitFailed, Finish, FinishWithout,
         FinishFormatRaises, Conflict, UndoFailed, MarkUndone, Crash
  <1>5. CASE PlanOperation
    <2>1. PICK f \in Files \ Touched, v \in Values :
            /\ plan' = [g \in Touched \cup {f} |-> IF g = f THEN v ELSE plan[g]]
            /\ snap' = [g \in Touched \cup {f} |-> IF g = f THEN files[f] ELSE snap[g]]
      BY <1>5 DEF PlanOperation
    <2>2. Touched' = Touched \cup {f}
      BY <2>1 DEF Touched
    <2>3. plan' \in [Touched' -> Values] /\ snap' \in [Touched' -> Values]
      BY <1>1, <2>1, <2>2 DEF CallInv, WorkspaceInv
    <2>4. QED  BY <1>1, <1>5, <2>2, <2>3 DEF CallInv, PlanOperation
  <1>6. CASE Begin \/ UndoRaises
    BY <1>1, <1>6 DEF Begin, UndoRaises, CallInv, Touched, history
  <1>7. CASE BeginFormat
    BY <1>1, <1>7 DEF BeginFormat, CallInv, Touched
  <1>8. CASE FinishFormat
    <2>1. DOMAIN Pending.before \subseteq Files
      BY <1>1, <1>8, PendingOf DEF FinishFormat, PendingInv
    <2>2. DOMAIN [Pending EXCEPT !.after = Restrict(files, DOMAIN Pending.before),
                                 !.complete = TRUE].before \subseteq Files
      BY <1>1, <1>8, <2>1, PendingOf DEF FinishFormat, PendingInv, Checkpoints
    <2>3. QED  BY <1>1, <1>3, <1>8, <2>2 DEF FinishFormat, CallInv, Touched
  <1>9. CASE Undo
    <2>1. \A c \in Range(store) : DOMAIN c.before \subseteq Files
      BY <1>1, CheckpointOf DEF StoreInv
    <2>2. QED  BY <1>1, <1>9, <2>1 DEF Undo, CallInv, Touched
  <1>10. CASE Capture
    <2>1. DOMAIN Pending.before \subseteq Files
          /\ Pending.before \in [DOMAIN Pending.before -> Values]
      BY <1>1, <1>10, PendingOf DEF Capture, PendingInv
    <2>2. QED  BY <1>1, <1>10, <2>1 DEF Capture, CallInv, Touched, Restrict, WorkspaceInv
  <1>11. ASSUME NEW f \in Files,
                Replace(f) \/ ReplaceRaises(f) \/ RestoreFile(f) \/ FormatFile(f)
                \/ CheckFile(f) \/ UndoFile(f) \/ Edit(f)
         PROVE  CallInv'
    BY <1>1, <1>11 DEF Replace, ReplaceRaises, RestoreFile, FormatFile, CheckFile,
         UndoFile, Edit, CallInv, Touched, locals
  <1>12. CASE UNCHANGED vars
    BY <1>1, <1>12 DEF vars, locals, CallInv, Touched
  <1>13. QED
    BY <1>4, <1>5, <1>6, <1>7, <1>8, <1>9, <1>10, <1>11, <1>12 DEF Next

-----------------------------------------------------------------------------
(* The store.                                                               *)

Sound(c) ==
  /\ c.id < nextId /\ (c.undone => c.complete)
  /\ c.complete => DOMAIN c.after = DOMAIN c.before
Complete(S) == {c \in S : c.complete}

LEMMA EntryOf ==
  ASSUME WorkspaceInv, NEW S \in SUBSET Files
  PROVE  /\ Entry(S) \in Checkpoints /\ Entry(S).id = nextId
         /\ DOMAIN Entry(S).before = S /\ \A f \in S : Entry(S).before[f] = files[f]
         /\ ~Entry(S).complete /\ ~Entry(S).undone
  <1>1. Restrict(files, S) \in [S -> Values] /\ DOMAIN Restrict(files, S) = S
    BY DEF Restrict, WorkspaceInv
  <1>2. Restrict(files, S) \in Partial
    BY <1>1, PartialOf DEF IsPartial
  <1>3. Nothing \in Partial
    <2>1. DOMAIN Nothing = {} /\ Nothing \in [{} -> Values]
      BY DEF Nothing
    <2>2. QED  BY <2>1, PartialOf DEF IsPartial
  <1>4. nextId \in Nat \ {0}
    BY DEF WorkspaceInv
  <1>5. QED
    BY <1>1, <1>2, <1>3, <1>4 DEF Entry, Checkpoints, Restrict

LEMMA StoreKept ==
  ASSUME WorkspaceInv, StoreInv, store' = store, nextId' \in {nextId, nextId + 1},
         \/ faults' = faults /\ (InProgress => InProgress')
         \/ faults' = faults + 1
  PROVE  StoreInv'
  <1>1. /\ Len(store) \in Nat /\ MAX_CHECKPOINTS \in Nat /\ faults \in Nat
        /\ Len(store) <= MAX_CHECKPOINTS + faults + One(InProgress)
    BY RangeOf, PatchAssumption DEF StoreInv, Keyed, WorkspaceInv, One
  <1>2. Len(store) <= MAX_CHECKPOINTS + faults' + One(InProgress')
    BY <1>1 DEF One
  <1>3. Len(store') <= MAX_CHECKPOINTS + faults' + IF InProgress' THEN 1 ELSE 0
    BY <1>2 DEF One
  <1>4. \A c \in Range(store) : c.id < nextId'
    BY CheckpointOf DEF StoreInv, WorkspaceInv, Checkpoints
  <1>5. QED  BY <1>3, <1>4 DEF StoreInv, Keyed

LEMMA StoreAdded ==
  ASSUME WorkspaceInv, StoreInv, NEW S \in SUBSET Files, store' = Append(store, Entry(S)),
         nextId' = nextId + 1, faults' = faults, ~InProgress, InProgress'
  PROVE  /\ StoreInv' /\ Range(store)' = Range(store) \cup {Entry(S)}
         /\ \A c \in Range(store) : c.id # nextId
  <1>1. /\ Keyed(store) /\ \A c \in Range(store) : Sound(c) /\ c \in Checkpoints
    BY CheckpointOf DEF StoreInv, Sound
  <1>2. \A c \in Range(store) : c.id # nextId
    BY <1>1 DEF Sound, WorkspaceInv, Checkpoints
  <1>3. /\ Keyed(store') /\ Range(store') = Range(store) \cup {Entry(S)}
        /\ Len(store') = Len(store) + 1
    BY <1>1, <1>2, EntryOf, AppendedOf
  <1>4. \A c \in Range(store') : Sound(c)'
    BY <1>1, <1>3, EntryOf DEF Sound, WorkspaceInv, Checkpoints
  <1>5. Complete(Range(store')) = Complete(Range(store))
    BY <1>3, EntryOf DEF Complete
  <1>6. Len(store') <= MAX_CHECKPOINTS + faults' + IF InProgress' THEN 1 ELSE 0
    <2>1. /\ Len(store) \in Nat /\ MAX_CHECKPOINTS \in Nat /\ faults \in Nat
          /\ Len(store) <= MAX_CHECKPOINTS + faults + 0
      BY <1>1, RangeOf, PatchAssumption DEF StoreInv, Keyed, WorkspaceInv
    <2>2. Len(store) + 1 <= MAX_CHECKPOINTS + faults + 1
      BY <2>1
    <2>3. QED  BY <1>3, <2>2
  <1>7. QED
    BY <1>2, <1>3, <1>4, <1>5, <1>6 DEF StoreInv, Keyed, Sound, Complete

LEMMA StoreRemoved ==
  ASSUME WorkspaceInv, StoreInv, PendingInv, store' = Without(pending), nextId' = nextId,
         faults' \in {faults, faults + 1}, pc \in {"committing", "restoring"}
  PROVE  /\ StoreInv' /\ Range(store)' = {c \in Range(store) : c.id # pending}
  <1>1. /\ Keyed(store) /\ \A c \in Range(store) : Sound(c) /\ c \in Checkpoints
    BY CheckpointOf DEF StoreInv, Sound
  <1>2. /\ Keyed(store') /\ Range(store') = {c \in Range(store) : c.id # pending}
        /\ Len(store') <= Len(store)
        /\ pending # 0 => Len(store') = Len(store) - 1
    BY <1>1, WithoutOf DEF PendingInv
  <1>3. Complete(Range(store')) = Complete(Range(store))
    <2>1. \A c \in Range(store) : c.complete => c.id # pending
      <3>1. ASSUME NEW c \in Range(store), c.id = pending PROVE ~c.complete
        <4>1. pending # 0 /\ Pending = c
          BY <1>1, <3>1, PendingIs DEF Checkpoints
        <4>2. QED  BY <4>1 DEF PendingInv, InProgress
      <3>2. QED  BY <3>1
    <2>2. QED  BY <1>2, <2>1 DEF Complete
  <1>4. Len(store') <= MAX_CHECKPOINTS + faults' + IF InProgress' THEN 1 ELSE 0
    <2>1. /\ Len(store) \in Nat /\ Len(store') \in Nat /\ MAX_CHECKPOINTS \in Nat
          /\ faults \in Nat
          /\ Len(store) <= MAX_CHECKPOINTS + faults + IF pending # 0 THEN 1 ELSE 0
      BY <1>1, <1>2, RangeOf, PatchAssumption DEF StoreInv, Keyed, WorkspaceInv, InProgress
    <2>2. Len(store') <= MAX_CHECKPOINTS + faults
      BY <1>2, <2>1
    <2>3. QED  BY <2>1, <2>2
  <1>5. QED
    BY <1>1, <1>2, <1>3, <1>4 DEF StoreInv, Keyed, Sound, Complete

LEMMA StoreCleaned ==
  ASSUME WorkspaceInv, StoreInv, NEW s, Keyed(s), store' = cleanup(s), nextId' = nextId,
         faults' = faults, ~InProgress', \A c \in Range(s) : Sound(c)
  PROVE  StoreInv'
  <1>1. /\ Keyed(store') /\ Range(store') \subseteq Range(s)
        /\ Len(store') <= MAX_CHECKPOINTS /\ Len(store') \in Nat
    BY CleanupOf, RangeOf DEF Keyed
  <1>2. /\ IsFiniteSet(Range(store')) /\ Cardinality(Range(store')) <= Len(store')
        /\ Cardinality(Range(store')) \in Nat
    BY <1>1, RangeFinite DEF Keyed
  <1>3. Complete(Range(store')) \in SUBSET Range(store')
    BY DEF Complete
  <1>4. /\ Cardinality(Complete(Range(store'))) <= Cardinality(Range(store'))
        /\ Cardinality(Complete(Range(store'))) \in Nat
    BY <1>2, <1>3, FS_Subset, FS_CardinalityType
  <1>5. MAX_CHECKPOINTS \in Nat /\ faults \in Nat
    BY PatchAssumption DEF WorkspaceInv
  <1>6. Cardinality(Complete(Range(store'))) <= MAX_CHECKPOINTS
    BY <1>1, <1>2, <1>4, <1>5
  <1>7. Len(store') <= MAX_CHECKPOINTS + faults + 0
    BY <1>1, <1>5
  <1>8. \A c \in Range(store') : Sound(c)
    BY <1>1
  <1>9. QED
    BY <1>1, <1>6, <1>7, <1>8 DEF StoreInv, Keyed, Sound, Complete

Finished(a) == [Pending EXCEPT !.after = a, !.complete = TRUE]
Undone == [Pending EXCEPT !.undone = TRUE]

LEMMA FinishedOf ==
  ASSUME StoreInv, PendingInv, InProgress,
         NEW a \in Partial, DOMAIN a = DOMAIN Pending.before
  PROVE  /\ Finished(a) \in Checkpoints /\ Finished(a).id = pending
         /\ Finished(a).before = Pending.before /\ Finished(a).after = a
         /\ Live(Finished(a)) /\ Finished(a).complete /\ Sound(Finished(a))
  <1>1. Pending \in Checkpoints /\ Pending.id = pending /\ Sound(Pending) /\ ~Pending.complete
    BY PendingOf DEF InProgress, StoreInv, PendingInv, Sound
  <1>2. QED  BY <1>1 DEF Finished, Checkpoints, Live, Sound

LEMMA UndoneOf ==
  ASSUME StoreInv, PendingInv, pc = "undoing"
  PROVE  /\ Undone \in Checkpoints /\ Undone.id = pending /\ Undone.before = Pending.before
         /\ Undone.complete /\ Undone.undone /\ Sound(Undone)
  <1>1. Pending \in Checkpoints /\ Pending.id = pending /\ Sound(Pending) /\ Live(Pending)
    BY PendingOf DEF StoreInv, PendingInv, Sound
  <1>2. QED  BY <1>1 DEF Undone, Checkpoints, Live, Sound

LEMMA StoreFinished ==
  ASSUME WorkspaceInv, StoreInv, PendingInv, InProgress,
         NEW a \in Partial, DOMAIN a = DOMAIN Pending.before,
         store' = cleanup(Bumped(Finished(a))), nextId' = nextId, faults' = faults, ~InProgress'
  PROVE  /\ StoreInv' /\ Finished(a) \in Range(store')
         /\ Range(store') \subseteq {c \in Range(store) : c.id # pending} \cup {Finished(a)}
  <1> DEFINE c == Finished(a)
  <1>1. /\ Keyed(store) /\ \A d \in Range(store) : Sound(d)
        /\ c \in Checkpoints /\ c.id = pending /\ Sound(c)
        /\ \E d \in Range(store) : d.id = pending
    BY FinishedOf, PendingOf DEF StoreInv, Sound, InProgress
  <1> HIDE DEF c
  <1>2. /\ Keyed(Bumped(c)) /\ Range(Bumped(c)) = {d \in Range(store) : d.id # pending} \cup {c}
        /\ Range(cleanup(Bumped(c))) \subseteq Range(Bumped(c))
        /\ c \in Range(cleanup(Bumped(c)))
    BY <1>1, BumpedOf
  <1>3. \A d \in Range(Bumped(c)) : Sound(d)
    BY <1>1, <1>2
  <1>4. store' = cleanup(Bumped(c))
    BY DEF c
  <1>5. StoreInv'
    BY <1>2, <1>3, <1>4, StoreCleaned
  <1>6. QED  BY <1>2, <1>4, <1>5 DEF c

LEMMA StoreMarked ==
  ASSUME WorkspaceInv, StoreInv, PendingInv, pc = "undoing",
         store' = Bumped(Undone), nextId' = nextId, faults' = faults
  PROVE  StoreInv' /\ Range(store') = {c \in Range(store) : c.id # pending} \cup {Undone}
  <1>1. /\ Keyed(store) /\ \A d \in Range(store) : Sound(d)
        /\ Undone \in Checkpoints /\ Undone.id = pending /\ Sound(Undone)
        /\ Pending \in Range(store) /\ Pending.id = pending /\ Pending.complete
    BY UndoneOf, PendingOf DEF StoreInv, Sound, PendingInv, Live
  <1>2. /\ Keyed(store') /\ Len(store') = Len(store)
        /\ Range(store') = {d \in Range(store) : d.id # pending} \cup {Undone}
    BY <1>1, BumpedOf
  <1>3. \A d \in Range(store') : Sound(d)
    BY <1>1, <1>2
  <1> DEFINE A == Complete(Range(store))
  <1>4. Complete(Range(store')) = (A \ {Pending}) \cup {Undone}
    <2>1. \A d \in Range(store) : d.id = pending => d = Pending
      BY <1>1, KeyedIds
    <2>2. Undone.complete
      BY UndoneOf
    <2>3. QED  BY <1>1, <1>2, <2>1, <2>2 DEF Complete
  <1>5. Undone \notin A \ {Pending} /\ Pending \in A
    BY <1>1, KeyedIds DEF Complete
  <1>6. IsFiniteSet(A)
    <2>1. IsFiniteSet(Range(store)) /\ A \in SUBSET Range(store)
      BY <1>1, RangeFinite DEF Keyed, Complete
    <2>2. QED  BY <2>1, FS_Subset
  <1>7. Cardinality(Complete(Range(store'))) = Cardinality(A)
    <2> HIDE DEF A
    <2>1. /\ IsFiniteSet(A \ {Pending}) /\ Cardinality(A) \in Nat
          /\ Cardinality(A \ {Pending}) = Cardinality(A) - 1
      BY <1>5, <1>6, FS_RemoveElement, FS_CardinalityType
    <2>2. Cardinality((A \ {Pending}) \cup {Undone}) = Cardinality(A \ {Pending}) + 1
      BY <1>5, <2>1, FS_AddElement
    <2>3. QED  BY <1>4, <2>1, <2>2
  <1>8. Len(store') <= MAX_CHECKPOINTS + faults' + IF InProgress' THEN 1 ELSE 0
    <2>1. /\ Len(store) \in Nat /\ MAX_CHECKPOINTS \in Nat /\ faults \in Nat
          /\ Len(store) <= MAX_CHECKPOINTS + faults + 0
      BY <1>1, RangeOf, PatchAssumption DEF StoreInv, Keyed, WorkspaceInv, InProgress
    <2>2. QED  BY <1>2, <2>1
  <1>9. QED
    BY <1>2, <1>3, <1>7, <1>8 DEF StoreInv, Keyed, Sound, Complete

LEMMA FinishOf ==
  ASSUME IInv, Finish
  PROVE  /\ InProgress /\ ~InProgress' /\ nextId' = nextId /\ faults' = faults
         /\ plan \in Partial /\ DOMAIN plan = DOMAIN Pending.before
         /\ store' = cleanup(Bumped(Finished(plan)))
  <1>1. CallInv /\ PendingInv
    BY DEF IInv
  <1>2. plan \in Partial
    BY <1>1, PartialOf DEF IsPartial, CallInv, Touched
  <1>3. QED
    BY <1>1, <1>2 DEF Finish, EndCall, InProgress, PendingInv, Touched, Finished, bounds

Now == Restrict(files, DOMAIN Pending.before)

LEMMA FinishFormatOf ==
  ASSUME IInv, FinishFormat
  PROVE  /\ InProgress /\ ~InProgress' /\ nextId' = nextId /\ faults' = faults
         /\ Now \in Partial /\ DOMAIN Now = DOMAIN Pending.before
         /\ store' = cleanup(Bumped(Finished(Now)))
  <1>1. WorkspaceInv /\ StoreInv /\ PendingInv /\ InProgress
    BY DEF IInv, FinishFormat, PendingInv, InProgress
  <1>2. DOMAIN Pending.before \subseteq Files
    BY <1>1, PendingOf DEF InProgress
  <1>3. Now \in [DOMAIN Pending.before -> Values]
    BY <1>1, <1>2 DEF Now, Restrict, WorkspaceInv
  <1>4. Now \in Partial /\ DOMAIN Now = DOMAIN Pending.before
    BY <1>2, <1>3, PartialOf DEF IsPartial
  <1>5. QED
    BY <1>1, <1>4 DEF FinishFormat, EndCall, InProgress, Finished, Now, bounds

LEMMA StoreNext == IInv /\ [Next]_vars => StoreInv'
  <1> SUFFICES ASSUME IInv, [Next]_vars PROVE StoreInv'
    OBVIOUS
  <1>1. WorkspaceInv /\ StoreInv /\ CallInv /\ PendingInv
    BY DEF IInv
  <1>2. CASE PlanOperation \/ Reject \/ FinishFormatRaises \/ Undo \/ Conflict
             \/ Capture \/ UndoRaises \/ UndoFailed
    <2>1. store' = store /\ nextId' = nextId
      BY <1>2 DEF PlanOperation, Reject, FinishFormatRaises, Undo, Conflict, Capture,
           UndoRaises, UndoFailed, bounds
    <2>2. \/ faults' = faults /\ (InProgress => InProgress')
          \/ faults' = faults + 1
      BY <1>1, <1>2 DEF PlanOperation, Reject, FinishFormatRaises, Undo, Conflict, Capture,
           UndoRaises, UndoFailed, bounds, Fault, InProgress, PendingInv
    <2>3. QED  BY <1>1, <2>1, <2>2, StoreKept
  <1>3. CASE Begin
    <2>1. nextId' = nextId + 1 /\ faults' = faults /\ ~InProgress
      BY <1>1, <1>3 DEF Begin, PendingInv, InProgress
    <2>2. CASE UNCHANGED <<pending, store>>
      BY <1>1, <2>1, <2>2, StoreKept DEF WorkspaceInv
    <2>3. CASE pending' = nextId /\ store' = Append(store, Entry(Touched))
      <3>1. InProgress' /\ Touched \in SUBSET Files
        BY <1>1, <1>3, <2>3 DEF Begin, InProgress, WorkspaceInv, CallInv
      <3>2. QED  BY <1>1, <2>1, <2>3, <3>1, StoreAdded
    <2>4. QED  BY <1>3, <2>2, <2>3 DEF Begin
  <1>4. CASE BeginFormat
    <2>1. nextId' = nextId + 1 /\ faults' = faults /\ ~InProgress /\ InProgress'
      BY <1>1, <1>4 DEF BeginFormat, PendingInv, InProgress, WorkspaceInv
    <2>2. PICK S \in SUBSET Files : store' = Append(store, Entry(S))
      BY <1>4 DEF BeginFormat
    <2>3. QED  BY <1>1, <2>1, <2>2, StoreAdded
  <1>5. CASE StageFails \/ CommitFailed \/ FinishWithout
    <2>1. /\ store' = Without(pending) /\ nextId' = nextId
          /\ faults' \in {faults, faults + 1} /\ pc \in {"committing", "restoring"}
      BY <1>5 DEF StageFails, CommitFailed, FinishWithout, Fault, bounds
    <2>2. QED  BY <1>1, <2>1, StoreRemoved
  <1>6. CASE Finish
    BY <1>1, <1>6, FinishOf, StoreFinished
  <1>7. CASE FinishFormat
    BY <1>1, <1>7, FinishFormatOf, StoreFinished
  <1>8. CASE MarkUndone
    <2>1. /\ pc = "undoing" /\ nextId' = nextId /\ ~InProgress
          /\ \/ store' = Bumped(Undone) /\ faults' = faults
             \/ store' = store /\ faults' = faults + 1
      BY <1>8 DEF MarkUndone, Fault, Undone, InProgress
    <2>2. QED  BY <1>1, <2>1, StoreMarked, StoreKept
  <1>9. ASSUME NEW f \in Files,
               Replace(f) \/ ReplaceRaises(f) \/ RestoreFile(f) \/ FormatFile(f)
               \/ CheckFile(f) \/ UndoFile(f) \/ Edit(f)
        PROVE  StoreInv'
    <2>1. /\ store' = store /\ nextId' = nextId
          /\ \/ faults' = faults /\ (InProgress => InProgress')
             \/ faults' = faults + 1
      BY <1>9 DEF Replace, ReplaceRaises, RestoreFile, FormatFile, CheckFile, UndoFile, Edit,
           InProgress, locals, bounds, Fault
    <2>2. QED  BY <1>1, <2>1, StoreKept
  <1>10. CASE Crash
    <2>1. /\ store' = cleanup(store) /\ nextId' = nextId /\ faults' = faults /\ ~InProgress'
      BY <1>10 DEF Crash, EndCall, InProgress
    <2>2. Keyed(store) /\ \A c \in Range(store) : Sound(c)
      BY <1>1 DEF StoreInv, Sound
    <2>3. QED  BY <1>1, <2>1, <2>2, StoreCleaned
  <1>11. CASE UNCHANGED vars
    <2>1. store' = store /\ nextId' = nextId /\ faults' = faults /\ InProgress' = InProgress
      BY <1>11 DEF vars, bounds, locals, InProgress
    <2>2. QED  BY <1>1, <2>1, StoreKept
  <1>12. QED
    BY <1>2, <1>3, <1>4, <1>5, <1>6, <1>7, <1>8, <1>9, <1>10, <1>11 DEF Next

LEMMA PendingKept ==
  ASSUME store' = store, pending' = pending PROVE Pending' = Pending
  BY DEF Pending

LEMMA PendingAdded ==
  ASSUME WorkspaceInv, StoreInv, NEW S \in SUBSET Files, store' = Append(store, Entry(S)),
         nextId' = nextId + 1, faults' = faults, ~InProgress, InProgress', pending' = nextId
  PROVE  /\ Pending' = Entry(S) /\ Pending' \in Range(store') /\ Pending'.id = pending'
         /\ ~Pending'.complete /\ DOMAIN Pending'.before = S
         /\ \A f \in S : Pending'.before[f] = files[f]
         /\ pending' # 0
  <1>1. StoreInv' /\ Range(store)' = Range(store) \cup {Entry(S)}
    BY StoreAdded
  <1>2. Entry(S) \in Range(store') /\ Entry(S).id = pending'
    BY <1>1, EntryOf
  <1>3. Pending' = Entry(S)
    <2>1. Keyed(store')
      BY <1>1 DEF StoreInv, Keyed
    <2>2. \A c \in Range(store') : c.id = pending' => c = Entry(S)
      BY <1>2, <2>1, KeyedIds
    <2>3. QED  BY <1>2, <2>2 DEF Pending
  <1>4. QED  BY <1>2, <1>3, EntryOf DEF WorkspaceInv

LEMMA FinishFormatPending ==
  ASSUME IInv, FinishFormat, pending' = pending
  PROVE  /\ Pending' = Finished(Now) /\ Finished(Now) \in Range(store')
         /\ Finished(Now).id = pending /\ Live(Finished(Now)) /\ pending # 0
  <1> DEFINE c == Finished(Now)
  <1>1. /\ StoreInv' /\ c \in Range(store') /\ c.id = pending /\ Live(c) /\ pending # 0
    BY FinishFormatOf, StoreFinished, FinishedOf DEF InProgress, IInv
  <1> HIDE DEF c
  <1>2. \A d \in Range(store') : d.id = pending' => d = c
    BY <1>1, KeyedIds DEF StoreInv, Keyed
  <1>3. Pending' = c
    BY <1>1, <1>2 DEF Pending
  <1>4. QED  BY <1>1, <1>3 DEF c

LEMMA UndoPending ==
  ASSUME IInv, Undo
  PROVE  /\ Pending' \in Range(store) /\ Pending'.id = pending' /\ Live(Pending')
         /\ pending' # 0 /\ todo' = DOMAIN Pending'.before
  <1>1. PICK c \in Range(store) : Live(c) /\ pending' = c.id /\ todo' = DOMAIN c.before
    BY DEF Undo
  <1>2. store' = store /\ StoreInv /\ Keyed(store)
    BY DEF Undo, IInv, StoreInv
  <1>3. c.id # 0
    BY <1>2, CheckpointOf DEF Checkpoints
  <1>4. \A d \in Range(store) : d.id = pending' => d = c
    BY <1>1, <1>2, KeyedIds
  <1>5. Pending' = c
    BY <1>1, <1>2, <1>4 DEF Pending
  <1>6. QED  BY <1>1, <1>3, <1>5

LEMMA PendingNext == IInv /\ [Next]_vars => PendingInv'
  <1> SUFFICES ASSUME IInv, [Next]_vars PROVE PendingInv'
    OBVIOUS
  <1>1. WorkspaceInv /\ StoreInv /\ CallInv /\ PendingInv
    BY DEF IInv
  <1>2. EndCall => PendingInv'
    BY DEF EndCall, PendingInv, InProgress
  <1>3. CASE Reject \/ StageFails \/ CommitFailed \/ Finish \/ FinishWithout
             \/ FinishFormatRaises \/ Conflict \/ UndoFailed \/ MarkUndone \/ Crash
    BY <1>2, <1>3 DEF Reject, StageFails, CommitFailed, Finish, FinishWithout,
         FinishFormatRaises, Conflict, UndoFailed, MarkUndone, Crash
  <1>4. CASE PlanOperation
    BY <1>1, <1>4 DEF PlanOperation, PendingInv, InProgress
  <1>5. CASE Begin
    <2>1. nextId' = nextId + 1 /\ faults' = faults /\ ~InProgress /\ pending = 0
          /\ pc' = "committing" /\ Touched' = Touched
      BY <1>1, <1>5 DEF Begin, PendingInv, InProgress, Touched
    <2>2. CASE UNCHANGED <<pending, store>>
      BY <1>1, <2>1, <2>2 DEF PendingInv, InProgress
    <2>3. CASE pending' = nextId /\ store' = Append(store, Entry(Touched))
      <3>1. InProgress' /\ Touched \in SUBSET Files
        BY <1>1, <2>1, <2>3 DEF InProgress, WorkspaceInv, CallInv
      <3>2. QED  BY <1>1, <2>1, <2>3, <3>1, PendingAdded DEF PendingInv
    <2>4. QED  BY <1>5, <2>2, <2>3 DEF Begin
  <1>6. CASE BeginFormat
    <2>1. nextId' = nextId + 1 /\ faults' = faults /\ ~InProgress /\ InProgress'
          /\ pending' = nextId /\ pc' = "formatting"
      BY <1>1, <1>6 DEF BeginFormat, PendingInv, InProgress, WorkspaceInv
    <2>2. PICK S \in SUBSET Files : store' = Append(store, Entry(S)) /\ todo' = S
      BY <1>6 DEF BeginFormat
    <2>3. QED  BY <1>1, <2>1, <2>2, PendingAdded DEF PendingInv
  <1>7. CASE FinishFormat
    <2> DEFINE c == Finished(Now)
    <2>1. CASE EndCall
      BY <1>2, <2>1
    <2>2. CASE pc' = "checking" /\ todo' = DOMAIN c.before /\ UNCHANGED <<plan, snap, pending, dirty>>
      <3>1. Pending' = c /\ c \in Range(store') /\ c.id = pending /\ Live(c) /\ pending # 0
        BY <1>7, <2>2, FinishFormatPending DEF PendingInv
      <3> HIDE DEF c
      <3>2. QED  BY <2>2, <3>1 DEF PendingInv, InProgress, Live
    <2>3. QED  BY <1>7, <2>1, <2>2 DEF FinishFormat, Finished, Now
  <1>8. CASE Undo
    BY <1>8, UndoPending DEF Undo, PendingInv, InProgress, Live
  <1>9. CASE Capture \/ UndoRaises
    <2>1. store' = store /\ pending' = pending /\ pending # 0
      BY <1>1, <1>9 DEF Capture, UndoRaises, PendingInv
    <2>2. Pending' = Pending
      BY <2>1, PendingKept
    <2>3. pc \in {"checking", "undoing"} /\ pc' \in {"undoing", "recapturing"}
          /\ plan' = Pending.before
      BY <1>1, <1>9 DEF Capture, UndoRaises, PendingInv
    <2>4. QED  BY <1>1, <2>1, <2>2, <2>3 DEF PendingInv, InProgress, Live
  <1>10. ASSUME NEW f \in Files,
                Replace(f) \/ ReplaceRaises(f) \/ RestoreFile(f) \/ FormatFile(f)
                \/ CheckFile(f) \/ UndoFile(f) \/ Edit(f)
         PROVE  PendingInv'
    <2>1. /\ store' = store /\ pending' = pending /\ plan' = plan
          /\ \/ pc' = pc /\ todo' \subseteq todo
             \/ pc = "committing" /\ pc' = "restoring"
      <3>1. CASE Replace(f) \/ RestoreFile(f) \/ FormatFile(f) \/ CheckFile(f) \/ UndoFile(f)
        BY <3>1 DEF Replace, RestoreFile, FormatFile, CheckFile, UndoFile
      <3>2. CASE ReplaceRaises(f)
        BY <3>2 DEF ReplaceRaises
      <3>3. CASE Edit(f)
        <4>1. UNCHANGED <<store, locals>>
          BY <3>3 DEF Edit
        <4>2. QED  BY <4>1 DEF locals
      <3>4. QED  BY <1>10, <3>1, <3>2, <3>3
    <2>2. Pending' = Pending /\ Touched' = Touched
      BY <2>1, PendingKept DEF Touched
    <2>3. QED  BY <1>1, <2>1, <2>2 DEF PendingInv, InProgress, Live
  <1>11. CASE UNCHANGED vars
    <2>1. store' = store /\ pending' = pending /\ plan' = plan /\ pc' = pc /\ todo' = todo
      BY <1>11 DEF vars, locals
    <2>2. Pending' = Pending /\ Touched' = Touched
      BY <2>1, PendingKept DEF Touched
    <2>3. QED  BY <1>1, <2>1, <2>2 DEF PendingInv, InProgress, Live
  <1>12. QED
    BY <1>3, <1>4, <1>5, <1>6, <1>7, <1>8, <1>9, <1>10, <1>11 DEF Next

-----------------------------------------------------------------------------
(* The files.                                                               *)

LEMMA IdleFile ==
  ASSUME CallInv, pc = "idle", NEW f PROVE FileAsExpected(f)
  BY DEF CallInv, FileAsExpected

LEMMA FileNext == IInv /\ [Next]_vars => FileInv'
  <1> SUFFICES ASSUME IInv, [Next]_vars PROVE FileInv'
    OBVIOUS
  <1>1. WorkspaceInv /\ StoreInv /\ CallInv /\ PendingInv /\ FileInv /\ CallInv' /\ PendingInv'
    BY CallNext, PendingNext DEF IInv
  <1>2. EndCall => FileInv'
    BY DEF EndCall, FileInv, FileAsExpected, Nothing, Touched
  <1>3. CASE Reject \/ StageFails \/ CommitFailed \/ Finish \/ FinishWithout
             \/ FinishFormatRaises \/ Conflict \/ UndoFailed \/ MarkUndone \/ Crash
    BY <1>2, <1>3 DEF Reject, StageFails, CommitFailed, Finish, FinishWithout,
         FinishFormatRaises, Conflict, UndoFailed, MarkUndone, Crash
  <1>4. CASE PlanOperation
    <2>1. PICK g \in Files \ Touched, v \in Values :
            /\ plan' = [h \in Touched \cup {g} |-> IF h = g THEN v ELSE plan[h]]
            /\ snap' = [h \in Touched \cup {g} |-> IF h = g THEN files[g] ELSE snap[h]]
      BY <1>4 DEF PlanOperation
    <2>2. /\ pc' = "planning" /\ files' = files /\ dirty' = dirty
          /\ (pc = "planning" \/ (pc = "idle" /\ Touched = {}))
      BY <1>1, <1>4 DEF PlanOperation, CallInv, history
    <2>3. ASSUME NEW f \in Files \ dirty, f \in Touched' PROVE files'[f] = snap'[f]
      BY <1>1, <2>1, <2>2, <2>3 DEF FileInv, FileAsExpected, Touched
    <2>4. QED  BY <2>2, <2>3 DEF FileInv, FileAsExpected
  <1>5. CASE Begin
    <2>1. /\ pc' = "committing" /\ todo' = Touched /\ Touched' = Touched
          /\ UNCHANGED <<files, snap, dirty>> /\ pc = "planning" /\ pending = 0
      BY <1>1, <1>5 DEF Begin, Touched, history, PendingInv
    <2>2. ASSUME NEW f \in Touched, pending' # 0 PROVE Pending'.before[f] = files[f]
      <3>1. /\ nextId' = nextId + 1 /\ faults' = faults /\ ~InProgress /\ InProgress'
            /\ Touched \in SUBSET Files
            /\ pending' = nextId /\ store' = Append(store, Entry(Touched))
        BY <1>1, <1>5, <2>1, <2>2 DEF Begin, InProgress, CallInv
      <3>2. QED  BY <1>1, <3>1, PendingAdded
    <2>3. QED  BY <1>1, <2>1, <2>2 DEF FileInv, FileAsExpected
  <1>6. CASE BeginFormat
    <2>1. nextId' = nextId + 1 /\ faults' = faults /\ ~InProgress /\ InProgress'
          /\ pending' = nextId /\ pc' = "formatting" /\ files' = files
          /\ Touched' = {}
      BY <1>1, <1>6 DEF BeginFormat, PendingInv, InProgress, WorkspaceInv, CallInv, Touched
    <2>2. PICK S \in SUBSET Files : store' = Append(store, Entry(S)) /\ todo' = S
      BY <1>6 DEF BeginFormat
    <2>3. \A f \in S : Pending'.before[f] = files[f]
      BY <1>1, <2>1, <2>2, PendingAdded
    <2>4. QED  BY <2>1, <2>2, <2>3 DEF FileInv, FileAsExpected
  <1>7. CASE FinishFormat
    <2> DEFINE c == Finished(Now)
    <2>1. CASE EndCall
      BY <1>2, <2>1
    <2>2. CASE pc' = "checking" /\ todo' = DOMAIN c.before /\ UNCHANGED <<plan, snap, pending, dirty>>
      <3>1. Pending' = c
        BY <1>1, <1>7, <2>2, FinishFormatPending
      <3>2. Touched' = {}
        BY <1>1, <1>7, <2>2 DEF CallInv, Touched, FinishFormat
      <3>3. QED  BY <2>2, <3>1, <3>2 DEF FileInv, FileAsExpected
    <2>3. QED  BY <1>7, <2>1, <2>2 DEF FinishFormat, Finished, Now
  <1>8. CASE Undo
    <2>1. /\ pc' = "checking" /\ Touched' = {} /\ todo' = DOMAIN Pending'.before
      BY <1>1, <1>8, UndoPending DEF Undo, CallInv, Touched
    <2>2. QED  BY <2>1 DEF FileInv, FileAsExpected
  <1>9. CASE Capture
    <2>1. /\ Pending' = Pending /\ UNCHANGED <<files, dirty>> /\ pc = "checking" /\ todo = {}
          /\ pc' = "undoing" /\ plan' = Pending.before /\ todo' = Touched'
          /\ snap' = Restrict(files, DOMAIN Pending.before)
      BY <1>9, PendingKept DEF Capture, history, Touched
    <2>2. ASSUME NEW f \in Files \ dirty, f \in Touched'
          PROVE  snap'[f] = files[f] /\ Pending.after[f] = files[f] /\ f \in todo'
      BY <1>1, <2>1, <2>2 DEF Restrict, Touched, FileInv, FileAsExpected
    <2>3. QED  BY <2>1, <2>2 DEF FileInv, FileAsExpected
  <1>10. CASE UndoRaises
    <2>1. /\ UNCHANGED <<files, dirty, author, snap>> /\ pc = "undoing"
          /\ pc' = "recapturing" /\ todo' = Touched /\ Touched' = Touched
      BY <1>10 DEF UndoRaises, history, Touched
    <2>2. QED  BY <1>1, <2>1 DEF FileInv, FileAsExpected
  <1>11. ASSUME NEW g \in Files, Replace(g) \/ UndoFile(g) PROVE FileInv'
    <2>1. /\ UNCHANGED <<store, pc, plan, snap, pending, tainted, dirty>>
          /\ files' = [files EXCEPT ![g] = plan[g]] /\ author' = [author EXCEPT ![g] = "agent"]
          /\ todo' = todo \ {g} /\ pc \in {"committing", "undoing"}
      BY <1>11 DEF Replace, UndoFile, Write
    <2>2. Pending' = Pending /\ Touched' = Touched
      BY <2>1, PendingKept DEF Touched
    <2>3. files'[g] = plan[g] /\ author'[g] = "agent"
          /\ \A f \in Files \ {g} : files'[f] = files[f] /\ author'[f] = author[f]
      BY <1>1, <2>1 DEF WorkspaceInv
    <2>4. QED  BY <1>1, <2>1, <2>2, <2>3 DEF FileInv, FileAsExpected
  <1>12. ASSUME NEW g \in Files, ReplaceRaises(g) PROVE FileInv'
    <2>1. /\ UNCHANGED <<files, dirty, author, snap>> /\ pc = "committing"
          /\ pc' = "restoring" /\ todo' = Touched /\ Touched' = Touched
      BY <1>12 DEF ReplaceRaises, history, Touched
    <2>2. QED  BY <1>1, <2>1 DEF FileInv, FileAsExpected
  <1>13. ASSUME NEW g \in Files, RestoreFile(g) PROVE FileInv'
    <2>1. /\ UNCHANGED <<pc, plan, snap, dirty>> /\ todo' = todo \ {g} /\ Touched' = Touched
          /\ pc \in {"restoring", "recapturing"} /\ tainted \subseteq tainted'
      BY <1>13 DEF RestoreFile, Touched
    <2>2. /\ files'[g] = snap[g] \/ g \in tainted'
          /\ \A f \in Files \ {g} : files'[f] = files[f] /\ author'[f] = author[f]
      BY <1>1, <1>13 DEF WorkspaceInv, RestoreFile, Write
    <2>3. QED  BY <1>1, <2>1, <2>2 DEF FileInv, FileAsExpected
  <1>14. ASSUME NEW g \in Files, FormatFile(g) PROVE FileInv'
    <2>1. /\ UNCHANGED <<store, pc, plan, snap, pending, tainted, dirty>>
          /\ todo' = todo \ {g} /\ pc = "formatting"
          /\ \A f \in Files \ {g} : files'[f] = files[f]
      BY <1>1, <1>14 DEF FormatFile, Write, WorkspaceInv
    <2>2. Pending' = Pending /\ Touched' = {}
      BY <1>1, <2>1, PendingKept DEF Touched, CallInv
    <2>3. QED  BY <1>1, <2>1, <2>2 DEF FileInv, FileAsExpected
  <1>15. ASSUME NEW g \in Files, CheckFile(g) PROVE FileInv'
    <2>1. /\ UNCHANGED <<files, store, pc, plan, snap, pending, dirty>>
          /\ todo' = todo \ {g} /\ pc = "checking" /\ files[g] = Pending.after[g]
      BY <1>15 DEF CheckFile, history
    <2>2. Pending' = Pending /\ Touched' = {}
      BY <1>1, <2>1, PendingKept DEF Touched, CallInv
    <2>3. QED  BY <1>1, <2>1, <2>2 DEF FileInv, FileAsExpected
  <1>16. ASSUME NEW g \in Files, Edit(g) PROVE FileInv'
    <2>1. CASE pc = "idle"
      <3>1. pc' = "idle"
        BY <1>16, <2>1 DEF Edit, locals
      <3>2. Touched' = {}
        BY <1>1, <3>1 DEF CallInv
      <3>3. QED  BY <3>1, <3>2 DEF FileInv, FileAsExpected
    <2>2. CASE pc # "idle"
      <3>1. UNCHANGED <<store, locals>> /\ dirty' = dirty \cup {g} /\ tainted \subseteq tainted'
        BY <1>16, <2>2 DEF Edit
      <3>2. \A f \in Files \ {g} : files'[f] = files[f] /\ author'[f] = author[f]
        BY <1>1, <1>16 DEF WorkspaceInv, Edit
      <3>3. /\ Pending' = Pending /\ Touched' = Touched
            /\ UNCHANGED <<pc, plan, snap, todo, pending>>
        BY <3>1, PendingKept DEF Touched, locals
      <3>4. QED  BY <1>1, <3>1, <3>2, <3>3 DEF FileInv, FileAsExpected
    <2>3. QED  BY <2>1, <2>2
  <1>17. CASE UNCHANGED vars
    <2>1. /\ UNCHANGED <<files, dirty, tainted, author, pc, plan, snap, todo, pending>>
          /\ Pending' = Pending /\ Touched' = Touched
      BY <1>17, PendingKept DEF vars, locals, history, Touched
    <2>2. QED  BY <1>1, <2>1 DEF FileInv, FileAsExpected
  <1>18. QED
    BY <1>3, <1>4, <1>5, <1>6, <1>7, <1>8, <1>9, <1>10, <1>11, <1>12, <1>13, <1>14,
       <1>15, <1>16, <1>17 DEF Next

-----------------------------------------------------------------------------
(* The balance of the recorded changes of a file.                           *)

LEMMA OneOf == \A b \in BOOLEAN : One(b) \in Nat
  BY DEF One

LEMMA Gain ==
  ASSUME NEW S, IsFiniteSet(S), NEW x, x \notin S, NEW b \in BOOLEAN,
         NEW T, T = IF b THEN S \cup {x} ELSE S
  PROVE  Cardinality(S) \in Nat /\ Cardinality(T) = Cardinality(S) + One(b)
  <1>1. Cardinality(S) \in Nat /\ Cardinality(S \cup {x}) = Cardinality(S) + 1
    BY FS_AddElement, FS_CardinalityType
  <1>2. QED  BY <1>1 DEF One

LEMMA Loss ==
  ASSUME NEW S, IsFiniteSet(S), NEW x, NEW b \in BOOLEAN, b <=> x \in S
  PROVE  Cardinality(S \ {x}) \in Nat /\ Cardinality(S) = Cardinality(S \ {x}) + One(b)
  <1>1. /\ Cardinality(S) \in Nat /\ Cardinality(S \ {x}) \in Nat
        /\ Cardinality(S \ {x}) = IF x \in S THEN Cardinality(S) - 1 ELSE Cardinality(S)
    BY FS_RemoveElement, FS_CardinalityType
  <1>2. QED  BY <1>1 DEF One

LEMMA EndsFinite ==
  ASSUME StoreInv, NEW f, NEW v
  PROVE  IsFiniteSet(From(f, v)) /\ IsFiniteSet(To(f, v))
  <1>1. IsFiniteSet(Range(store))
    BY RangeFinite DEF StoreInv, Keyed
  <1>2. From(f, v) \in SUBSET Range(store) /\ To(f, v) \in SUBSET Range(store)
    BY DEF From, To, Recorded
  <1>3. QED  BY <1>1, <1>2, FS_Subset

LEMMA BalanceKept ==
  ASSUME BalanceInv, NEW f \in Files \ tainted, NEW v \in Values,
         Recorded(f)' = Recorded(f), Base(f)' = Base(f), origin' = origin
  PROVE  Balanced(f, v)'
  <1>1. Balanced(f, v)
    BY DEF BalanceInv
  <1>2. From(f, v)' = From(f, v) /\ To(f, v)' = To(f, v)
    BY DEF From, To
  <1>3. QED  BY <1>1, <1>2 DEF Balanced

LEMMA RecordedKept ==
  ASSUME store' = store, NEW f PROVE Recorded(f)' = Recorded(f)
  BY DEF Recorded

LEMMA RecordedAdded ==
  ASSUME WorkspaceInv, StoreInv, NEW S \in SUBSET Files, store' = Append(store, Entry(S)),
         nextId' = nextId + 1, faults' = faults, ~InProgress, InProgress', NEW f
  PROVE  Recorded(f)' = Recorded(f)
  BY StoreAdded, EntryOf DEF Recorded, Live

LEMMA RecordedRemoved ==
  ASSUME WorkspaceInv, StoreInv, PendingInv, store' = Without(pending), nextId' = nextId,
         faults' \in {faults, faults + 1}, pc \in {"committing", "restoring"}, NEW f
  PROVE  Recorded(f)' = Recorded(f)
  <1>1. Range(store)' = {c \in Range(store) : c.id # pending}
    BY StoreRemoved
  <1>2. ASSUME NEW c \in Range(store), c.id = pending PROVE ~Live(c)
    <2>1. pending # 0 /\ Pending = c
      BY <1>2, CheckpointOf, PendingIs DEF Checkpoints, StoreInv
    <2>2. QED  BY <2>1 DEF PendingInv, InProgress, Live
  <1>3. QED  BY <1>1, <1>2 DEF Recorded

LEMMA RecordedCleaned ==
  ASSUME StoreInv, store' = cleanup(store), NEW f, f \notin Forgotten(store')
  PROVE  Recorded(f)' = Recorded(f)
  <1>1. Keyed(store) /\ Range(store') \subseteq Range(store)
    BY CleanupOf DEF StoreInv
  <1>2. ASSUME NEW c \in Recorded(f) PROVE c \in Range(store')
    <2>1. PICK e \in Range(store') : e.id = c.id
      BY <1>1, ForgottenOf DEF Recorded
    <2>2. e = c
      BY <1>1, <2>1, KeyedIds DEF Recorded
    <2>3. QED  BY <2>1, <2>2
  <1>3. QED  BY <1>1, <1>2 DEF Recorded

LEMMA RecordedFinished ==
  ASSUME WorkspaceInv, StoreInv, PendingInv, InProgress,
         NEW a \in Partial, DOMAIN a = DOMAIN Pending.before,
         store' = cleanup(Bumped(Finished(a))), nextId' = nextId, faults' = faults, ~InProgress',
         NEW f, f \notin Forgotten(store')
  PROVE  /\ Recorded(f)' = IF f \in DOMAIN Pending.before
                           THEN Recorded(f) \cup {Finished(a)} ELSE Recorded(f)
         /\ Finished(a) \notin Recorded(f)
  <1> DEFINE c == Finished(a)
  <1>1. /\ Keyed(store) /\ c.id = pending /\ Live(c) /\ c.before = Pending.before
        /\ c \in Range(store')
        /\ Range(store') \subseteq {d \in Range(store) : d.id # pending} \cup {c}
    BY StoreFinished, FinishedOf DEF StoreInv
  <1> HIDE DEF c
  <1>2. ASSUME NEW d \in Range(store), Live(d) PROVE d.id # pending
    <2>1. d.id = pending => Pending = d
      BY <1>1, PendingIs
    <2>2. QED  BY <1>2, <2>1 DEF PendingInv, Live
  <1>3. c \notin Recorded(f)
    BY <1>1, <1>2 DEF Recorded
  <1>4. ASSUME NEW d \in Recorded(f) PROVE d \in Range(store')
    <2>1. PICK e \in Range(store') : e.id = d.id
      BY <1>1, ForgottenOf DEF Recorded
    <2>2. e \in Range(store)
      BY <1>1, <1>2, <2>1 DEF Recorded
    <2>3. e = d
      BY <1>1, <2>1, <2>2, KeyedIds DEF Recorded
    <2>4. QED  BY <2>1, <2>3
  <1>5. Recorded(f)' = IF f \in DOMAIN Pending.before THEN Recorded(f) \cup {c} ELSE Recorded(f)
    BY <1>1, <1>4 DEF Recorded
  <1>6. QED  BY <1>3, <1>5 DEF c

LEMMA RecordedMarked ==
  ASSUME WorkspaceInv, StoreInv, PendingInv, pc = "undoing",
         store' = Bumped(Undone), nextId' = nextId, faults' = faults, NEW f
  PROVE  Recorded(f)' = Recorded(f) \ {Pending}
  <1>1. /\ Range(store') = {c \in Range(store) : c.id # pending} \cup {Undone}
        /\ Undone.undone /\ Keyed(store) /\ Pending.id = pending
    BY StoreMarked, UndoneOf, PendingOf DEF StoreInv, PendingInv
  <1>2. \A c \in Range(store) : c.id = pending => c = Pending
    BY <1>1, PendingIs
  <1>3. QED  BY <1>1, <1>2 DEF Recorded, Live

LEMMA BalanceGained ==
  ASSUME StoreInv, BalanceInv, NEW f \in Files \ tainted, NEW v \in Values, NEW c,
         Recorded(f)' = Recorded(f) \cup {c}, c \notin Recorded(f),
         Base(f) = c.before[f], Base(f)' = c.after[f], origin' = origin
  PROVE  Balanced(f, v)'
  <1> DEFINE b == c.before[f] = v
             a == c.after[f] = v
             o == origin[f] = v
  <1>1. /\ IsFiniteSet(From(f, v)) /\ IsFiniteSet(To(f, v))
        /\ c \notin From(f, v) /\ c \notin To(f, v)
    BY EndsFinite DEF From, To
  <1>2. /\ From(f, v)' = IF b THEN From(f, v) \cup {c} ELSE From(f, v)
        /\ To(f, v)' = IF a THEN To(f, v) \cup {c} ELSE To(f, v)
    BY DEF From, To
  <1>3. Cardinality(From(f, v)) + One(b) = Cardinality(To(f, v)) + One(o)
    BY DEF BalanceInv, Balanced
  <1>4. Balanced(f, v)' <=>
          Cardinality(From(f, v)') + One(a) = Cardinality(To(f, v)') + One(o)
    BY DEF Balanced
  <1>5. a \in BOOLEAN /\ b \in BOOLEAN /\ o \in BOOLEAN
    OBVIOUS
  <1> HIDE DEF a, b, o
  <1>6. /\ Cardinality(From(f, v)) \in Nat
        /\ Cardinality(From(f, v)') = Cardinality(From(f, v)) + One(b)
    BY <1>1, <1>2, <1>5, Gain
  <1>7. /\ Cardinality(To(f, v)) \in Nat
        /\ Cardinality(To(f, v)') = Cardinality(To(f, v)) + One(a)
    BY <1>1, <1>2, <1>5, Gain
  <1>8. One(a) \in Nat /\ One(b) \in Nat /\ One(o) \in Nat
    BY <1>5, OneOf
  <1>9. QED  BY <1>3, <1>4, <1>6, <1>7, <1>8

LEMMA BalanceLost ==
  ASSUME StoreInv, BalanceInv, NEW f \in Files \ tainted, NEW v \in Values, NEW c \in Recorded(f),
         Recorded(f)' = Recorded(f) \ {c},
         Base(f) = c.after[f], Base(f)' = c.before[f], origin' = origin
  PROVE  Balanced(f, v)'
  <1> DEFINE b == c.before[f] = v
             a == c.after[f] = v
             o == origin[f] = v
             F == Cardinality(From(f, v)')
             T == Cardinality(To(f, v)')
  <1>1. IsFiniteSet(From(f, v)) /\ IsFiniteSet(To(f, v))
    BY EndsFinite
  <1>2. /\ From(f, v)' = From(f, v) \ {c} /\ (b <=> c \in From(f, v))
        /\ To(f, v)' = To(f, v) \ {c} /\ (a <=> c \in To(f, v))
    BY DEF From, To
  <1>3. Cardinality(From(f, v)) + One(a) = Cardinality(To(f, v)) + One(o)
    BY DEF BalanceInv, Balanced
  <1>4. Balanced(f, v)' <=> F + One(b) = T + One(o)
    BY DEF Balanced
  <1>5. a \in BOOLEAN /\ b \in BOOLEAN /\ o \in BOOLEAN
    OBVIOUS
  <1> HIDE DEF a, b, o
  <1>6. F \in Nat /\ Cardinality(From(f, v)) = F + One(b)
    BY <1>1, <1>2, <1>5, Loss
  <1>7. T \in Nat /\ Cardinality(To(f, v)) = T + One(a)
    BY <1>1, <1>2, <1>5, Loss
  <1>8. One(a) \in Nat /\ One(b) \in Nat /\ One(o) \in Nat
    BY <1>5, OneOf
  <1> HIDE DEF F, T
  <1>9. QED  BY <1>3, <1>4, <1>6, <1>7, <1>8

LEMMA EndedBase ==
  ASSUME EndCall, NEW f PROVE Base(f)' = files'[f]
  BY DEF EndCall, Base, Touched, Nothing

LEMMA BalanceNext == IInv /\ [Next]_vars => BalanceInv'
  <1> SUFFICES ASSUME IInv, [Next]_vars, NEW f \in Files \ tainted', NEW v \in Values
               PROVE  Balanced(f, v)'
    BY DEF BalanceInv
  <1>1. WorkspaceInv /\ StoreInv /\ CallInv /\ PendingInv /\ FileInv /\ BalanceInv
    BY DEF IInv
  <1>2. tainted \subseteq tainted' /\ origin' = origin
    <2>1. CASE PlanOperation \/ Reject \/ Begin \/ StageFails \/ CommitFailed
               \/ Finish \/ FinishWithout \/ BeginFormat \/ FinishFormat \/ FinishFormatRaises
      BY <2>1 DEF PlanOperation, Reject, Begin, StageFails, CommitFailed, Finish,
           FinishWithout, BeginFormat, FinishFormat, FinishFormatRaises, history
    <2>2. CASE Undo \/ Conflict \/ Capture \/ UndoRaises \/ UndoFailed \/ MarkUndone \/ Crash
      BY <2>2 DEF Undo, Conflict, Capture, UndoRaises, UndoFailed, MarkUndone, Crash, history
    <2>3. ASSUME NEW g \in Files,
                 Replace(g) \/ ReplaceRaises(g) \/ RestoreFile(g) \/ FormatFile(g)
                 \/ CheckFile(g) \/ UndoFile(g) \/ Edit(g)
          PROVE  tainted \subseteq tainted' /\ origin' = origin
      BY <2>3 DEF Replace, ReplaceRaises, RestoreFile, FormatFile, CheckFile, UndoFile, Edit,
           history
    <2>4. QED  BY <2>1, <2>2, <2>3 DEF Next, vars, history
  <1>3. f \in Files /\ f \notin tainted /\ FileAsExpected(f)
    BY <1>1, <1>2 DEF WorkspaceInv, FileInv
  <1>4. ASSUME Recorded(f)' = Recorded(f), Base(f)' = Base(f) PROVE Balanced(f, v)'
    BY <1>1, <1>2, <1>3, <1>4, BalanceKept
  <1>5. CASE PlanOperation
    <2>1. PICK g \in Files \ Touched, w \in Values :
            snap' = [h \in Touched \cup {g} |-> IF h = g THEN files[g] ELSE snap[h]]
            /\ plan' = [h \in Touched \cup {g} |-> IF h = g THEN w ELSE plan[h]]
      BY <1>5 DEF PlanOperation
    <2>2. pc \in {"idle", "planning"} /\ pc' = "planning" /\ store' = store /\ files' = files
      BY <1>5 DEF PlanOperation
    <2>3. Base(f)' = Base(f)
      BY <2>1, <2>2 DEF Base, Touched
    <2>4. QED  BY <1>4, <2>2, <2>3, RecordedKept
  <1>6. CASE Reject \/ Conflict \/ UndoFailed
    <2>1. store' = store /\ files' = files /\ EndCall
      BY <1>6 DEF Reject, Conflict, UndoFailed
    <2>2. Base(f) = files[f]
      BY <1>1, <1>3, <1>6 DEF Reject, Conflict, UndoFailed, Base, CallInv, FileAsExpected
    <2>3. QED  BY <1>4, <2>1, <2>2, RecordedKept, EndedBase
  <1>7. CASE Begin
    <2>1. pc = "planning" /\ pc' = "committing" /\ UNCHANGED <<files, plan, snap>>
      BY <1>7 DEF Begin
    <2>2. Base(f)' = Base(f)
      BY <2>1 DEF Base, Touched
    <2>3. CASE store' = store
      BY <1>4, <2>2, <2>3, RecordedKept
    <2>4. CASE pending' = nextId /\ store' = Append(store, Entry(Touched))
      <3>1. /\ nextId' = nextId + 1 /\ faults' = faults /\ ~InProgress /\ InProgress'
            /\ Touched \in SUBSET Files
        BY <1>1, <1>7, <2>4 DEF Begin, PendingInv, InProgress, CallInv, WorkspaceInv
      <3>2. QED  BY <1>1, <1>4, <2>2, <2>4, <3>1, RecordedAdded
    <2>5. QED  BY <1>7, <2>3, <2>4 DEF Begin
  <1>8. CASE StageFails \/ CommitFailed \/ FinishWithout
    <2>1. /\ store' = Without(pending) /\ nextId' = nextId
          /\ faults' \in {faults, faults + 1} /\ pc \in {"committing", "restoring"}
          /\ files' = files /\ EndCall
      BY <1>8 DEF StageFails, CommitFailed, FinishWithout, Fault, bounds
    <2>2. Base(f) = files[f]
      BY <1>3, <1>8 DEF StageFails, CommitFailed, FinishWithout, Base, FileAsExpected
    <2>3. QED  BY <1>1, <1>4, <2>1, <2>2, RecordedRemoved, EndedBase
  <1>9. CASE Finish
    <2>1. /\ files' = files /\ EndCall /\ f \notin Forgotten(store')
          /\ pc = "committing" /\ todo = {} /\ pending # 0
      BY <1>9 DEF Finish
    <2>2. Base(f)' = files[f] /\ DOMAIN Pending.before = Touched
      BY <1>1, <2>1, EndedBase DEF PendingInv
    <2>3. /\ Recorded(f)' = IF f \in Touched THEN Recorded(f) \cup {Finished(plan)} ELSE Recorded(f)
          /\ Finished(plan) \notin Recorded(f)
          /\ Finished(plan).before = Pending.before /\ Finished(plan).after = plan
      BY <1>1, <1>9, <2>1, <2>2, FinishOf, RecordedFinished, FinishedOf
    <2>4. CASE f \in Touched
      <3>1. Base(f) = Pending.before[f] /\ files[f] = plan[f]
        BY <1>3, <2>1, <2>4 DEF Base, FileAsExpected
      <3>2. QED  BY <1>1, <1>2, <1>3, <2>2, <2>3, <2>4, <3>1, BalanceGained
    <2>5. CASE f \notin Touched
      <3>1. Base(f) = files[f]
        BY <2>1, <2>5 DEF Base
      <3>2. QED  BY <1>4, <2>2, <2>3, <2>5, <3>1
    <2>6. QED  BY <2>4, <2>5
  <1>10. CASE BeginFormat
    <2>1. /\ nextId' = nextId + 1 /\ faults' = faults /\ ~InProgress /\ InProgress'
          /\ pending' = nextId /\ pc = "idle" /\ pc' = "formatting"
          /\ UNCHANGED <<files, plan, snap>> /\ Touched = {} /\ Touched' = {}
      BY <1>1, <1>10 DEF BeginFormat, PendingInv, InProgress, WorkspaceInv, CallInv, Touched
    <2>2. PICK S \in SUBSET Files : store' = Append(store, Entry(S))
      BY <1>10 DEF BeginFormat
    <2>3. DOMAIN Pending'.before = S /\ \A g \in S : Pending'.before[g] = files[g]
      BY <1>1, <2>1, <2>2, PendingAdded
    <2>4. Base(f)' = Base(f)
      BY <2>1, <2>3 DEF Base
    <2>5. QED  BY <1>1, <1>4, <2>1, <2>2, <2>4, RecordedAdded
  <1>11. CASE FinishFormat
    <2>1. /\ files' = files /\ f \notin Forgotten(store') /\ pc = "formatting" /\ Touched = {}
      BY <1>1, <1>11 DEF FinishFormat, CallInv
    <2>2. Base(f)' = files[f]
      <3>1. CASE EndCall
        BY <2>1, <3>1, EndedBase
      <3>2. CASE pc' = "checking" /\ plan' = plan
        BY <2>1, <3>2 DEF Base, Touched
      <3>3. QED  BY <1>11, <3>1, <3>2 DEF FinishFormat
    <2>3. /\ Recorded(f)' = IF f \in DOMAIN Pending.before
                            THEN Recorded(f) \cup {Finished(Now)} ELSE Recorded(f)
          /\ Finished(Now) \notin Recorded(f)
          /\ Finished(Now).before = Pending.before /\ Finished(Now).after = Now
      BY <1>1, <1>11, <2>1, FinishFormatOf, RecordedFinished, FinishedOf
    <2>4. CASE f \in DOMAIN Pending.before
      <3>1. Base(f) = Pending.before[f] /\ files[f] = Now[f]
        BY <2>1, <2>4 DEF Base, Now, Restrict
      <3>2. QED  BY <1>1, <1>2, <1>3, <2>2, <2>3, <2>4, <3>1, BalanceGained
    <2>5. CASE f \notin DOMAIN Pending.before
      <3>1. Base(f) = files[f]
        BY <2>1, <2>5 DEF Base
      <3>2. QED  BY <1>4, <2>2, <2>3, <2>5, <3>1
    <2>6. QED  BY <2>4, <2>5
  <1>12. CASE FinishFormatRaises
    <2>1. /\ store' = store /\ files' = files /\ EndCall /\ f \notin DOMAIN Pending.before
          /\ Touched = {}
      BY <1>1, <1>12 DEF FinishFormatRaises, CallInv
    <2>2. Base(f) = files[f]
      BY <2>1 DEF Base
    <2>3. QED  BY <1>4, <2>1, <2>2, RecordedKept, EndedBase
  <1>13. CASE Undo \/ Capture \/ UndoRaises
    <2>1. store' = store /\ files' = files
      BY <1>13 DEF Undo, Capture, UndoRaises, history
    <2>2. CASE Undo \/ UndoRaises
      <3>1. /\ plan' = plan /\ snap' = snap
            /\ pc # "formatting" /\ pc' # "formatting"
        BY <2>2 DEF Undo, UndoRaises
      <3>2. Base(f)' = Base(f)
        BY <2>1, <3>1 DEF Base, Touched
      <3>3. QED  BY <1>4, <2>1, <3>2, RecordedKept
    <2>3. CASE Capture
      <3>1. /\ Touched = {} /\ snap' = Restrict(files, Touched')
            /\ pc # "formatting" /\ pc' # "formatting"
        BY <1>1, <2>3 DEF Capture, CallInv, Touched
      <3>2. Base(f)' = Base(f)
        BY <2>1, <3>1 DEF Base, Restrict
      <3>3. QED  BY <1>4, <2>1, <3>2, RecordedKept
    <2>4. QED  BY <1>13, <2>2, <2>3
  <1>14. CASE MarkUndone
    <2>1. /\ pc = "undoing" /\ todo = {} /\ files' = files /\ EndCall /\ nextId' = nextId
          /\ \/ store' = Bumped(Undone) /\ faults' = faults
             \/ store' = store /\ f \notin Touched
      BY <1>14 DEF MarkUndone, Undone
    <2>2. Base(f)' = files[f] /\ Pending.before = plan /\ DOMAIN Pending.before = Touched
      BY <1>1, <2>1, EndedBase DEF PendingInv, Touched
    <2>3. f \notin Touched => Base(f) = files[f]
      BY <2>1 DEF Base
    <2>4. CASE store' = store /\ f \notin Touched
      BY <1>4, <2>2, <2>3, <2>4, RecordedKept
    <2>5. CASE store' = Bumped(Undone) /\ faults' = faults
      <3>1. Recorded(f)' = Recorded(f) \ {Pending}
        BY <1>1, <2>1, <2>5, RecordedMarked
      <3>2. CASE f \notin Touched
        <4>1. Pending \notin Recorded(f)
          BY <2>2, <3>2 DEF Recorded
        <4>2. Recorded(f)' = Recorded(f)
          BY <3>1, <4>1
        <4>3. QED  BY <1>4, <2>2, <2>3, <3>2, <4>2
      <3>3. CASE f \in Touched
        <4>1. Pending \in Recorded(f)
          BY <1>1, <2>1, <2>2, <3>3 DEF PendingInv, Recorded
        <4>2. Base(f) = Pending.after[f] /\ Base(f)' = Pending.before[f]
          BY <1>3, <2>1, <2>2, <3>3 DEF Base, FileAsExpected
        <4>3. QED  BY <1>1, <1>2, <1>3, <3>1, <4>1, <4>2, BalanceLost
      <3>4. QED  BY <3>2, <3>3
    <2>6. QED  BY <2>1, <2>4, <2>5
  <1>15. ASSUME NEW g \in Files,
                Replace(g) \/ RestoreFile(g) \/ FormatFile(g) \/ UndoFile(g)
         PROVE  Balanced(f, v)'
    <2>1. /\ UNCHANGED <<store, pc, plan, snap, pending>> /\ g \in todo
          /\ pc \in {"committing", "restoring", "recapturing", "formatting", "undoing"}
          /\ files' = files \/ \E w : files' = [files EXCEPT ![g] = w]
      BY <1>15 DEF Replace, RestoreFile, FormatFile, UndoFile, Write
    <2>2. Pending' = Pending /\ Touched' = Touched
      BY <2>1, PendingKept DEF Touched
    <2>3. f # g => files'[f] = files[f]
      BY <1>1, <1>3, <2>1 DEF WorkspaceInv
    <2>4. g \in Touched \/ (pc = "formatting" /\ g \in DOMAIN Pending.before)
      BY <1>1, <2>1 DEF CallInv, PendingInv
    <2>5. Base(f)' = Base(f)
      BY <2>1, <2>2, <2>3, <2>4 DEF Base
    <2>6. QED  BY <1>4, <2>1, <2>5, RecordedKept
  <1>16. ASSUME NEW g \in Files, ReplaceRaises(g) \/ CheckFile(g) PROVE Balanced(f, v)'
    <2>1. /\ UNCHANGED <<files, store, plan, snap>>
          /\ pc # "formatting" /\ pc' # "formatting"
      BY <1>16 DEF ReplaceRaises, CheckFile
    <2>2. Base(f)' = Base(f)
      BY <2>1 DEF Base, Touched
    <2>3. QED  BY <1>4, <2>1, <2>2, RecordedKept
  <1>17. ASSUME NEW g \in Files, Edit(g) PROVE Balanced(f, v)'
    <2>1. UNCHANGED <<store, locals>> /\ f # g
      BY <1>17 DEF Edit
    <2>2. files'[f] = files[f]
      BY <1>1, <1>3, <1>17, <2>1 DEF WorkspaceInv, Edit
    <2>3. /\ UNCHANGED <<pc, plan, snap, pending>>
          /\ Pending' = Pending /\ Touched' = Touched
      BY <2>1, PendingKept DEF locals, Touched
    <2>4. Base(f)' = Base(f)
      BY <2>2, <2>3 DEF Base
    <2>5. QED  BY <1>4, <2>1, <2>4, RecordedKept
  <1>18. CASE Crash
    <2>1. /\ store' = cleanup(store) /\ files' = files /\ EndCall
          /\ f \notin Forgotten(store') /\ f \notin Touched
          /\ pc = "formatting" => f \notin DOMAIN Pending.before
      BY <1>18 DEF Crash
    <2>2. Base(f) = files[f]
      BY <2>1 DEF Base
    <2>3. QED  BY <1>1, <1>4, <2>1, <2>2, RecordedCleaned, EndedBase
  <1>19. CASE UNCHANGED vars
    <2>1. UNCHANGED <<store, files, pc, plan, snap, pending>>
      BY <1>19 DEF vars, locals
    <2>2. Base(f)' = Base(f)
      BY <2>1, PendingKept DEF Base, Touched
    <2>3. QED  BY <1>4, <2>1, <2>2, RecordedKept
  <1>20. QED
    BY <1>5, <1>6, <1>7, <1>8, <1>9, <1>10, <1>11, <1>12, <1>13, <1>14, <1>15, <1>16,
       <1>17, <1>18, <1>19 DEF Next

-----------------------------------------------------------------------------
(* The theorems.                                                            *)

LEMMA InvInit == Init => IInv
  <1> SUFFICES ASSUME Init PROVE IInv
    OBVIOUS
  <1>1. /\ Range(store) = {} /\ store \in Seq(Checkpoints) /\ Len(store) = 0
    <2>1. store = <<>> /\ store \in Seq(Checkpoints) /\ Len(store) = 0
      BY DEF Init
    <2>2. Range(store) = {store[i] : i \in 1..0}
      <3>1. DOMAIN store = 1..0
        BY <2>1
      <3>2. QED  BY <3>1 DEF Range
    <2>3. QED  BY <2>1, <2>2
  <1>2. Touched = {} /\ Nothing \in [{} -> Values] /\ DOMAIN Nothing = {}
    BY DEF Init, Touched, Nothing
  <1>3. WorkspaceInv
    BY DEF Init, WorkspaceInv
  <1>4. StoreInv
    <2>1. Cardinality({c \in Range(store) : c.complete}) = 0
      BY <1>1, FS_EmptySet
    <2>2. MAX_CHECKPOINTS \in Nat
      BY PatchAssumption
    <2>3. QED  BY <1>1, <2>1, <2>2 DEF Init, StoreInv, Keyed, InProgress
  <1>5. CallInv /\ PendingInv /\ FileInv
    BY <1>2 DEF Init, CallInv, PendingInv, FileInv, FileAsExpected, InProgress
  <1>6. BalanceInv
    <2> SUFFICES ASSUME NEW f \in Files, NEW v \in Values PROVE Balanced(f, v)
      BY DEF BalanceInv
    <2>1. From(f, v) = {} /\ To(f, v) = {}
      BY <1>1 DEF From, To, Recorded
    <2>2. Base(f) = origin[f]
      BY <1>2 DEF Init, Base
    <2>3. QED  BY <2>1, <2>2 DEF Balanced
  <1>7. QED  BY <1>3, <1>4, <1>5, <1>6 DEF IInv

LEMMA InvNext == IInv /\ [Next]_vars => IInv'
  BY WorkspaceNext, StoreNext, CallNext, PendingNext, FileNext, BalanceNext DEF IInv

LEMMA Invariance == Spec => []IInv
  BY InvInit, InvNext, PTL DEF Spec

(* Types; the store never holds more than MAX_CHECKPOINTS complete          *)
(* checkpoints, nor more in all than that, one in progress, and one for     *)
(* each fault (checkpoints.py, cleanup).                                    *)
THEOREM TypeCorrect == Spec => []TypeOK
  <1>1. IInv => TypeOK
    <2> SUFFICES ASSUME IInv PROVE TypeOK
      OBVIOUS
    <2>1. WorkspaceInv /\ StoreInv /\ CallInv /\ PendingInv
      BY DEF IInv
    <2>2. ASSUME NEW c \in Range(store)
          PROVE  /\ c.id \in 1..(nextId - 1) /\ (c.undone => c.complete)
                 /\ IsPartial(c.before) /\ IsPartial(c.after)
                 /\ c.complete => DOMAIN c.after = DOMAIN c.before
      BY <2>1, CheckpointOf DEF StoreInv, Checkpoints, WorkspaceInv, IsPartial
    <2>3. Len(store) <= MAX_CHECKPOINTS + 1 + faults
      <3>1. Len(store) \in Nat /\ MAX_CHECKPOINTS \in Nat /\ faults \in Nat
        BY <2>1, RangeOf, PatchAssumption DEF StoreInv, Keyed, WorkspaceInv
      <3>2. Len(store) <= MAX_CHECKPOINTS + faults + IF InProgress THEN 1 ELSE 0
        BY <2>1 DEF StoreInv
      <3>3. QED  BY <3>1, <3>2
    <2>4. IsPartial(plan) /\ IsPartial(snap) /\ DOMAIN snap = Touched
      BY <2>1 DEF IsPartial, CallInv, Touched
    <2>5. pending \in 0..(nextId - 1)
      BY <2>1, <2>2 DEF PendingInv, WorkspaceInv
    <2>6. Cardinality({c \in Range(store) : c.complete}) <= MAX_CHECKPOINTS
      BY <2>1 DEF StoreInv
    <2>7. QED
      BY <2>1, <2>2, <2>3, <2>4, <2>5, <2>6 DEF TypeOK, CallInv, WorkspaceInv
  <1>2. QED  BY <1>1, Invariance, PTL

(* A patch that fails while it replaces files leaves each of them as it was *)
(* and leaves no checkpoint (patch.py, _commit and _restore).               *)
THEOREM PatchIsAtomic == Spec => PatchAtomic
  <1>1. IInv /\ [Next]_vars =>
          [pc = "restoring" /\ pc' = "idle" /\ crashes' = crashes =>
             /\ \A f \in Touched \ (dirty \cup tainted) : files[f] = snap[f]
             /\ \A c \in Range(store') : c.id # pending]_vars
    <2> SUFFICES ASSUME IInv, Next, pc = "restoring", pc' = "idle", crashes' = crashes
                 PROVE  /\ \A f \in Touched \ (dirty \cup tainted) : files[f] = snap[f]
                        /\ \A c \in Range(store') : c.id # pending
      OBVIOUS
    <2>1. CommitFailed
      <3>1. ASSUME NEW f \in Files,
                   Replace(f) \/ ReplaceRaises(f) \/ RestoreFile(f) \/ FormatFile(f)
                   \/ CheckFile(f) \/ UndoFile(f) \/ Edit(f)
            PROVE  FALSE
        BY <3>1 DEF Replace, ReplaceRaises, RestoreFile, FormatFile, CheckFile, UndoFile, Edit, locals
      <3>2. ~Crash
        BY DEF Crash, IInv, WorkspaceInv
      <3>3. QED
        BY <3>1, <3>2 DEF Next, PlanOperation, Reject, Begin, StageFails, Finish,
             FinishWithout, BeginFormat, FinishFormat, FinishFormatRaises, Undo, Conflict,
             Capture, UndoRaises, UndoFailed, MarkUndone
    <2>2. WorkspaceInv /\ CallInv /\ StoreInv /\ FileInv /\ Keyed(store)
      BY DEF IInv, StoreInv
    <2>3. todo = {} /\ store' = Without(pending)
      BY <2>1 DEF CommitFailed
    <2>4. \A f \in Touched \ (dirty \cup tainted) : files[f] = snap[f]
      BY <2>2, <2>3 DEF FileInv, FileAsExpected, CallInv
    <2>5. Range(store') = {c \in Range(store) : c.id # pending}
      BY <2>2, <2>3, WithoutOf
    <2>6. QED  BY <2>4, <2>5
  <1>2. QED  BY <1>1, Invariance, PTL DEF Spec, PatchAtomic

(* When a step of the agent replaces what the user wrote, the value is in   *)
(* the checkpoint being made, or expected by the one being undone, or the   *)
(* user wrote it in the middle of that call, or no checkpoint could begin.  *)
THEOREM UserContentIsKept == Spec => UserContentKept
  <1> DEFINE Excused(f) ==
        \/ f \in dirty
        \/ pc \in {"committing", "formatting"} /\ pending = 0
        \/ pc \in {"committing", "formatting"} /\ Pending.before[f] = files[f]
        \/ pc = "undoing" /\ Pending.after[f] = files[f]
  <1>1. IInv /\ [Next]_vars =>
          [\A f \in Files :
             files'[f] # files[f] /\ author[f] = "user" /\ author'[f] = "agent" => Excused(f)]_vars
    <2> SUFFICES ASSUME IInv, Next, NEW f \in Files,
                        files'[f] # files[f], author[f] = "user", author'[f] = "agent"
                 PROVE  Excused(f)
      OBVIOUS
    <2>1. WorkspaceInv /\ CallInv /\ PendingInv /\ FileInv
      BY DEF IInv
    <2>2. f \notin dirty => FileAsExpected(f)
      BY <2>1 DEF FileInv
    <2>3. /\ f \in todo
          /\ \/ pc = "committing" /\ Replace(f)
             \/ pc \in {"restoring", "recapturing"} /\ files'[f] = snap[f]
             \/ pc \in {"formatting", "undoing"}
      <3>1. CASE PlanOperation \/ Reject \/ Begin \/ StageFails \/ CommitFailed
                 \/ Finish \/ FinishWithout \/ BeginFormat \/ FinishFormat \/ FinishFormatRaises
        BY <3>1 DEF PlanOperation, Reject, Begin, StageFails, CommitFailed, Finish,
             FinishWithout, BeginFormat, FinishFormat, FinishFormatRaises, history
      <3>2. CASE Undo \/ Conflict \/ Capture \/ UndoRaises \/ UndoFailed \/ MarkUndone \/ Crash
        BY <3>2 DEF Undo, Conflict, Capture, UndoRaises, UndoFailed, MarkUndone, Crash, history
      <3>3. ASSUME NEW g \in Files, ReplaceRaises(g) \/ CheckFile(g) \/ Edit(g) PROVE FALSE
        BY <2>1, <3>3 DEF ReplaceRaises, CheckFile, Edit, history, WorkspaceInv
      <3>4. ASSUME NEW g \in Files, Replace(g) \/ FormatFile(g) \/ UndoFile(g) PROVE <2>3
        BY <2>1, <3>4 DEF Replace, FormatFile, UndoFile, Write, WorkspaceInv
      <3>5. ASSUME NEW g \in Files, RestoreFile(g) PROVE <2>3
        BY <2>1, <3>5 DEF RestoreFile, Write, WorkspaceInv
      <3>6. QED
        BY <3>1, <3>2, <3>3, <3>4, <3>5 DEF Next
    <2>4. QED
      BY <2>1, <2>2, <2>3 DEF FileAsExpected, CallInv, PendingInv
  <1>2. QED  BY <1>1, Invariance, PTL DEF Spec, UserContentKept

(* Once no live checkpoint records a change of a file, the file is what it  *)
(* was at the start, unless some change of it was never recorded, in        *)
(* whatever order the checkpoints were undone (checkpoints.py, undo).       *)
THEOREM UndoRestoresAll == Spec => []UndoAllRestores
  <1>1. IInv => UndoAllRestores
    <2> SUFFICES ASSUME IInv, pc = "idle", NEW f \in Files \ tainted,
                        \A c \in Range(store) : Live(c) => f \notin DOMAIN c.before
                 PROVE  files[f] = origin[f]
      BY DEF UndoAllRestores
    <2>1. WorkspaceInv /\ CallInv /\ BalanceInv
      BY DEF IInv
    <2>2. files[f] \in Values /\ Base(f) = files[f]
      BY <2>1 DEF WorkspaceInv, CallInv, Base
    <2>3. From(f, files[f]) = {} /\ To(f, files[f]) = {}
      BY DEF From, To, Recorded
    <2>4. 0 + One(files[f] = files[f]) = 0 + One(origin[f] = files[f])
      <3>1. Balanced(f, files[f])
        BY <2>1, <2>2 DEF BalanceInv
      <3>2. Cardinality(From(f, files[f])) = 0 /\ Cardinality(To(f, files[f])) = 0
        BY <2>3, FS_EmptySet
      <3>3. QED  BY <2>2, <3>1, <3>2 DEF Balanced
    <2>5. QED  BY <2>4 DEF One
  <1>2. QED  BY <1>1, Invariance, PTL
=============================================================================
