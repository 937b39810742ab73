-------------------------- MODULE RunManagerProofs --------------------------
(***************************************************************************)
(* Proofs about the admission of hosted runs, for any finite set of        *)
(* requests, any accounts and any cap: the reservations are exact, the cap *)
(* is kept, and RunManager implements RunSlots.                            *)
(***************************************************************************)
EXTENDS RunManager, FiniteSetTheorems, TLAPS

(* The inductive invariant.  The cap alone is not inductive: what create   *)
(* counts is the table and the reservations, so the invariant also says    *)
(* that these two count each slot holder once.                             *)
DoneStage == \A r \in done : pc[r] = "done"
HoldCap == \A u \in Users : Cardinality(At(u, Holding)) <= MaxRuns
IInv == TypeOK /\ DoneStage /\ TableExact /\ ReservationsExact /\ HoldCap

-----------------------------------------------------------------------------
(* Counting lemmas. *)

\* The runs of an account at given stages form a finite set.
LEMMA AtFinite ==
  ASSUME NEW u, NEW S
  PROVE  IsFiniteSet(At(u, S)) /\ Cardinality(At(u, S)) \in Nat
  <1>1. At(u, S) \in SUBSET Runs  BY DEF At
  <1>2. IsFiniteSet(At(u, S))  BY <1>1, ManagerAssumption, FS_Subset
  <1>3. QED  BY <1>2, FS_CardinalityType

\* A request that enters the stages S is counted once more.
LEMMA Enter ==
  ASSUME NEW r \in Runs, NEW b, NEW S, NEW u \in Users, TypeOK,
         pc' = [pc EXCEPT ![r] = b], b \in S, pc[r] \notin S
  PROVE  Cardinality(At(u, S)') =
           IF Owner[r] = u THEN Cardinality(At(u, S)) + 1
                           ELSE Cardinality(At(u, S))
  <1>1. CASE Owner[r] = u
    <2>1. At(u, S)' = At(u, S) \cup {r} /\ r \notin At(u, S)
      BY <1>1 DEF At, TypeOK
    <2>2. QED  BY <1>1, <2>1, AtFinite, FS_AddElement
  <1>2. CASE Owner[r] # u
    <2>1. At(u, S)' = At(u, S)  BY <1>2 DEF At, TypeOK
    <2>2. QED  BY <1>2, <2>1
  <1>3. QED  BY <1>1, <1>2

\* A request that leaves the stages S is counted once less.
LEMMA Leave ==
  ASSUME NEW r \in Runs, NEW b, NEW S, NEW u \in Users, TypeOK,
         pc' = [pc EXCEPT ![r] = b], b \notin S, pc[r] \in S
  PROVE  Cardinality(At(u, S)') =
           IF Owner[r] = u THEN Cardinality(At(u, S)) - 1
                           ELSE Cardinality(At(u, S))
  <1>1. CASE Owner[r] = u
    <2>1. At(u, S)' = At(u, S) \ {r} /\ r \in At(u, S)
      BY <1>1 DEF At, TypeOK
    <2>2. IsFiniteSet(At(u, S))  BY AtFinite
    <2>3. QED  BY <1>1, <2>1, <2>2, FS_RemoveElement
  <1>2. CASE Owner[r] # u
    <2>1. At(u, S)' = At(u, S)  BY <1>2 DEF At, TypeOK
    <2>2. QED  BY <1>2, <2>1
  <1>3. QED  BY <1>1, <1>2

\* A step from stage to stage on the same side of S keeps the count.
LEMMA Stay ==
  ASSUME NEW r \in Runs, NEW b, NEW S, NEW u \in Users, TypeOK,
         pc' = [pc EXCEPT ![r] = b], b \in S <=> pc[r] \in S
  PROVE  At(u, S)' = At(u, S)
  BY DEF At, TypeOK

\* Leaving a counted stage means there was something to give back.
LEMMA Positive ==
  ASSUME NEW r \in Runs, NEW S, pc[r] \in S
  PROVE  Cardinality(At(Owner[r], S)) > 0
  <1>1. r \in At(Owner[r], S)  BY DEF At
  <1>2. QED  BY <1>1, AtFinite, FS_EmptySet

\* What create counts is the number of slots the account holds.
LEMMA ActiveHolding ==
  ASSUME IInv, NEW u \in Users
  PROVE  Active(u) = Cardinality(At(u, Holding))
  <1> DEFINE T == {r \in runs \ done : Owner[r] = u}
             R == At(u, {"reserved"})
  <1>1. T = At(u, {"registered", "running", "stranded"})
    BY DEF IInv, TypeOK, TableExact, At
  <1>2. At(u, Holding) = T \cup R /\ T \cap R = {}
    BY <1>1 DEF At, Holding
  <1>3. IsFiniteSet(T) /\ IsFiniteSet(R)
    BY <1>1, AtFinite
  <1>4. /\ Cardinality(T \cup R)
             = Cardinality(T) + Cardinality(R) - Cardinality(T \cap R)
        /\ Cardinality(T \cap R) = 0
        /\ Cardinality(T) \in Nat /\ Cardinality(R) \in Nat
    BY <1>2, <1>3, FS_Union, FS_EmptySet, FS_CardinalityType
  <1>5. reservations[u] = Cardinality(R)
    BY DEF IInv, ReservationsExact
  <1>6. QED  BY <1>2, <1>4, <1>5 DEF Active

-----------------------------------------------------------------------------
(* The invariant is inductive. *)

LEMMA InitInv == Init => IInv
  <1> SUFFICES ASSUME Init PROVE IInv
    OBVIOUS
  <1>1. \A u \in Users : At(u, {"reserved"}) = {} /\ At(u, Holding) = {}
    BY DEF Init, At, Holding
  <1>2. ReservationsExact /\ HoldCap
    BY <1>1, FS_EmptySet, ManagerAssumption
    DEF Init, ReservationsExact, HoldCap
  <1>3. TypeOK /\ DoneStage /\ TableExact
    BY DEF Init, TypeOK, Stages, DoneStage, TableExact
  <1>4. QED  BY <1>2, <1>3 DEF IInv

LEMMA StepInv == IInv /\ [Next]_vars => IInv'
  <1> SUFFICES ASSUME IInv, [Next]_vars PROVE IInv'
    OBVIOUS
  <1>0. TypeOK /\ DoneStage /\ TableExact /\ ReservationsExact /\ HoldCap
    BY DEF IInv
  <1>a. \A r \in Runs : Owner[r] \in Users
    BY ManagerAssumption
  <1>1. ASSUME NEW r \in Runs, Reserve(r) PROVE IInv'
    <2>1. pc' = [pc EXCEPT ![r] = "reserved"] /\ pc[r] = "waiting"
      BY <1>1 DEF Reserve
    <2>2. TypeOK' /\ DoneStage' /\ TableExact'
      BY <1>0, <1>1, <1>a
      DEF Reserve, TypeOK, Stages, DoneStage, TableExact
    <2>3. ReservationsExact'
      <3> SUFFICES ASSUME NEW u \in Users
                   PROVE reservations'[u] = Cardinality(At(u, {"reserved"})')
        BY DEF ReservationsExact
      <3>1. Cardinality(At(u, {"reserved"})') =
              IF Owner[r] = u THEN Cardinality(At(u, {"reserved"})) + 1
                              ELSE Cardinality(At(u, {"reserved"}))
        BY <1>0, <2>1, Enter
      <3>2. QED
        BY <1>0, <1>1, <3>1 DEF Reserve, ReservationsExact, TypeOK
    <2>4. HoldCap'
      <3> SUFFICES ASSUME NEW u \in Users
                   PROVE Cardinality(At(u, Holding)') <= MaxRuns
        BY DEF HoldCap, Holding
      <3>1. Cardinality(At(u, Holding)') =
              IF Owner[r] = u THEN Cardinality(At(u, Holding)) + 1
                              ELSE Cardinality(At(u, Holding))
        BY <1>0, <2>1, Enter DEF Holding
      <3>2. Owner[r] = u => Cardinality(At(u, Holding)) < MaxRuns
        BY <1>1, ActiveHolding DEF Reserve
      <3>3. Cardinality(At(u, Holding)) \in Nat  BY AtFinite
      <3>4. QED
        BY <1>0, <3>1, <3>2, <3>3, ManagerAssumption DEF HoldCap
    <2>5. QED  BY <2>2, <2>3, <2>4 DEF IInv
  <1>2. ASSUME NEW r \in Runs, Refuse(r) PROVE IInv'
    <2>1. pc' = [pc EXCEPT ![r] = "refused"] /\ pc[r] = "waiting"
      BY <1>2 DEF Refuse
    <2>2. TypeOK' /\ DoneStage' /\ TableExact'
      BY <1>0, <1>2 DEF Refuse, TypeOK, Stages, DoneStage, TableExact
    <2>3. \A u \in Users : /\ At(u, {"reserved"})' = At(u, {"reserved"})
                           /\ At(u, Holding)' = At(u, Holding)
      BY <1>0, <2>1, Stay DEF Holding
    <2>4. ReservationsExact' /\ HoldCap'
      BY <1>0, <1>2, <2>3 DEF Refuse, ReservationsExact, HoldCap
    <2>5. QED  BY <2>2, <2>4 DEF IInv
  <1>3. ASSUME NEW r \in Runs, Unreserve(Owner[r]), pc[r] = "reserved",
               NEW b, b # "reserved", pc' = [pc EXCEPT ![r] = b]
        PROVE  ReservationsExact' /\ reservations' \in [Users -> Nat]
    <2> SUFFICES ASSUME NEW u \in Users
                 PROVE /\ reservations'[u] = Cardinality(At(u, {"reserved"})')
                       /\ reservations' \in [Users -> Nat]
      BY <1>0, <1>3, <1>a DEF ReservationsExact, Unreserve, TypeOK
    <2>1. Cardinality(At(u, {"reserved"})') =
            IF Owner[r] = u THEN Cardinality(At(u, {"reserved"})) - 1
                            ELSE Cardinality(At(u, {"reserved"}))
      <3>1. b \notin {"reserved"} /\ pc[r] \in {"reserved"}  BY <1>3
      <3>2. QED  BY <1>0, <1>3, <3>1, Leave
    <2>2. reservations[Owner[r]] > 0
      BY <1>0, <1>3, <1>a, Positive DEF ReservationsExact
    <2>3. QED
      BY <1>0, <1>3, <1>a, <2>1, <2>2 DEF ReservationsExact, Unreserve, TypeOK
  <1>4. ASSUME NEW r \in Runs, FactoryFails(r) PROVE IInv'
    <2>1. pc' = [pc EXCEPT ![r] = "failed"] /\ pc[r] = "reserved"
      BY <1>4 DEF FactoryFails
    <2>2. ReservationsExact' /\ reservations' \in [Users -> Nat]
      BY <1>3, <1>4, <2>1 DEF FactoryFails
    <2>3. TypeOK' /\ DoneStage' /\ TableExact'
      BY <1>0, <1>4, <2>2
      DEF FactoryFails, TypeOK, Stages, DoneStage, TableExact
    <2>4. HoldCap'
      <3> SUFFICES ASSUME NEW u \in Users
                   PROVE Cardinality(At(u, Holding)') <= MaxRuns
        BY DEF HoldCap, Holding
      <3>1. Cardinality(At(u, Holding)') =
              IF Owner[r] = u THEN Cardinality(At(u, Holding)) - 1
                              ELSE Cardinality(At(u, Holding))
        BY <1>0, <2>1, Leave DEF Holding
      <3>2. Cardinality(At(u, Holding)) \in Nat  BY AtFinite
      <3>3. QED  BY <1>0, <3>1, <3>2, ManagerAssumption DEF HoldCap
    <2>5. QED  BY <2>2, <2>3, <2>4 DEF IInv
  <1>5. ASSUME NEW r \in Runs, Register(r) PROVE IInv'
    <2>1. pc' = [pc EXCEPT ![r] = "registered"] /\ pc[r] = "reserved"
      BY <1>5 DEF Register
    <2>2. ReservationsExact' /\ reservations' \in [Users -> Nat]
      BY <1>3, <1>5, <2>1 DEF Register
    <2>3. TypeOK' /\ DoneStage' /\ TableExact'
      BY <1>0, <1>5, <2>2
      DEF Register, TypeOK, Stages, DoneStage, TableExact
    <2>4. \A u \in Users : At(u, Holding)' = At(u, Holding)
      BY <1>0, <2>1, Stay DEF Holding
    <2>5. QED  BY <1>0, <2>2, <2>3, <2>4 DEF IInv, HoldCap
  <1>6. ASSUME NEW r \in Runs, StartThread(r) PROVE IInv'
    <2>1. PICK b \in {"running", "stranded"} : pc' = [pc EXCEPT ![r] = b]
      BY <1>6 DEF StartThread
    <2>2. pc[r] = "registered" /\ UNCHANGED <<runs, done, reservations>>
      BY <1>6 DEF StartThread
    <2>3. TypeOK' /\ DoneStage' /\ TableExact'
      BY <1>0, <2>1, <2>2 DEF TypeOK, Stages, DoneStage, TableExact
    <2>4. ASSUME NEW u \in Users
          PROVE  /\ At(u, {"reserved"})' = At(u, {"reserved"})
                 /\ At(u, Holding)' = At(u, Holding)
      <3>1. b \in {"reserved"} <=> pc[r] \in {"reserved"}  BY <2>2
      <3>2. b \in Holding <=> pc[r] \in Holding  BY <2>2 DEF Holding
      <3>3. At(u, {"reserved"})' = At(u, {"reserved"})  BY <1>0, <2>1, <3>1, Stay
      <3>4. At(u, Holding)' = At(u, Holding)  BY <1>0, <2>1, <3>2, Stay
      <3>5. QED  BY <3>3, <3>4
    <2>5. QED
      BY <1>0, <2>2, <2>3, <2>4 DEF IInv, ReservationsExact, HoldCap
  <1>7. ASSUME NEW r \in Runs, Finish(r) PROVE IInv'
    <2>1. pc' = [pc EXCEPT ![r] = "done"] /\ pc[r] = "running"
      BY <1>7 DEF Finish
    <2>2. TypeOK' /\ DoneStage' /\ TableExact'
      BY <1>0, <1>7 DEF Finish, TypeOK, Stages, DoneStage, TableExact
    <2>3. ReservationsExact'
      <3>1. \A u \in Users : At(u, {"reserved"})' = At(u, {"reserved"})
        BY <1>0, <2>1, Stay
      <3>2. QED  BY <1>0, <1>7, <3>1 DEF Finish, ReservationsExact
    <2>4. HoldCap'
      <3> SUFFICES ASSUME NEW u \in Users
                   PROVE Cardinality(At(u, Holding)') <= MaxRuns
        BY DEF HoldCap, Holding
      <3>1. Cardinality(At(u, Holding)') =
              IF Owner[r] = u THEN Cardinality(At(u, Holding)) - 1
                              ELSE Cardinality(At(u, Holding))
        BY <1>0, <2>1, Leave DEF Holding
      <3>2. Cardinality(At(u, Holding)) \in Nat  BY AtFinite
      <3>3. QED  BY <1>0, <3>1, <3>2, ManagerAssumption DEF HoldCap
    <2>5. QED  BY <2>2, <2>3, <2>4 DEF IInv
  <1>8. ASSUME NEW r \in Runs, release(r) PROVE IInv'
    <2>1. TypeOK' /\ DoneStage' /\ TableExact'
      BY <1>0, <1>8 DEF release, TypeOK, DoneStage, TableExact
    <2>2. ReservationsExact' /\ HoldCap'
      BY <1>0, <1>8 DEF release, ReservationsExact, HoldCap, At
    <2>3. QED  BY <2>1, <2>2 DEF IInv
  <1>9. CASE UNCHANGED vars
    BY <1>0, <1>9
    DEF vars, IInv, TypeOK, DoneStage, TableExact, ReservationsExact, HoldCap, At
  <1>10. QED
    BY <1>1, <1>2, <1>4, <1>5, <1>6, <1>7, <1>8, <1>9 DEF Next

LEMMA InvCorrect == Spec => []IInv
  BY InitInv, StepInv, PTL DEF Spec

-----------------------------------------------------------------------------
(* The results. *)

(* No path through create leaks a reservation or gives one back twice.     *)
THEOREM ReservationsCorrect == Spec => []ReservationsExact
  <1>1. IInv => ReservationsExact  BY DEF IInv
  <1>2. QED  BY <1>1, InvCorrect, PTL

(* The live-run cap holds for every account, whatever the interleaving of  *)
(* the requests' two critical sections.                                    *)
THEOREM CapCorrect == Spec => []LiveCap
  <1>1. IInv => LiveCap
    <2> SUFFICES ASSUME IInv, NEW u \in Users
                 PROVE Cardinality(At(u, {"running"})) <= MaxRuns
      BY DEF LiveCap
    <2>1. At(u, {"running"}) \in SUBSET At(u, Holding)
      BY DEF At, Holding
    <2>2. Cardinality(At(u, {"running"})) <= Cardinality(At(u, Holding))
      BY <2>1, AtFinite, FS_Subset
    <2>3. QED
      BY <2>2, AtFinite, ManagerAssumption DEF IInv, HoldCap
  <1>2. QED  BY <1>1, InvCorrect, PTL

(* A 429 is answered only to an account whose slots are all taken.         *)
THEOREM RefusalCorrect == Spec => RefusedOnlyWhenFull
  <1> DEFINE A == \A r \in Runs : pc[r] = "waiting" /\ pc'[r] = "refused" =>
                    Cardinality(At(Owner[r], Holding)) >= MaxRuns
  <1>1. IInv /\ [Next]_vars => [A]_vars
    <2> SUFFICES ASSUME IInv, Next, NEW r \in Runs,
                        pc[r] = "waiting", pc'[r] = "refused"
                 PROVE Cardinality(At(Owner[r], Holding)) >= MaxRuns
      BY DEF vars
    <2>1. Refuse(r)
      BY DEF IInv, TypeOK, Next, Reserve, Refuse, FactoryFails, Register,
             StartThread, Finish, release
    <2>2. Owner[r] \in Users  BY ManagerAssumption
    <2>3. QED  BY <2>1, <2>2, ActiveHolding DEF Refuse
  <1>2. QED  BY <1>1, InvCorrect, PTL DEF Spec, RefusedOnlyWhenFull

(* RunManager implements RunSlots: a reservation takes a slot, a failed    *)
(* session and the end of a run give it back, and no other step moves one. *)
THEOREM ImplementsSlots == Spec => SlotsSpec
  <1> DEFINE used == [u \in Users |-> Cardinality(At(u, Holding))]
  <1>1. Init => Slots!Init
    <2> SUFFICES ASSUME Init PROVE Slots!Init
      OBVIOUS
    <2>1. \A u \in Users : At(u, Holding) = {}
      BY DEF Init, At, Holding
    <2>2. QED  BY <2>1, FS_EmptySet DEF Slots!Init
  <1>2. IInv /\ [Next]_vars => [Slots!Next]_used
    <2> SUFFICES ASSUME IInv, [Next]_vars PROVE [Slots!Next]_used
      OBVIOUS
    <2>0. TypeOK /\ \A r \in Runs : Owner[r] \in Users
      BY ManagerAssumption DEF IInv
    <2>1. ASSUME NEW r \in Runs, Reserve(r) PROVE Slots!Take(Owner[r])
      <3>1. used[Owner[r]] < MaxRuns
        BY <2>0, <2>1, ActiveHolding DEF Reserve
      <3>2. pc' = [pc EXCEPT ![r] = "reserved"] /\ pc[r] = "waiting"
        BY <2>1 DEF Reserve
      <3>3. \A u \in Users : Cardinality(At(u, Holding))' =
              IF Owner[r] = u THEN Cardinality(At(u, Holding)) + 1
                              ELSE Cardinality(At(u, Holding))
        BY <2>0, <3>2, Enter DEF Holding
      <3>4. used' = [used EXCEPT ![Owner[r]] = @ + 1]
        BY <2>0, <3>3
      <3>5. QED  BY <3>1, <3>4 DEF Slots!Take
    <2>2. ASSUME NEW r \in Runs, FactoryFails(r) \/ Finish(r)
          PROVE Slots!Give(Owner[r])
      <3>1. PICK b \in {"failed", "done"} : pc' = [pc EXCEPT ![r] = b]
        BY <2>2 DEF FactoryFails, Finish
      <3>2. pc[r] \in Holding /\ b \notin Holding
        BY <2>2 DEF FactoryFails, Finish, Holding
      <3>3. used[Owner[r]] > 0
        BY <2>0, <3>2, Positive
      <3>4. \A u \in Users : Cardinality(At(u, Holding))' =
              IF Owner[r] = u THEN Cardinality(At(u, Holding)) - 1
                              ELSE Cardinality(At(u, Holding))
        BY <2>0, <3>1, <3>2, Leave DEF Holding
      <3>5. used' = [used EXCEPT ![Owner[r]] = @ - 1]
        BY <2>0, <3>4
      <3>6. QED  BY <3>3, <3>5 DEF Slots!Give
    <2>3. ASSUME NEW r \in Runs,
                 Refuse(r) \/ Register(r) \/ StartThread(r) \/ release(r)
          PROVE used' = used
      <3>1. \A u \in Users : At(u, Holding)' = At(u, Holding)
        BY <2>0, <2>3
        DEF Refuse, Register, StartThread, release, TypeOK, At, Holding
      <3>2. QED  BY <3>1
    <2>4. CASE UNCHANGED vars
      BY <2>4 DEF vars, At
    <2>5. QED
      BY <2>0, <2>1, <2>2, <2>3, <2>4 DEF Next, Slots!Next
  <1>3. QED
    BY <1>1, <1>2, InvCorrect, PTL DEF Spec, SlotsSpec, Slots!Spec

(* The table holds every run from registration until it is done, so that   *)
(* interrupt and steer find it, and nothing else that is not done (create,  *)
(* get and release).                                                        *)
THEOREM TableCorrect == Spec => []TableExact
  <1>1. IInv => TableExact
    BY DEF IInv
  <1>2. QED  BY InvCorrect, <1>1, PTL
=============================================================================
