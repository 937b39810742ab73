---------------------------- MODULE BillingProofs ----------------------------
(***************************************************************************)
(* Proofs about settlement, for any runs, accounts, tokens, prices and     *)
(* bounds: no token is lost or paid twice, and nothing is overdrawn.       *)
(***************************************************************************)
EXTENDS Billing, TLAPS

(* A charge under way holds the lock of its account, ...                   *)
Exclusive == \A r \in Runs : pc[r] \in Charging => lock[Owner[r]] = r

(* ... so what it read is still what is owed when it writes, ...           *)
Fresh == \A r \in Runs : pc[r] \in {"owing", "spent"} => read[r] = owed[Owner[r]]

(* ... and it spends no more than the tokens pay for.                      *)
WithinAt(r) ==
  /\ pc[r] = "owing" => credits[r] = 0
  /\ pc[r] \in {"owing", "spent"} =>
       /\ 0 <= credits[r] /\ credits[r] <= due[r]
       /\ due[r] * tokens_per_credit <= read[r] + Tokens[r]
       /\ read[r] + Tokens[r] < (due[r] + 1) * tokens_per_credit
Within == \A r \in Runs : WithinAt(r)

(* The two halves of the type invariant. *)
Values ==
  /\ free \in [Users -> Int] /\ plan \in [Users -> Int] /\ paid \in [Users -> Int]
  /\ expired \in [Users -> BOOLEAN]
  /\ owed \in [Users -> Int] /\ total \in [Users -> Int] /\ rows \subseteq Runs
  /\ lock \in [Users -> Runs \cup {NoRun}] /\ pc \in [Runs -> Stages]
  /\ read \in [Runs -> Int] /\ due \in [Runs -> Int] /\ credits \in [Runs -> Int]
  /\ spent \in [Users -> Int] /\ strayed \in [Users -> Int]
  /\ outside \in Nat /\ faults \in Nat /\ crashes \in Nat

LockHeld ==
  \A u \in Users : lock[u] # NoRun =>
    pc[lock[u]] \in Charging /\ Owner[lock[u]] = u

LEMMA TypeParts == TypeOK <=> Values /\ LockHeld
  BY DEF TypeOK, Values, LockHeld

IInv == Values /\ LockHeld /\ Exclusive /\ Fresh /\ Within /\ Conserved
          /\ NeverNegative

-----------------------------------------------------------------------------
(* Arithmetic of the price. *)

\* The whole credits in a number of tokens, and the rest below one credit.
LEMMA WholeCredits ==
  ASSUME NEW n \in Nat, NEW p \in Nat \ {0}
  PROVE  /\ n \div p \in Nat
         /\ (n \div p) * p <= n
         /\ n < (n \div p + 1) * p
  <1>1. n = p * (n \div p) + (n % p) /\ n % p \in 0..(p - 1)  BY Z3
  <1>2. n \div p \in Int  OBVIOUS
  <1>3. QED  BY <1>1, <1>2, Z3

\* The price of a sum and of a difference.
LEMMA Distribute ==
  ASSUME NEW a \in Int, NEW b \in Int, NEW p \in Int
  PROVE  /\ a * p \in Int
         /\ (a + b) * p = a * p + b * p
         /\ (a - b) * p = a * p - b * p
  OBVIOUS

\* More credits cost no less.
LEMMA Monotone ==
  ASSUME NEW a \in Int, NEW b \in Int, NEW p \in Nat, a <= b
  PROVE  a * p <= b * p
  OBVIOUS

-----------------------------------------------------------------------------
(* One lemma per kind of step. *)

\* The initial states.
LEMMA InitIInv == Init => IInv
  <1> SUFFICES ASSUME Init PROVE IInv  OBVIOUS
  <1> USE BillingAssumption DEF Init, Charging
  <1>1. Values /\ LockHeld  BY DEF Values, LockHeld, Stages
  <1>2. Exclusive /\ Fresh /\ Within  BY DEF Exclusive, Fresh, Within, WithinAt
  <1>3. Conserved
    <2>1. ASSUME NEW u \in Users PROVE InFlight(u) = 0  BY DEF InFlight
    <2>2. 0 * tokens_per_credit = 0  OBVIOUS
    <2>3. QED  BY <2>1, <2>2 DEF Conserved
  <1>4. NeverNegative  BY DEF NeverNegative
  <1>5. QED  BY <1>1, <1>2, <1>3, <1>4 DEF IInv

\* A step that moves no token and no credit keeps the account balanced.
LEMMA Quiet ==
  ASSUME Conserved, UNCHANGED <<spent, owed, total, strayed>>,
         \A u \in Users : InFlight(u)' = InFlight(u)
  PROVE  Conserved'
  BY DEF Conserved

\* Admission and its refusal.
LEMMA AdmitStep ==
  ASSUME IInv, NEW r \in Runs, prepare_run(r)
  PROVE  IInv'
  <1> USE BillingAssumption
  <1>1. Values'  BY DEF IInv, Values, Stages, prepare_run, Goto, account, accrual, history
  <1>2. LockHeld'  BY DEF IInv, Values, LockHeld, Charging, prepare_run, Goto, account, accrual, history
  <1>3. Exclusive'  BY DEF IInv, Values, Exclusive, Charging, prepare_run, Goto, account, accrual, history
  <1>4. Fresh'  BY DEF IInv, Values, Fresh, prepare_run, Goto, account, accrual, history
  <1>5. Within'  BY DEF IInv, Values, Within, WithinAt, prepare_run, Goto, account, accrual, history
  <1>6. Conserved'
    <2>1. \A u \in Users : InFlight(u)' = InFlight(u)
      BY DEF IInv, Values, LockHeld, Charging, prepare_run, Goto, account, accrual, history, InFlight
    <2>2. QED  BY <2>1, Quiet DEF IInv, prepare_run, Goto, account, accrual, history
  <1>7. NeverNegative'  BY DEF IInv, Values, NeverNegative, prepare_run, Goto, account, accrual, history
  <1>8. QED  BY <1>1, <1>2, <1>3, <1>4, <1>5, <1>6, <1>7 DEF IInv

\* A run that raises.
LEMMA RaiseStep ==
  ASSUME IInv, NEW r \in Runs, RunRaises(r)
  PROVE  IInv'
  <1> USE BillingAssumption
  <1>1. Values'  BY DEF IInv, Values, Stages, RunRaises, Goto, account, accrual, history
  <1>2. LockHeld'  BY DEF IInv, Values, LockHeld, Charging, RunRaises, Goto, account, accrual, history
  <1>3. Exclusive'  BY DEF IInv, Values, Exclusive, Charging, RunRaises, Goto, account, accrual, history
  <1>4. Fresh'  BY DEF IInv, Values, Fresh, RunRaises, Goto, account, accrual, history
  <1>5. Within'  BY DEF IInv, Values, Within, WithinAt, RunRaises, Goto, account, accrual, history
  <1>6. Conserved'
    <2>1. \A u \in Users : InFlight(u)' = InFlight(u)
      BY DEF IInv, Values, LockHeld, Charging, RunRaises, Goto, account, accrual, history, InFlight
    <2>2. QED  BY <2>1, Quiet DEF IInv, RunRaises, Goto, account, accrual, history
  <1>7. NeverNegative'  BY DEF IInv, Values, NeverNegative, RunRaises, Goto, account, accrual, history
  <1>8. QED  BY <1>1, <1>2, <1>3, <1>4, <1>5, <1>6, <1>7 DEF IInv

\* A charge gets the lock.
LEMMA AcquireStep ==
  ASSUME IInv, NEW r \in Runs, Acquire(r)
  PROVE  IInv'
  <1> USE BillingAssumption
  <1>1. Values'  BY DEF IInv, Values, Stages, Acquire, Goto, account, accrual, history
  <1>2. LockHeld'  BY DEF IInv, Values, LockHeld, Charging, Acquire, Goto, account, accrual, history
  <1>3. Exclusive'  BY DEF IInv, Values, Exclusive, Charging, Acquire, Goto, account, accrual, history
  <1>4. Fresh'  BY DEF IInv, Values, Fresh, Acquire, Goto, account, accrual, history
  <1>5. Within'  BY DEF IInv, Values, Within, WithinAt, Acquire, Goto, account, accrual, history
  <1>6. Conserved'
    <2>1. \A u \in Users : InFlight(u)' = InFlight(u)
      BY DEF IInv, Values, LockHeld, Charging, Acquire, Goto, account, accrual, history, InFlight
    <2>2. QED  BY <2>1, Quiet DEF IInv, Acquire, Goto, account, accrual, history
  <1>7. NeverNegative'  BY DEF IInv, Values, NeverNegative, Acquire, Goto, account, accrual, history
  <1>8. QED  BY <1>1, <1>2, <1>3, <1>4, <1>5, <1>6, <1>7 DEF IInv

\* Less than a credit is due: nothing is in flight.
LEMMA NothingDueStep ==
  ASSUME IInv, NEW r \in Runs, NothingDue(r)
  PROVE  IInv'
  <1> USE BillingAssumption
  <1>1. Values'  BY DEF IInv, Values, Stages, NothingDue, Goto, account, accrual, history
  <1>2. LockHeld'  BY DEF IInv, Values, LockHeld, Charging, NothingDue, Goto, account, accrual, history
  <1>3. Exclusive'  BY DEF IInv, Values, Exclusive, Charging, NothingDue, Goto, account, accrual, history
  <1>4. Fresh'  BY DEF IInv, Values, Fresh, NothingDue, Goto, account, accrual, history
  <1>5. Within'  BY DEF IInv, Values, Within, WithinAt, NothingDue, Goto, account, accrual, history
  <1>6. Conserved'
    <2>1. \A u \in Users : InFlight(u)' = InFlight(u)
      <3>1. credits[r] = 0 /\ pc[r] = "owing"
        BY DEF IInv, Within, WithinAt, NothingDue
      <3>2. /\ pc' = [pc EXCEPT ![r] = "spent"]
            /\ UNCHANGED <<lock, credits>>
        BY DEF NothingDue, Goto
      <3>3. QED  BY <3>1, <3>2 DEF IInv, Values, InFlight
    <2>2. QED  BY <2>1, Quiet DEF IInv, NothingDue, Goto, account, accrual, history
  <1>7. NeverNegative'  BY DEF IInv, Values, NeverNegative, NothingDue, Goto, account, accrual, history
  <1>8. QED  BY <1>1, <1>2, <1>3, <1>4, <1>5, <1>6, <1>7 DEF IInv

\* Another application, a top-up or an expiry.
LEMMA OutsideStep ==
  ASSUME IInv, NEW u \in Users, Outside(u)
  PROVE  IInv'
  <1> USE BillingAssumption
  <1>1. Values'
    <2>1. /\ paid' \in [Users -> Int] /\ plan' \in [Users -> Int]
          /\ free' \in [Users -> Int] /\ expired' \in [Users -> BOOLEAN]
      <3>1. ASSUME NEW delta \in {-1, 1}, paid' = [paid EXCEPT ![u] = @ + delta]
            PROVE  paid' \in [Users -> Int]
        <4>1. delta \in Int  OBVIOUS
        <4>2. QED  BY <3>1, <4>1 DEF IInv, Values
      <3>2. CASE UNCHANGED <<free, plan, expired>>
        BY <3>1, <3>2 DEF IInv, Values, Outside
      <3>3. CASE UNCHANGED <<free, paid>> /\ plan' = [plan EXCEPT ![u] = 1]
                 /\ expired' = [expired EXCEPT ![u] = FALSE]
        BY <3>3 DEF IInv, Values
      <3>4. CASE UNCHANGED <<free, plan, paid>>
                 /\ expired' = [expired EXCEPT ![u] = TRUE]
        BY <3>4 DEF IInv, Values
      <3>5. QED  BY <3>2, <3>3, <3>4 DEF Outside
    <2>2. outside' \in Nat  BY DEF IInv, Values, Outside
    <2>3. QED  BY <2>1, <2>2 DEF IInv, Values, Outside, accrual, charges
  <1>2. LockHeld'  BY DEF IInv, Values, LockHeld, Charging, Outside, accrual, charges
  <1>3. Exclusive'  BY DEF IInv, Values, Exclusive, Charging, Outside, accrual, charges
  <1>4. Fresh'  BY DEF IInv, Values, Fresh, Outside, accrual, charges
  <1>5. Within'  BY DEF IInv, Values, Within, WithinAt, Outside, accrual, charges
  <1>6. Conserved'
    <2>1. \A v \in Users : InFlight(v)' = InFlight(v)
      BY DEF IInv, Values, LockHeld, Charging, Outside, accrual, charges, InFlight
    <2>2. QED  BY <2>1, Quiet DEF IInv, Outside, accrual, charges
  <1>7. NeverNegative'  BY DEF IInv, Values, NeverNegative, Outside, accrual, charges
  <1>8. QED  BY <1>1, <1>2, <1>3, <1>4, <1>5, <1>6, <1>7 DEF IInv

\* A charge that fails before it spent.
LEMMA FailStep ==
  ASSUME IInv, NEW r \in Runs, SpendFails(r)
  PROVE  IInv'
  <1> USE BillingAssumption
  <1>1. Values'
    <2>1. lock' \in [Users -> Runs \cup {NoRun}] /\ pc' \in [Runs -> Stages]
      BY DEF IInv, Values, Stages, SpendFails, Release, Goto
    <2>2. faults' \in Nat  BY DEF IInv, Values, SpendFails, Fault
    <2>3. QED  BY <2>1, <2>2 DEF IInv, Values, SpendFails, account, accrual
  <1>2. LockHeld'  BY DEF IInv, Values, LockHeld, Charging, SpendFails, Fault, Release, Goto, account, accrual
  <1>3. Exclusive'  BY DEF IInv, Values, Exclusive, Charging, SpendFails, Fault, Release, Goto, account, accrual
  <1>4. Fresh'  BY DEF IInv, Values, Fresh, SpendFails, Fault, Release, Goto, account, accrual
  <1>5. Within'  BY DEF IInv, Values, Within, WithinAt, SpendFails, Fault, Release, Goto, account, accrual
  <1>6. Conserved'
    <2>1. \A u \in Users : InFlight(u)' = InFlight(u)
      BY DEF IInv, Values, LockHeld, Charging, SpendFails, Fault, Release, Goto, account, accrual, InFlight, Exclusive
    <2>2. QED  BY <2>1, Quiet DEF IInv, SpendFails, Fault, Release, Goto, account, accrual
  <1>7. NeverNegative'  BY DEF IInv, Values, NeverNegative, SpendFails, Fault, Release, Goto, account, accrual
  <1>8. QED  BY <1>1, <1>2, <1>3, <1>4, <1>5, <1>6, <1>7 DEF IInv

\* What is due is whole credits of what is owed and the new tokens.
LEMMA ReadStep ==
  ASSUME IInv, NEW r \in Runs, ReadOwed(r)
  PROVE  IInv'
  <1> USE BillingAssumption
  <1> DEFINE n == owed[Owner[r]] + Tokens[r]
             d == n \div tokens_per_credit
  <1>1. n \in Nat  BY DEF IInv, Values, NeverNegative
  <1>2. /\ d \in Nat /\ d * tokens_per_credit <= n
        /\ n < (d + 1) * tokens_per_credit
    BY <1>1, WholeCredits
  <1>3. /\ read' = [read EXCEPT ![r] = owed[Owner[r]]]
        /\ due' = [due EXCEPT ![r] = d] /\ credits' = [credits EXCEPT ![r] = 0]
        /\ pc[r] = "locked" /\ pc' = [pc EXCEPT ![r] = "owing"]
        /\ UNCHANGED <<lock, owed>>
    BY DEF ReadOwed, Goto, accrual
  <1> HIDE DEF d
  <1>4. Values'
    BY <1>2, <1>3 DEF IInv, Values, Stages, ReadOwed, account, accrual, history
  <1>5. LockHeld'  BY <1>3 DEF IInv, Values, LockHeld, Charging
  <1>6. Exclusive'  BY <1>3 DEF IInv, Values, Exclusive, Charging
  <1>7. Fresh'  BY <1>3 DEF IInv, Values, Fresh
  <1>8. Within'
    <2> SUFFICES ASSUME NEW s \in Runs PROVE WithinAt(s)'  BY DEF Within
    <2>1. CASE s = r
      BY <1>2, <1>3, <2>1 DEF IInv, Values, WithinAt
    <2>2. CASE s # r
      BY <1>3, <2>2 DEF IInv, Values, Within, WithinAt
    <2>3. QED  BY <2>1, <2>2
  <1>9. Conserved'
    <2>1. \A u \in Users : InFlight(u)' = InFlight(u)
      BY <1>3 DEF IInv, Values, LockHeld, Charging, InFlight
    <2>2. QED  BY <2>1, Quiet DEF IInv, ReadOwed, accrual, history
  <1>10. NeverNegative'
    BY DEF IInv, NeverNegative, ReadOwed, account, accrual, history
  <1>11. QED  BY <1>4, <1>5, <1>6, <1>7, <1>8, <1>9, <1>10 DEF IInv

\* A spend takes no more than there is, and only from what there is.
LEMMA SpendStep ==
  ASSUME IInv, NEW r \in Runs, _spend(r)
  PROVE  IInv'
  <1> USE BillingAssumption
  <1> DEFINE u == Owner[r]
             take == Least(due[r], Available(u))
  <1>1. /\ pc[r] = "owing" /\ due[r] > 0 /\ due[r] \in Int /\ credits[r] = 0
        /\ pc' = [pc EXCEPT ![r] = "spent"] /\ lock[u] = r /\ u \in Users
        /\ UNCHANGED <<lock, owed, read, due, total, strayed, rows, expired>>
        /\ UNCHANGED <<outside, faults, crashes>>
    BY DEF IInv, Values, Exclusive, Charging, Within, WithinAt, _spend, Goto,
           accrual
  <1>2. Available(u) \in Int /\ PlanCredits(u) \in Nat
        /\ PlanCredits(u) <= plan[u] /\ free[u] \in Nat /\ paid[u] \in Nat
        /\ Available(u) = free[u] + PlanCredits(u) + paid[u]
    BY <1>1 DEF IInv, Values, NeverNegative, Available, PlanCredits
  <1>3. take \in Int /\ take <= due[r] /\ take <= Available(u)
    BY <1>1, <1>2 DEF Least
  <1>4. CASE take <= 0
    <2>1. UNCHANGED <<free, plan, paid, credits, spent>>
      BY <1>4 DEF _spend
    <2>2. Values'  BY <1>1, <2>1 DEF IInv, Values, Stages
    <2>3. LockHeld'  BY <1>1 DEF IInv, Values, LockHeld, Charging
    <2>4. Exclusive' /\ Fresh'
      BY <1>1 DEF IInv, Values, Exclusive, Fresh, Charging
    <2>5. Within'  BY <1>1, <2>1 DEF IInv, Values, Within, WithinAt
    <2>6. Conserved'
      <3>1. \A v \in Users : InFlight(v)' = InFlight(v)
        BY <1>1, <2>1 DEF IInv, Values, InFlight
      <3>2. QED  BY <1>1, <2>1, <3>1, Quiet DEF IInv
    <2>7. NeverNegative'  BY <1>1, <2>1 DEF IInv, NeverNegative
    <2>8. QED  BY <2>2, <2>3, <2>4, <2>5, <2>6, <2>7 DEF IInv
  <1>5. CASE take > 0
    <2>1. /\ Take(u, take) /\ credits' = [credits EXCEPT ![r] = take]
          /\ spent' = [spent EXCEPT ![u] = @ + take]
      BY <1>3, <1>5 DEF _spend
    <2> DEFINE useFree == Least(take, free[u])
               usePlan == Least(take - useFree, PlanCredits(u))
               usePaid == take - useFree - usePlan
    <2>2. /\ useFree \in Nat /\ useFree <= free[u]
          /\ usePlan \in Nat /\ usePlan <= PlanCredits(u)
          /\ usePaid \in Nat /\ usePaid <= paid[u]
      <3> HIDE DEF take
      <3>1. /\ useFree \in Nat /\ useFree <= free[u] /\ useFree <= take
            /\ useFree = free[u] \/ useFree = take
        BY <1>2, <1>3, <1>5 DEF Least
      <3> HIDE DEF useFree
      <3>2. /\ usePlan \in Nat /\ usePlan <= PlanCredits(u)
            /\ usePlan <= take - useFree
            /\ usePlan = PlanCredits(u) \/ usePlan = take - useFree
        BY <1>2, <1>3, <3>1 DEF Least
      <3> HIDE DEF usePlan
      <3>3. QED  BY <1>2, <1>3, <3>1, <3>2
    <2>3. /\ free' = [free EXCEPT ![u] = @ - useFree]
          /\ plan' = [plan EXCEPT ![u] = PlanCredits(u) - usePlan]
          /\ paid' = [paid EXCEPT ![u] = @ - usePaid]
      BY <2>1 DEF Take
    <2> HIDE DEF take, useFree, usePlan, usePaid
    <2>4. Values'
      <3>1. free' \in [Users -> Int] /\ plan' \in [Users -> Int]
            /\ paid' \in [Users -> Int]
        BY <1>1, <1>2, <2>2, <2>3 DEF IInv, Values
      <3>2. credits' \in [Runs -> Int] /\ spent' \in [Users -> Int]
            /\ pc' \in [Runs -> Stages]
        BY <1>1, <1>3, <2>1 DEF IInv, Values, Stages
      <3>3. QED  BY <1>1, <3>1, <3>2 DEF IInv, Values
    <2>5. LockHeld'  BY <1>1 DEF IInv, Values, LockHeld, Charging
    <2>6. Exclusive' /\ Fresh'
      BY <1>1 DEF IInv, Values, Exclusive, Fresh, Charging
    <2>7. Within'
      <3> SUFFICES ASSUME NEW s \in Runs PROVE WithinAt(s)'  BY DEF Within
      <3>1. CASE s = r
        BY <1>1, <1>3, <1>5, <2>1, <3>1 DEF IInv, Values, Within, WithinAt
      <3>2. CASE s # r
        BY <1>1, <2>1, <3>2 DEF IInv, Values, Within, WithinAt
      <3>3. QED  BY <3>1, <3>2
    <2>8. Conserved'
      <3> SUFFICES ASSUME NEW v \in Users
                   PROVE  spent'[v] * tokens_per_credit + owed'[v]
                            = total'[v] + (strayed'[v] + InFlight(v)')
                                * tokens_per_credit
        BY DEF Conserved
      <3>1. spent[v] * tokens_per_credit + owed[v]
              = total[v] + (strayed[v] + InFlight(v)) * tokens_per_credit
        BY DEF IInv, Conserved
      <3>2. CASE v = u
        <4>1. InFlight(v) = 0 /\ InFlight(v)' = take
              /\ spent'[v] = spent[v] + take
          BY <1>1, <2>1, <3>2 DEF IInv, Values, InFlight
        <4>2. (spent[v] + take) * tokens_per_credit
                = spent[v] * tokens_per_credit + take * tokens_per_credit
              /\ (strayed[v] + take) * tokens_per_credit
                   = strayed[v] * tokens_per_credit + take * tokens_per_credit
              /\ take * tokens_per_credit \in Int
              /\ spent[v] * tokens_per_credit \in Int
              /\ strayed[v] * tokens_per_credit \in Int
          BY <1>3, Distribute DEF IInv, Values
        <4>3. strayed[v] + 0 = strayed[v] /\ owed[v] \in Int /\ total[v] \in Int
          BY DEF IInv, Values
        <4>4. QED  BY <1>1, <3>1, <4>1, <4>2, <4>3
      <3>3. CASE v # u
        <4>1. InFlight(v)' = InFlight(v) /\ spent'[v] = spent[v]
          BY <1>1, <2>1, <3>3 DEF IInv, Values, LockHeld, InFlight
        <4>2. QED  BY <1>1, <3>1, <4>1
      <3>4. QED  BY <3>2, <3>3
    <2>9. NeverNegative'
      <3> SUFFICES ASSUME NEW v \in Users
                   PROVE  /\ free'[v] >= 0 /\ plan'[v] >= 0 /\ paid'[v] >= 0
                          /\ owed'[v] >= 0 /\ strayed'[v] >= 0 /\ spent'[v] >= 0
        BY DEF NeverNegative
      <3>1. CASE v = u
        BY <1>1, <1>2, <1>3, <1>5, <2>1, <2>2, <2>3, <3>1
           DEF IInv, Values, NeverNegative
      <3>2. CASE v # u
        BY <1>1, <2>1, <2>3, <3>2 DEF IInv, Values, NeverNegative
      <3>3. QED  BY <3>1, <3>2
    <2>10. QED  BY <2>4, <2>5, <2>6, <2>7, <2>8, <2>9 DEF IInv
  <1>6. QED  BY <1>3, <1>4, <1>5

\* What is left owed: what was owed and the new tokens less what was paid.
LEMMA NewOwedValue ==
  ASSUME IInv, NEW r \in Runs, pc[r] = "spent"
  PROVE  /\ NewOwed(r) = owed[Owner[r]] + Tokens[r] - credits[r] * tokens_per_credit
         /\ NewOwed(r) \in Int /\ NewOwed(r) >= 0
         /\ credits[r] = due[r] => NewOwed(r) < tokens_per_credit
  <1> DEFINE p == tokens_per_credit
  <1>1. /\ read[r] = owed[Owner[r]] /\ read[r] \in Int /\ Tokens[r] \in Int
        /\ p \in Nat /\ due[r] \in Int
        /\ credits[r] \in Int /\ credits[r] <= due[r]
        /\ due[r] * p <= read[r] + Tokens[r]
        /\ read[r] + Tokens[r] < (due[r] + 1) * p
    BY BillingAssumption DEF IInv, Values, Fresh, Within, WithinAt
  <1>2. /\ (due[r] - credits[r]) * p = due[r] * p - credits[r] * p
        /\ (due[r] + 1) * p = due[r] * p + 1 * p
        /\ due[r] * p \in Int /\ credits[r] * p \in Int /\ 1 * p = p
    BY <1>1, Distribute
  <1>3. credits[r] * p <= due[r] * p  BY <1>1, Monotone
  <1>4. NewOwed(r) = read[r] + Tokens[r] - credits[r] * p
    <2>1. NewOwed(r) = read[r] + Tokens[r] - due[r] * p + (due[r] - credits[r]) * p
      BY Zenon DEF NewOwed
    <2> HIDE DEF p
    <2>2. QED  BY <1>1, <1>2, <2>1
  <1>5. NewOwed(r) \in Int /\ NewOwed(r) >= 0  BY <1>1, <1>2, <1>3, <1>4
  <1>6. credits[r] = due[r] => NewOwed(r) < p  BY <1>1, <1>2, <1>4
  <1>7. QED  BY <1>1, <1>4, <1>5, <1>6

\* The record accounts for the tokens and for the credits in flight.
LEMMA RecordStep ==
  ASSUME IInv, NEW r \in Runs, Record(r)
  PROVE  IInv'
  <1> USE BillingAssumption
  <1> DEFINE u == Owner[r]
  <1>1. /\ pc[r] = "spent" /\ pc' = [pc EXCEPT ![r] = "recorded"]
        /\ u \in Users /\ lock[u] = r /\ lock' = [lock EXCEPT ![u] = NoRun]
        /\ owed' = [owed EXCEPT ![u] = NewOwed(r)]
        /\ total' = [total EXCEPT ![u] = @ + Tokens[r]]
        /\ UNCHANGED <<read, due, credits, spent, strayed>>
    BY DEF IInv, Exclusive, Charging, Record, Goto, Release, history
  <1>2. /\ NewOwed(r) = owed[u] + Tokens[r] - credits[r] * tokens_per_credit
        /\ NewOwed(r) \in Int /\ NewOwed(r) >= 0
    BY <1>1, NewOwedValue
  <1>3. Values'
    <2>1. /\ owed' \in [Users -> Int] /\ total' \in [Users -> Int]
          /\ lock' \in [Users -> Runs \cup {NoRun}] /\ pc' \in [Runs -> Stages]
      BY <1>1, <1>2 DEF IInv, Values, Stages
    <2>2. QED  BY <2>1 DEF IInv, Values, Record, account, history
  <1>4. LockHeld'  BY <1>1 DEF IInv, Values, LockHeld, Charging
  <1>5. Exclusive'  BY <1>1 DEF IInv, Values, Exclusive, Charging
  <1>6. Fresh'
    <2> SUFFICES ASSUME NEW s \in Runs, pc'[s] \in {"owing", "spent"}
                 PROVE  read'[s] = owed'[Owner[s]]
      BY DEF Fresh
    <2>1. s # r /\ pc[s] = pc'[s]  BY <1>1 DEF IInv, Values
    <2>2. Owner[s] # u  BY <1>1, <2>1 DEF IInv, Exclusive, Charging
    <2>3. QED  BY <1>1, <2>1, <2>2 DEF IInv, Values, Fresh
  <1>7. Within'  BY <1>1 DEF IInv, Values, Within, WithinAt
  <1>8. Conserved'
    <2> SUFFICES ASSUME NEW v \in Users
                 PROVE  spent'[v] * tokens_per_credit + owed'[v]
                          = total'[v] + (strayed'[v] + InFlight(v)')
                              * tokens_per_credit
      BY DEF Conserved
    <2>1. spent[v] * tokens_per_credit + owed[v]
            = total[v] + (strayed[v] + InFlight(v)) * tokens_per_credit
      BY DEF IInv, Conserved
    <2>2. CASE v = u
      <3>1. /\ InFlight(v) = credits[r] /\ InFlight(v)' = 0
            /\ owed'[v] = owed[v] + Tokens[r] - credits[r] * tokens_per_credit
            /\ total'[v] = total[v] + Tokens[r]
        BY <1>1, <1>2, <2>2 DEF IInv, Values, InFlight
      <3>2. /\ (strayed[v] + credits[r]) * tokens_per_credit
                 = strayed[v] * tokens_per_credit + credits[r] * tokens_per_credit
            /\ spent[v] * tokens_per_credit \in Int
            /\ strayed[v] * tokens_per_credit \in Int
            /\ credits[r] * tokens_per_credit \in Int
        BY Distribute DEF IInv, Values
      <3>3. /\ strayed[v] + 0 = strayed[v] /\ owed[v] \in Int
            /\ total[v] \in Int /\ Tokens[r] \in Int
        BY DEF IInv, Values
      <3>4. QED  BY <1>1, <2>1, <3>1, <3>2, <3>3
    <2>3. CASE v # u
      <3>1. InFlight(v)' = InFlight(v) /\ owed'[v] = owed[v]
            /\ total'[v] = total[v]
        BY <1>1, <2>3 DEF IInv, Values, LockHeld, InFlight
      <3>2. QED  BY <1>1, <2>1, <3>1
    <2>4. QED  BY <2>2, <2>3
  <1>9. NeverNegative'
    BY <1>1, <1>2 DEF IInv, Values, NeverNegative, Record, account
  <1>10. QED  BY <1>3, <1>4, <1>5, <1>6, <1>7, <1>8, <1>9 DEF IInv

\* Credits that stray move from one side of the account to the other.
LEMMA Strays ==
  ASSUME Conserved, UNCHANGED <<spent, owed, total>>,
         \A u \in Users : strayed'[u] + InFlight(u)' = strayed[u] + InFlight(u)
  PROVE  Conserved'
  BY DEF Conserved

\* A charge that fails after it spent: its credits stray.
LEMMA RecordFailsStep ==
  ASSUME IInv, NEW r \in Runs, RecordFails(r)
  PROVE  IInv'
  <1> USE BillingAssumption
  <1> DEFINE u == Owner[r]
  <1>1. /\ pc[r] = "spent" /\ pc' = [pc EXCEPT ![r] = "failed"]
        /\ u \in Users /\ lock[u] = r /\ lock' = [lock EXCEPT ![u] = NoRun]
        /\ strayed' = [strayed EXCEPT ![u] = @ + credits[r]]
        /\ credits[r] \in Int /\ credits[r] >= 0
        /\ UNCHANGED <<read, due, credits, spent, owed, total>>
    BY DEF IInv, Values, Exclusive, Charging, Within, WithinAt, RecordFails, Stray,
           Goto, Release, accrual
  <1>2. Values'
    <2>1. /\ strayed' \in [Users -> Int]
          /\ lock' \in [Users -> Runs \cup {NoRun}] /\ pc' \in [Runs -> Stages]
      BY <1>1 DEF IInv, Values, Stages
    <2>2. faults' \in Nat  BY DEF IInv, Values, RecordFails, Fault
    <2>3. QED  BY <2>1, <2>2 DEF IInv, Values, RecordFails, account, accrual
  <1>3. LockHeld'  BY <1>1 DEF IInv, Values, LockHeld, Charging
  <1>4. Exclusive' /\ Fresh'  BY <1>1 DEF IInv, Values, Exclusive, Fresh, Charging
  <1>5. Within'  BY <1>1 DEF IInv, Values, Within, WithinAt
  <1>6. Conserved'
    <2>1. ASSUME NEW v \in Users
          PROVE  strayed'[v] + InFlight(v)' = strayed[v] + InFlight(v)
      <3>1. CASE v = u
        BY <1>1, <3>1 DEF IInv, Values, InFlight
      <3>2. CASE v # u
        BY <1>1, <3>2 DEF IInv, Values, LockHeld, InFlight
      <3>3. QED  BY <3>1, <3>2
    <2>2. QED  BY <1>1, <2>1, Strays DEF IInv
  <1>7. NeverNegative'
    BY <1>1 DEF IInv, Values, NeverNegative, RecordFails, account, accrual
  <1>8. QED  BY <1>2, <1>3, <1>4, <1>5, <1>6, <1>7 DEF IInv

\* The process dies: every lock is gone and what was in flight strays.
LEMMA CrashStep ==
  ASSUME IInv, Crash
  PROVE  IInv'
  <1> USE BillingAssumption
  <1>1. /\ strayed' = [u \in Users |-> strayed[u] + InFlight(u)]
        /\ lock' = [u \in Users |-> NoRun]
        /\ pc' = [r \in Runs |->
                     IF pc[r] \in Charging \cup {"running"} THEN "lost" ELSE pc[r]]
        /\ UNCHANGED <<read, due, credits, spent, owed, total>>
    BY DEF Crash, InFlight, accrual
  <1>2. ASSUME NEW u \in Users
        PROVE  InFlight(u) \in Int /\ InFlight(u) >= 0 /\ InFlight(u)' = 0
    BY <1>1 DEF IInv, Values, Within, WithinAt, InFlight
  <1>3. \A r \in Runs : pc'[r] \notin Charging
    BY <1>1 DEF IInv, Values, Charging
  <1>4. Values'
    <2>1. strayed' \in [Users -> Int]  BY <1>1, <1>2 DEF IInv, Values
    <2>2. pc' \in [Runs -> Stages]
      BY <1>1 DEF IInv, Values, Stages, Charging
    <2>3. lock' \in [Users -> Runs \cup {NoRun}]  BY <1>1
    <2>4. crashes' \in Nat  BY DEF IInv, Values, Crash
    <2>5. QED  BY <2>1, <2>2, <2>3, <2>4 DEF IInv, Values, Crash, account, accrual
  <1>5. LockHeld'  BY <1>1 DEF LockHeld
  <1>6. Exclusive' /\ Fresh' /\ Within'
    BY <1>3 DEF Exclusive, Fresh, Within, WithinAt, Charging
  <1>7. Conserved'
    <2>1. \A u \in Users :
            strayed'[u] + InFlight(u)' = strayed[u] + InFlight(u)
      BY <1>1, <1>2 DEF IInv, Values
    <2>2. QED  BY <1>1, <2>1, Strays DEF IInv
  <1>8. NeverNegative'
    BY <1>1, <1>2 DEF IInv, Values, NeverNegative, Crash, account, accrual
  <1>9. QED  BY <1>4, <1>5, <1>6, <1>7, <1>8 DEF IInv

-----------------------------------------------------------------------------
(* The theorems. *)

\* No step leaves the inductive invariant.
LEMMA NextIInv ==
  ASSUME IInv, [Next]_vars
  PROVE  IInv'
  <1>1. CASE UNCHANGED vars
    BY <1>1 DEF IInv, Values, LockHeld, Exclusive, Fresh, Within, WithinAt,
                Conserved, InFlight, NeverNegative, vars, account, accrual,
                charges, history
  <1>2. ASSUME NEW r \in Runs,
               \/ prepare_run(r) \/ RunRaises(r) \/ Acquire(r) \/ ReadOwed(r)
               \/ _spend(r) \/ NothingDue(r) \/ SpendFails(r) \/ Record(r)
               \/ RecordFails(r)
        PROVE  IInv'
    BY <1>2, AdmitStep, RaiseStep, AcquireStep, ReadStep, SpendStep,
       NothingDueStep, FailStep, RecordStep, RecordFailsStep
  <1>3. ASSUME NEW u \in Users, Outside(u) PROVE IInv'
    BY <1>3, OutsideStep
  <1>4. CASE Crash  BY <1>4, CrashStep
  <1>5. QED  BY <1>1, <1>2, <1>3, <1>4 DEF Next

LEMMA Invariance == Spec => []IInv
  <1>1. IInv /\ [Next]_vars => IInv'  BY NextIInv
  <1>2. QED  BY InitIInv, <1>1, PTL DEF Spec

(* A charge that ends, in whatever way, leaves the lock of its account.    *)
THEOREM TypeCorrect == Spec => []TypeOK
  <1>1. IInv => TypeOK  BY TypeParts DEF IInv
  <1>2. QED  BY Invariance, <1>1, PTL

(* Every token recorded for an account is paid by a credit or still owed.  *)
THEOREM ConservationCorrect == Spec => []Conserved
  <1>1. IInv => Conserved  BY DEF IInv
  <1>2. QED  BY Invariance, <1>1, PTL

(* Neither credits nor accruals become negative.                           *)
THEOREM NoOverdraft == Spec => []NeverNegative
  <1>1. IInv => NeverNegative  BY DEF IInv
  <1>2. QED  BY Invariance, <1>1, PTL

(* A charge that gets what is due leaves less than a credit owed.          *)
THEOREM RemainderCorrect == Spec => OwedBelowCredit
  <1> DEFINE Remainder ==
        \A r \in Runs :
          pc[r] = "spent" /\ pc'[r] = "recorded" =>
            owed'[Owner[r]] < tokens_per_credit \/ credits[r] < due[r]
  <1>1. ASSUME IInv, [Next]_vars PROVE [Remainder]_vars
    <2> SUFFICES ASSUME NEW r \in Runs, pc[r] = "spent", pc'[r] = "recorded"
                 PROVE  owed'[Owner[r]] < tokens_per_credit \/ credits[r] < due[r]
      OBVIOUS
    <2>1. Record(r)
      BY <1>1 DEF IInv, Values, Next, vars, account, accrual, charges, history,
                  prepare_run, RunRaises, Acquire, ReadOwed, _spend, NothingDue,
                  SpendFails, Record, RecordFails, Outside, Crash, Goto, Charging
    <2>2. owed'[Owner[r]] = NewOwed(r)
      BY <1>1, <2>1, BillingAssumption DEF Record, IInv, Values
    <2>3. /\ NewOwed(r) \in Int
          /\ credits[r] = due[r] => NewOwed(r) < tokens_per_credit
      BY <1>1, NewOwedValue
    <2>4. credits[r] \in Int /\ due[r] \in Int /\ credits[r] <= due[r]
      BY <1>1 DEF IInv, Values, Within, WithinAt
    <2>5. QED  BY <2>2, <2>3, <2>4
  <1>2. QED  BY Invariance, <1>1, PTL DEF Spec, OwedBelowCredit

\* What is taken of each pot: the next one is touched once those before are empty.
LEMMA Pots ==
  ASSUME NEW f \in Nat, NEW p \in Nat, NEW t \in Nat
  PROVE  LET useFree == Least(t, f)
             usePlan == Least(t - useFree, p)
         IN  /\ useFree \in Nat /\ usePlan \in Nat
             /\ usePlan > 0 => useFree = f
             /\ t - useFree - usePlan > 0 => useFree = f /\ usePlan = p
  BY DEF Least

(* Free credits are spent first, then the plan's, then paid ones, and what  *)
(* leaves the pots is what is entered as spent (_spend).                    *)
THEOREM OrderOfSpending == Spec => SpendOrder
  <1> DEFINE Ordered ==
        \A u \in Users : spent'[u] > spent[u] =>
          /\ PlanCredits(u) # 0 /\ plan'[u] < PlanCredits(u) => free'[u] = 0
          /\ paid'[u] < paid[u] => free'[u] = 0 /\ plan'[u] = 0
          /\ free'[u] + plan'[u] + paid'[u] = Available(u) - (spent'[u] - spent[u])
          /\ expired[u] => plan'[u] = 0
  <1>1. ASSUME IInv, [Next]_vars PROVE [Ordered]_vars
    <2> SUFFICES ASSUME NEW u \in Users, spent'[u] > spent[u]
                 PROVE  /\ PlanCredits(u) # 0 /\ plan'[u] < PlanCredits(u) => free'[u] = 0
                        /\ paid'[u] < paid[u] => free'[u] = 0 /\ plan'[u] = 0
                        /\ free'[u] + plan'[u] + paid'[u]
                             = Available(u) - (spent'[u] - spent[u])
                        /\ expired[u] => plan'[u] = 0
      OBVIOUS
    <2>1. /\ spent \in [Users -> Int] /\ free \in [Users -> Int] /\ plan \in [Users -> Int]
          /\ paid \in [Users -> Int] /\ due \in [Runs -> Int] /\ expired \in [Users -> BOOLEAN]
          /\ \A v \in Users : free[v] >= 0 /\ plan[v] >= 0 /\ paid[v] >= 0
      BY <1>1 DEF IInv, Values, NeverNegative
    <2>2. spent' # spent
      BY <2>1
    <2>3. PICK r \in Runs : _spend(r)
      BY <1>1, <2>2
      DEF Next, vars, account, accrual, charges, history, prepare_run, RunRaises, Acquire,
          ReadOwed, NothingDue, SpendFails, Record, RecordFails, Outside, Crash
    <2> DEFINE t == Least(due[r], Available(Owner[r]))
    <2>4. /\ t > 0 /\ Take(Owner[r], t) /\ spent' = [spent EXCEPT ![Owner[r]] = @ + t]
          /\ Owner[r] \in Users /\ t \in Int
      <3>1. ~(t <= 0) /\ Take(Owner[r], t) /\ spent' = [spent EXCEPT ![Owner[r]] = @ + t]
        BY <2>2, <2>3 DEF _spend
      <3>2. Owner[r] \in Users /\ due[r] \in Int /\ Available(Owner[r]) \in Int
        BY <2>1, BillingAssumption DEF Available, PlanCredits
      <3>3. t \in Int
        BY <3>2 DEF Least
      <3> HIDE DEF t
      <3>4. QED  BY <3>1, <3>2, <3>3
    <2> HIDE DEF t
    <2>5. u = Owner[r]
      BY <2>1, <2>4
    <2> DEFINE f == free[u]
               p == PlanCredits(u)
               uf == Least(t, f)
               up == Least(t - uf, p)
    <2>6. /\ free'[u] = f - uf /\ plan'[u] = p - up /\ paid'[u] = paid[u] - (t - uf - up)
          /\ spent'[u] = spent[u] + t
      BY <2>1, <2>4, <2>5 DEF Take
    <2>7. /\ f \in Nat /\ p \in Nat /\ paid[u] \in Nat /\ t \in Nat /\ spent[u] \in Int
          /\ Available(u) = f + p + paid[u] /\ (expired[u] => p = 0)
      BY <2>1, <2>4 DEF PlanCredits, Available
    <2> HIDE DEF f, p
    <2>8. /\ uf \in Nat /\ up \in Nat
          /\ up > 0 => uf = f
          /\ t - uf - up > 0 => uf = f /\ up = p
      BY <2>7, Pots
    <2>9. expired[u] => plan'[u] = 0
      <3>1. p = 0 => up = 0
        BY <2>7, <2>8 DEF Least
      <3> HIDE DEF up
      <3>2. QED  BY <2>6, <2>7, <3>1
    <2> HIDE DEF uf, up
    <2>10. p # 0 /\ plan'[u] < p => free'[u] = 0
      BY <2>6, <2>7, <2>8
    <2>11. paid'[u] < paid[u] => free'[u] = 0 /\ plan'[u] = 0
      BY <2>6, <2>7, <2>8
    <2>12. free'[u] + plan'[u] + paid'[u] = Available(u) - (spent'[u] - spent[u])
      BY <2>6, <2>7, <2>8
    <2>13. QED  BY <2>9, <2>10, <2>11, <2>12 DEF p
  <1>2. QED  BY Invariance, <1>1, PTL DEF Spec, SpendOrder
=============================================================================
