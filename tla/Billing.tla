------------------------------- MODULE Billing -------------------------------
(***************************************************************************)
(* Settlement of hosted runs (mjj/appnz.py: Billing.charge and _spend, and *)
(* the admission test of mjj/server.py: AgentService.prepare_run).         *)
(*                                                                         *)
(* Tokens accrue in the service's own database and whole credits are spent *)
(* in the shared one, which other applications change too.  The two are    *)
(* written one after the other under a lock per account that lives in the  *)
(* process; either write may fail and the process may die between them.    *)
(* Tokens and the price of a credit are whole numbers here.                *)
(***************************************************************************)
EXTENDS Integers, FiniteSets

CONSTANTS
  Runs, Users,
  Owner,              \* the account of a run
  Tokens,             \* input plus output tokens of a run
  tokens_per_credit,
  NoRun,              \* no run
  MaxPot,             \* bound: credits of each kind at first
  MaxOutside,         \* bound: changes of an account by others
  MaxFaults,          \* bound: failing transactions
  MaxCrashes          \* bound: process deaths

ASSUME BillingAssumption ==
  /\ IsFiniteSet(Runs) /\ NoRun \notin Runs
  /\ Owner \in [Runs -> Users] /\ Tokens \in [Runs -> Nat]
  /\ tokens_per_credit \in Nat \ {0}
  /\ MaxPot \in Nat /\ MaxOutside \in Nat /\ MaxFaults \in Nat /\ MaxCrashes \in Nat

\* The databases: the credits of an account, its accrual, the rows of runs.
VARIABLES
  free, plan, paid,   \* users.free_credits, plan_credits, paid_credits
  expired,            \* plan_credits_expire_at has passed
  owed, total,        \* agent_accrual.owed_tokens, total_tokens
  rows                \* ids in agent_runs

\* The process.
VARIABLES
  lock,               \* the run whose charge holds the account's lock
  pc,                 \* where a run and its charge stand
  read, due, credits  \* locals of charge: owed_tokens read, due, spent

\* History and bounds.
VARIABLES
  spent,              \* credits spent by this application (credit_ledger)
  strayed,            \* credits spent by charges that were never recorded
  outside, faults, crashes

account == <<free, plan, paid, expired>>
accrual == <<owed, total, rows>>
charges == <<lock, pc, read, due, credits>>
history == <<spent, strayed, outside, faults, crashes>>
vars == <<account, accrual, charges, history>>

Stages == {"new", "running", "denied", "locked", "owing", "spent", "recorded",
           "failed", "lost"}
Charging == {"locked", "owing", "spent"}

PlanCredits(u) == IF expired[u] THEN 0 ELSE plan[u]
Available(u) == free[u] + PlanCredits(u) + paid[u]

Least(a, b) == IF a < b THEN a ELSE b

Init ==
  /\ free \in [Users -> 0..MaxPot] /\ plan \in [Users -> 0..MaxPot]
  /\ paid \in [Users -> 0..MaxPot] /\ expired = [u \in Users |-> FALSE]
  /\ owed = [u \in Users |-> 0] /\ total = [u \in Users |-> 0] /\ rows = {}
  /\ lock = [u \in Users |-> NoRun] /\ pc = [r \in Runs |-> "new"]
  /\ read = [r \in Runs |-> 0] /\ due = [r \in Runs |-> 0]
  /\ credits = [r \in Runs |-> 0]
  /\ spent = [u \in Users |-> 0] /\ strayed = [u \in Users |-> 0]
  /\ outside = 0 /\ faults = 0 /\ crashes = 0

Goto(r, where) == pc' = [pc EXCEPT ![r] = where]

Release(u) == lock' = [lock EXCEPT ![u] = NoRun]

Fault == faults < MaxFaults /\ faults' = faults + 1

\* The credits go to no record.
Stray(r) == strayed' = [strayed EXCEPT ![Owner[r]] = @ + credits[r]]

-----------------------------------------------------------------------------

\* prepare_run: an account without a credit starts nothing.
prepare_run(r) ==
  /\ pc[r] = "new"
  /\ Goto(r, IF Available(Owner[r]) < 1 THEN "denied" ELSE "running")
  /\ UNCHANGED <<account, accrual, lock, read, due, credits, history>>

\* The agent raises: the run ends in error and nothing is charged.
RunRaises(r) ==
  /\ pc[r] = "running"
  /\ Goto(r, "failed")
  /\ UNCHANGED <<account, accrual, lock, read, due, credits, history>>

\* Mutant: charges of one account do not exclude each other.
AcquireShared(r) ==
  /\ pc[r] = "running"
  /\ lock' = [lock EXCEPT ![Owner[r]] = r]
  /\ Goto(r, "locked")
  /\ UNCHANGED <<account, accrual, read, due, credits, history>>

\* The run is over: charge waits for the lock of the account.
Acquire(r) ==
  /\ pc[r] = "running" /\ lock[Owner[r]] = NoRun
  /\ lock' = [lock EXCEPT ![Owner[r]] = r]
  /\ Goto(r, "locked")
  /\ UNCHANGED <<account, accrual, read, due, credits, history>>

\* Mutant: what is due is counted from this run's tokens alone.
ReadTokens(r) ==
  /\ pc[r] = "locked"
  /\ read' = [read EXCEPT ![r] = owed[Owner[r]]]
  /\ due' = [due EXCEPT ![r] = Tokens[r] \div tokens_per_credit]
  /\ credits' = [credits EXCEPT ![r] = 0]
  /\ Goto(r, "owing")
  /\ UNCHANGED <<account, accrual, lock, history>>

\* The accrual is read and the whole credits due are split off.
ReadOwed(r) ==
  /\ pc[r] = "locked"
  /\ read' = [read EXCEPT ![r] = owed[Owner[r]]]
  /\ due' = [due EXCEPT
               ![r] = (owed[Owner[r]] + Tokens[r]) \div tokens_per_credit]
  /\ credits' = [credits EXCEPT ![r] = 0]
  /\ Goto(r, "owing")
  /\ UNCHANGED <<account, accrual, lock, history>>

\* Mutant: an expired plan is still spent from.
TakeStale(u, take) ==
  LET useFree == Least(take, free[u])
      usePlan == Least(take - useFree, plan[u])
  IN  /\ free' = [free EXCEPT ![u] = @ - useFree]
      /\ plan' = [plan EXCEPT ![u] = @ - usePlan]
      /\ paid' = [paid EXCEPT ![u] = @ - (take - useFree - usePlan)]

\* Free credits first, then the plan, then paid ones; an expired plan is
\* written back as empty.
Take(u, take) ==
  LET useFree == Least(take, free[u])
      usePlan == Least(take - useFree, PlanCredits(u))
  IN  /\ free' = [free EXCEPT ![u] = @ - useFree]
      /\ plan' = [plan EXCEPT ![u] = PlanCredits(u) - usePlan]
      /\ paid' = [paid EXCEPT ![u] = @ - (take - useFree - usePlan)]

\* Mutant: credits of an expired plan still count as available.
SpendExpired(r) ==
  /\ pc[r] = "owing" /\ due[r] > 0
  /\ LET u == Owner[r]
         take == Least(due[r], free[u] + plan[u] + paid[u])
     IN  IF take <= 0
         THEN UNCHANGED <<free, plan, paid, credits, spent>>
         ELSE /\ Take(u, take)
              /\ credits' = [credits EXCEPT ![r] = take]
              /\ spent' = [spent EXCEPT ![u] = @ + take]
  /\ Goto(r, "spent")
  /\ UNCHANGED <<expired, accrual, lock, read, due, strayed, outside, faults, crashes>>

\* _spend, one transaction: what is due or what there is; from no credits
\* nothing is written.
_spend(r) ==
  /\ pc[r] = "owing" /\ due[r] > 0
  /\ LET u == Owner[r]
         take == Least(due[r], Available(u))
     IN  IF take <= 0
         THEN UNCHANGED <<free, plan, paid, credits, spent>>
         ELSE /\ Take(u, take)
              /\ credits' = [credits EXCEPT ![r] = take]
              /\ spent' = [spent EXCEPT ![u] = @ + take]
  /\ Goto(r, "spent")
  /\ UNCHANGED <<expired, accrual, lock, read, due, strayed, outside, faults, crashes>>

\* Less than a credit is due.
NothingDue(r) ==
  /\ pc[r] = "owing" /\ due[r] = 0
  /\ Goto(r, "spent")
  /\ UNCHANGED <<account, accrual, lock, read, due, credits, history>>

\* Mutant: the lock is not given back when the charge raises.
SpendFailsHolding(r) ==
  /\ pc[r] = "locked" \/ (pc[r] = "owing" /\ due[r] > 0)
  /\ Fault
  /\ UNCHANGED lock /\ Goto(r, "failed")
  /\ UNCHANGED <<account, accrual, read, due, credits, spent, strayed, outside, crashes>>

\* The accrual cannot be read, or _spend raises (an unknown account, a locked
\* database) and is rolled back.
SpendFails(r) ==
  /\ pc[r] = "locked" \/ (pc[r] = "owing" /\ due[r] > 0)
  /\ Fault
  /\ Release(Owner[r]) /\ Goto(r, "failed")
  /\ UNCHANGED <<account, accrual, read, due, credits, spent, strayed, outside, crashes>>

\* Mutant: a shortfall is forgiven.
NewOwedForgiven(r) == read[r] + Tokens[r] - due[r] * tokens_per_credit

\* owed after the charge: a shortfall goes back to the accrual.
NewOwed(r) ==
  read[r] + Tokens[r] - due[r] * tokens_per_credit
    + (due[r] - credits[r]) * tokens_per_credit

\* The accrual and the row of the run, one transaction.
Record(r) ==
  /\ pc[r] = "spent"
  /\ owed' = [owed EXCEPT ![Owner[r]] = NewOwed(r)]
  /\ total' = [total EXCEPT ![Owner[r]] = @ + Tokens[r]]
  /\ rows' = rows \cup {r}
  /\ Release(Owner[r]) /\ Goto(r, "recorded")
  /\ UNCHANGED <<account, read, due, credits, history>>

\* ... or it is rolled back, after the credits were spent.
RecordFails(r) ==
  /\ pc[r] = "spent" /\ Fault
  /\ Stray(r)
  /\ Release(Owner[r]) /\ Goto(r, "failed")
  /\ UNCHANGED <<account, accrual, read, due, credits, spent, outside, crashes>>

-----------------------------------------------------------------------------
(* Others. *)

\* A top-up, a subscription, its expiry, or another application's spending.
Outside(u) ==
  /\ outside < MaxOutside /\ outside' = outside + 1
  /\ \/ /\ \E delta \in {-1, 1} :
             /\ paid[u] + delta >= 0
             /\ paid' = [paid EXCEPT ![u] = @ + delta]
        /\ UNCHANGED <<free, plan, expired>>
     \/ /\ ~expired[u]
        /\ expired' = [expired EXCEPT ![u] = TRUE]
        /\ UNCHANGED <<free, plan, paid>>
     \/ /\ plan' = [plan EXCEPT ![u] = 1]
        /\ expired' = [expired EXCEPT ![u] = FALSE]
        /\ UNCHANGED <<free, paid>>
  /\ UNCHANGED <<accrual, charges, spent, strayed, faults, crashes>>

\* The process dies with its runs, its locks and the charges under way.
Crash ==
  /\ crashes < MaxCrashes /\ crashes' = crashes + 1
  /\ pc' = [r \in Runs |->
              IF pc[r] \in Charging \cup {"running"} THEN "lost" ELSE pc[r]]
  /\ strayed' = [u \in Users |->
       strayed[u] + IF lock[u] # NoRun /\ pc[lock[u]] = "spent"
                    THEN credits[lock[u]] ELSE 0]
  /\ lock' = [u \in Users |-> NoRun]
  /\ UNCHANGED <<account, accrual, read, due, credits, spent, outside, faults>>

Next ==
  \/ \E r \in Runs :
       \/ prepare_run(r) \/ RunRaises(r) \/ Acquire(r) \/ ReadOwed(r) \/ _spend(r)
       \/ NothingDue(r) \/ SpendFails(r) \/ Record(r) \/ RecordFails(r)
  \/ \E u \in Users : Outside(u)
  \/ Crash

Spec == Init /\ [][Next]_vars

-----------------------------------------------------------------------------
(* Properties. *)

(* The values of every variable, and: a held lock is held by a charge under*)
(* way of that account, so a charge that ended, however it ended, left it. *)
TypeOK ==
  /\ free \in [Users -> Int] /\ plan \in [Users -> Int] /\ paid \in [Users -> Int]
  /\ expired \in [Users -> BOOLEAN]
  /\ owed \in [Users -> Int] /\ total \in [Users -> Int] /\ rows \subseteq Runs
  /\ lock \in [Users -> Runs \cup {NoRun}] /\ pc \in [Runs -> Stages]
  /\ read \in [Runs -> Int] /\ due \in [Runs -> Int] /\ credits \in [Runs -> Int]
  /\ spent \in [Users -> Int] /\ strayed \in [Users -> Int]
  /\ outside \in Nat /\ faults \in Nat /\ crashes \in Nat
  /\ \A u \in Users : lock[u] # NoRun =>
       pc[lock[u]] \in Charging /\ Owner[lock[u]] = u

\* Credits of the charge under way that no record accounts for yet.
InFlight(u) ==
  IF lock[u] # NoRun /\ pc[lock[u]] = "spent" THEN credits[lock[u]] ELSE 0

(* docs/server.md: "input plus output tokens are added to that user's local*)
(* accrual" and "the unpaid token amount remains accrued".  Every recorded *)
(* token is paid by a credit or owed, never both and never neither, whoever*)
(* else charges the account or changes it; credits exceed what was recorded*)
(* only by those of charges that were cut off after they had spent.        *)
Conserved ==
  \A u \in Users :
    spent[u] * tokens_per_credit + owed[u]
      = total[u] + (strayed[u] + InFlight(u)) * tokens_per_credit

(* Concurrent spenders, expiry and faults never overdraw an account or make*)
(* an accrual negative.                                                    *)
NeverNegative ==
  \A u \in Users :
    /\ free[u] >= 0 /\ plan[u] >= 0 /\ paid[u] >= 0 /\ owed[u] >= 0
    /\ strayed[u] >= 0 /\ spent[u] >= 0

(* A whole credit stays owed only after a charge that found too few: every *)
(* charge that gets what is due, by what it read of the accrual under the  *)
(* account's lock, leaves less than a credit's worth.                      *)
OwedBelowCredit ==
  [][\A r \in Runs :
       pc[r] = "spent" /\ pc'[r] = "recorded" =>
         owed'[Owner[r]] < tokens_per_credit \/ credits[r] < due[r]]_vars

(* docs/server.md: "spends from free, then unexpired plan, then paid       *)
(* credits".  A spend touches a later pot only when the earlier ones are   *)
(* empty and takes from the usable pots exactly what it enters as spent.   *)
SpendOrder ==
  [][\A u \in Users : spent'[u] > spent[u] =>
       /\ PlanCredits(u) # 0 /\ plan'[u] < PlanCredits(u) => free'[u] = 0
       /\ paid'[u] < paid[u] => free'[u] = 0 /\ plan'[u] = 0
       /\ free'[u] + plan'[u] + paid'[u] = Available(u) - (spent'[u] - spent[u])
       /\ expired[u] => plan'[u] = 0]_vars
=============================================================================
