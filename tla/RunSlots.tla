------------------------------ MODULE RunSlots ------------------------------
(***************************************************************************)
(* What RunManager promises (docs/server.md, MJJ_MAX_RUNS_PER_USER: "live- *)
(* run cap per account"): every account has MaxRuns slots; a run takes one *)
(* when it begins and gives it back when it ends.                          *)
(***************************************************************************)
EXTENDS Integers

CONSTANTS
  Users,     \* accounts
  MaxRuns    \* slots of one account

VARIABLE used    \* slots an account has taken

Init == used = [u \in Users |-> 0]

Take(u) == used[u] < MaxRuns /\ used' = [used EXCEPT ![u] = @ + 1]

Give(u) == used[u] > 0 /\ used' = [used EXCEPT ![u] = @ - 1]

Next == \E u \in Users : Take(u) \/ Give(u)

Spec == Init /\ [][Next]_used
=============================================================================
