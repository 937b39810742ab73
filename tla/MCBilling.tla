----------------------------- MODULE MCBilling -----------------------------
(* Three runs of one account: below a credit, one and a half, two and a half. *)
EXTENDS Billing

CONSTANTS r1, r2, r3, ann

MCRuns == {r1, r2, r3}
MCUsers == {ann}
MCOwner == [r \in MCRuns |-> ann]
MCTokens == [r \in MCRuns |-> IF r = r1 THEN 1 ELSE IF r = r2 THEN 3 ELSE 5]
=============================================================================
