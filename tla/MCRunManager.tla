---------------------------- MODULE MCRunManager ----------------------------
(* Five requests of two accounts against a cap of two. *)
EXTENDS RunManager

CONSTANTS a1, a2, a3, b1, b2, ann, bob

MCRuns == {a1, a2, a3, b1, b2}
MCUsers == {ann, bob}
MCOwner == [r \in MCRuns |-> IF r \in {b1, b2} THEN bob ELSE ann]
=============================================================================
