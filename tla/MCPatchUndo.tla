---------------------------- MODULE MCPatchUndo ----------------------------
(* Files and contents are interchangeable.  Two calls meet edits, faults    *)
(* and crashes; a third, which makes retention remove a checkpoint, comes   *)
(* only where none of these happened and meets none.                        *)
EXTENDS PatchUndo, TLC

Symmetry == Permutations(Files) \cup Permutations(Contents)

InThirdCall == nextId' > 3 \/ (nextId' = 3 /\ pc' = "planning")

MCNext == Next /\ (InThirdCall => edits' + faults' + crashes' = 0)

MCSpec == Init /\ [][MCNext]_vars
=============================================================================
